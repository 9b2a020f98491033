------------------------ MODULE ObjectLifetimeProofs ------------------------
(***************************************************************************)
(* For scripts that keep to the discipline below, no variable or member    *)
(* ever refers to a deleted object, whatever the number of objects,        *)
(* variables, levels of calls and shares.  For narrower ones counts are    *)
(* exact and nothing is left over; for all scripts no function begins with *)
(* what a variable of an earlier call held.                                *)
(***************************************************************************)
EXTENDS ObjectLifetime, ShareManagerProofs, FiniteSetTheorems, WellFoundedInduction

\* Scripts whose objects are instances of classes, that return from a function
\* only what nothing outside it refers to, and do not store an operand of a
\* caller.  They may assign objects over objects and they may fail at any
\* instruction.  C++ may call one function of theirs, with as many arguments
\* each time: what operands leave in the cells of the stack is in no variable.
Disciplined ==
    /\ Kinds = {"class"}
    /\ Features \cap {"escape", "operandArgument", "leftovers"} = {}

-----------------------------------------------------------------------------
(* The inductive invariant.                                                 *)

\* Every slot that holds o, in use or not: what Refs(o) is by DeadSlots.
Holders(o) == {s \in Slot : value[s].type = "object" /\ value[s].ref = o}

\* Slots out of use hold no object.
DeadSlots == \A s \in Slot \ LiveSlots : value[s].type # "object"

\* An object with a node exists, and the node is its own.
OwnNode ==
    \A o \in Object : nodeOf[o] # Null =>
        state[o] = "alive" /\ nodeOf[o] \in nodes /\ shared_ptr[nodeOf[o]] = o

\* The node that the object main returns has lost.
LostByMain(nd) == mode = "sweep" /\ why = "main" /\ nodeOf[shared_ptr[nd]] = Null

\* No object is a candidate twice.
DistinctCandidates ==
    \A l, m \in Levels : \A nd \in zero_shares[l], other \in zero_shares[m] :
        shared_ptr[nd] = shared_ptr[other] => nd = other

\* A candidate is the node of an existing object, or the one that the object
\* being returned has lost, which only the running level can hold.
CandidateNodes ==
    /\ \A l \in Levels : \A nd \in zero_shares[l] :
          /\ shared_ptr[nd] \in Object
          /\ state[shared_ptr[nd]] = "alive"
          /\ \/ nodeOf[shared_ptr[nd]] = nd
             \/ shared_ptr[nd] = ret /\ l = idxCurrentStack /\ mode # "result"
             \/ LostByMain(nd) /\ l = idxCurrentStack
    /\ DistinctCandidates

\* A reference leads to an existing object with a node, but for those of the
\* returning function to the object it returns.
References ==
    \A s \in Slot : value[s].type = "object" =>
        /\ value[s].ref \in Object
        /\ state[value[s].ref] = "alive"
        /\ \/ nodeOf[value[s].ref] # Null
           \/ value[s].ref = ret /\ mode # "result" /\ s \in {frame} \X Var

\* The count of an object with a node covers the slots that hold it.
Counts == \A o \in Object : nodeOf[o] # Null => Cardinality(Holders(o)) <= n_shares[nodeOf[o]]

\* Variables of the scope that is being popped hold none once visited.
PoppedVars ==
    mode \in {"pop", "sweep"} /\ why \in {"block", "return", "error"} =>
        \A v \in ScopeVars(PoppedFrame, depth[PoppedFrame]) \ popping :
            value[<<PoppedFrame, v>>].type # "object"

\* Operands exist.  Without a share they wait at their own level; only those
\* of the running statement can have one.
Operands ==
    \A l \in Levels : \A o \in temps[l] :
        /\ 1 <= l /\ l <= idxCurrentStack
        /\ nodeOf[o] # Null
        /\ \/ n_shares[nodeOf[o]] = 0 /\ nodeOf[o] \in zero_shares[l]
           \/ n_shares[nodeOf[o]] > 0 /\ l = idxCurrentStack /\ mode = "run"
        /\ mode \in {"run", "result"} \/ l # idxCurrentStack

\* The object on its way to the caller exists and has no node.
Result ==
    ret # Null =>
        /\ mode = "result" \/ (mode \in {"pop", "sweep"} /\ why = "return")
        /\ state[ret] = "alive" /\ nodeOf[ret] = Null

\* The levels in use by functions: level 1 may be main's.
FunctionRuns(f) == f >= 1 /\ f <= idxCurrentStack /\ (entry = "main" => f # 1)

\* Which levels and scopes are open in each mode.
Control ==
    /\ \A o \in Object : kind[o] = "class"
    /\ cascade = <<>>
    /\ cells = {}
    /\ sweeping => mode = "sweep"
    /\ mode # "pop" => popping = {}
    /\ mode = "idle" => idxCurrentStack = 0
    /\ idxCurrentStack = 0 => entry = "none"
    /\ entry # "main" => depth[0] = 0
    /\ entry = "main" => "noMain" \notin Features
    /\ entry = "C" => "callFromC" \in Features
    /\ mode \in {"run", "result"} => entry # "none" /\ idxCurrentStack >= 1
    /\ mode \in {"pop", "sweep"} =>
          \/ why = "clear" /\ idxCurrentStack = 0
          \/ why # "clear" /\ idxCurrentStack >= 1 /\ entry # "none"
    /\ mode \in {"pop", "sweep"} =>
          \/ why = "clear"
          \/ why = "block" /\ depth[frame] = BodyDepth(frame) + 1
          \/ why = "return" /\ frame # 0 /\ depth[frame] >= 1
          \/ why = "error" /\ OpenFrames # {} /\ \A l \in Levels : temps[l] = {}
          \/ why = "main" /\ idxCurrentStack = 1 /\ entry = "main" /\ depth[0] = 0
             /\ mode = "sweep"
    /\ mode = "result" => ret # Null
    /\ mode \in {"run", "result"} \/ why \in {"block", "return"} =>
          \A f \in Frames : FunctionRuns(f) => depth[f] >= 1
    /\ \A f \in Frames \ {0} : ~FunctionRuns(f) => depth[f] = 0

IObject ==
    /\ ObjectTypeOK
    /\ DeadSlots
    /\ OwnNode
    /\ CandidateNodes
    /\ References
    /\ Counts
    /\ PoppedVars
    /\ Operands
    /\ Result
    /\ Control

IInv == IManager /\ IObject

-----------------------------------------------------------------------------
(* Facts about sets.                                                        *)

\* Cardinalities of the sets of holders, one element more or less.
LEMMA NoMore ==
    ASSUME NEW S, IsFiniteSet(S), NEW T, T \subseteq S
    PROVE  Cardinality(T) \in Nat /\ Cardinality(S) \in Nat /\ Cardinality(T) <= Cardinality(S)
BY FS_Subset, FS_CardinalityType

LEMMA OneMore ==
    ASSUME NEW S, IsFiniteSet(S), NEW x, NEW T, T \subseteq S \cup {x}
    PROVE  Cardinality(T) \in Nat /\ Cardinality(S) \in Nat /\ Cardinality(T) <= Cardinality(S) + 1
<1> Cardinality(S) \in Nat
  BY FS_CardinalityType
<1>1. IsFiniteSet(S \cup {x})
  BY FS_AddElement
<1>2. Cardinality(S \cup {x}) <= Cardinality(S) + 1
  <2>1. Cardinality(S \cup {x}) = IF x \in S THEN Cardinality(S) ELSE Cardinality(S) + 1
    BY FS_AddElement
  <2> QED  BY <2>1
<1>3. Cardinality(T) <= Cardinality(S \cup {x}) /\ IsFiniteSet(T)
  BY <1>1, FS_Subset
<1> QED  BY <1>1, <1>2, <1>3, FS_CardinalityType

LEMMA OneLess ==
    ASSUME NEW S, IsFiniteSet(S), NEW x \in S, NEW T, T \subseteq S \ {x}
    PROVE  Cardinality(T) \in Nat /\ Cardinality(S) \in Nat /\ Cardinality(T) <= Cardinality(S) - 1
<1>1. IsFiniteSet(S \ {x}) /\ Cardinality(S \ {x}) = Cardinality(S) - 1
  BY FS_RemoveElement
<1>2. Cardinality(T) <= Cardinality(S \ {x}) /\ IsFiniteSet(T)
  BY <1>1, FS_Subset
<1> QED  BY <1>1, <1>2, FS_CardinalityType

\* A set of frames that is not empty has a topmost one.
LEMMA Topmost ==
    ASSUME NEW S, S \subseteq Frames, S # {}
    PROVE  \E f \in S : \A g \in S : g <= f
<1> MaxLevel \in Nat /\ \A f \in S : f \in Nat /\ f <= MaxLevel
  BY BoundAssumption DEF Frames
<1> DEFINE T == {MaxLevel - f : f \in S}
<1>1. T \subseteq Nat
  OBVIOUS
<1>2. T # {}
  OBVIOUS
<1>3. PICK t \in T : \A y \in T : ~(<<y, t>> \in OpToRel(<, Nat))
  <2> HIDE DEF T
  <2> QED  BY <1>1, <1>2, NatLessThanWellFounded, WFMin
<1>4. \A y \in T : ~(y < t)
  BY <1>1, <1>3 DEF OpToRel
<1>5. PICK f \in S : t = MaxLevel - f
  OBVIOUS
<1>6. \A g \in S : g <= f
  <2> TAKE g \in S
  <2>1. ~(MaxLevel - g < MaxLevel - f)
    BY <1>4, <1>5
  <2> QED  BY <2>1
<1> QED  BY <1>6

\* The top frame under an error is one of the open ones.
LEMMA TopFrameIsOpen ==
    OpenFrames # {} => TopFrame \in OpenFrames /\ TopFrame \in Frames
<1> SUFFICES ASSUME OpenFrames # {} PROVE TopFrame \in OpenFrames
  BY DEF OpenFrames
<1>1. \E f \in OpenFrames : \A g \in OpenFrames : g <= f
  BY Topmost DEF OpenFrames
<1> QED  BY <1>1 DEF TopFrame

\* The frames are finitely many.
LEMMA OpenFramesFinite == IsFiniteSet(OpenFrames)
<1>1. IsFiniteSet(Frames)
  BY FS_Interval, BoundAssumption DEF Frames
<1> QED  BY <1>1, FS_Subset DEF OpenFrames

\* The holders of an object are finitely many.
LEMMA HoldersFinite == \A o \in Object : IsFiniteSet(Holders(o))
<1>1. \A o \in Object : Holders(o) \subseteq Slot
  BY DEF Holders
<1> QED  BY <1>1, FiniteAssumption, FS_Subset

\* In states of the invariant they are its references in use.
LEMMA RefsAreHolders == DeadSlots => \A o \in Object : Refs(o) = Holders(o)
BY DEF DeadSlots, Refs, Holders, LiveSlots, Slot, FrameSlot, MemberSlot

-----------------------------------------------------------------------------
(* Facts about the states of the invariant.                                 *)

\* The running frame, and the frame whose scope is popped.
LEMMA RunningFrame ==
    ASSUME IInv
    PROVE  /\ idxCurrentStack \in Levels /\ MaxLevel \in Nat
           /\ frame \in Frames
           /\ idxCurrentStack >= 1 =>
                 /\ frame <= idxCurrentStack
                 /\ frame = 0 => entry = "main"
                 /\ frame # 0 => frame = idxCurrentStack /\ FunctionRuns(frame)
BY BoundAssumption DEF IInv, IManager, ManagerInv, ManagerTypeOK, Levels, Frames, frame,
                       FunctionRuns

LEMMA PoppedFrameIsOpen ==
    ASSUME IInv, mode \in {"pop", "sweep"}
    PROVE  /\ PoppedFrame \in Frames
           /\ why \in {"block", "return", "error"} => depth[PoppedFrame] >= 1
<1> IObject /\ Control /\ ObjectTypeOK /\ 0 \in Frames
  BY BoundAssumption DEF IInv, IObject, Frames
<1>1. CASE why = "error"
  BY <1>1, TopFrameIsOpen DEF PoppedFrame, Control, OpenFrames, ObjectTypeOK
<1>2. CASE why # "error"
  BY <1>2, RunningFrame DEF PoppedFrame, Control, ObjectTypeOK, BodyDepth
<1> QED  BY <1>1, <1>2

\* An object with a node shares it with no other.
LEMMA OwnersDiffer ==
    ASSUME OwnNode, NEW p \in Object, NEW q \in Object, nodeOf[p] # Null, nodeOf[p] = nodeOf[q]
    PROVE  p = q
BY DEF OwnNode

\* ... and is a candidate under that node only.
LEMMA OwnCandidate ==
    ASSUME IInv, NEW o \in Object, nodeOf[o] # Null,
           NEW l \in Levels, NEW c \in zero_shares[l], shared_ptr[c] = o
    PROVE  c = nodeOf[o]
BY NullAssumption DEF IInv, IObject, CandidateNodes, LostByMain, Result

\* An object that a slot holds has a share.
LEMMA HeldIsShared ==
    ASSUME IInv, NEW s \in Slot, value[s].type = "object", nodeOf[value[s].ref] # Null
    PROVE  /\ value[s].ref \in Object
           /\ nodeOf[value[s].ref] \in nodes
           /\ n_shares[nodeOf[value[s].ref]] >= 1
<1> DEFINE o == value[s].ref
<1>1. o \in Object /\ nodeOf[o] \in nodes /\ nodes \subseteq Node
  BY DEF IInv, IObject, References, OwnNode, IManager, ManagerInv, ManagerTypeOK
<1>2. s \in Holders(o)
  BY DEF Holders
<1>3. Cardinality(Holders(o)) \in Nat /\ Cardinality(Holders(o)) # 0
  BY <1>1, <1>2, HoldersFinite, FS_EmptySet, FS_CardinalityType
<1>4. Cardinality(Holders(o)) <= n_shares[nodeOf[o]]
  BY <1>1 DEF IInv, IObject, Counts
<1>5. n_shares[nodeOf[o]] \in Nat
  BY <1>1, BoundAssumption DEF IInv, IManager, ManagerInv, ManagerTypeOK
<1> QED  BY <1>1, <1>3, <1>4, <1>5

\* What an instruction can load has a node, is no operand of a caller, and is
\* a candidate of the running level if it has no share.
LEMMA LoadedObject ==
    ASSUME Disciplined, IInv, Running, NEW o \in Loadable
    PROVE  /\ o \in Object
           /\ nodeOf[o] # Null
           /\ nodeOf[o] \in nodes /\ nodeOf[o] \in Node
           /\ \A l \in Levels : o \in temps[l] => l = idxCurrentStack
           /\ \A l \in Levels : nodeOf[o] \in zero_shares[l] => l = idxCurrentStack
<1> USE DEF IInv, IObject, IManager, ManagerInv
<1> ret = Null
  BY DEF Result, Running
<1> idxCurrentStack \in Levels /\ temps[idxCurrentStack] \subseteq Object
  BY DEF ManagerTypeOK, ObjectTypeOK
<1>1. CASE o \in temps[idxCurrentStack]
  <2>1. o \in Object /\ nodeOf[o] # Null /\ nodeOf[o] \in nodes /\ nodeOf[o] \in Node
    BY <1>1 DEF Operands, OwnNode, ManagerTypeOK
  <2>2. CASE n_shares[nodeOf[o]] = 0 /\ nodeOf[o] \in zero_shares[idxCurrentStack]
    BY <2>1, <2>2 DEF Operands, ListsMatchCounts
  <2>3. CASE n_shares[nodeOf[o]] > 0
    BY <2>1, <2>3, BoundAssumption DEF Operands, ListsMatchCounts, ManagerTypeOK
  <2> QED  BY <1>1, <2>1, <2>2, <2>3 DEF Operands
<1>2. CASE o \notin temps[idxCurrentStack]
  <2>1. PICK s \in LiveSlots : value[s].type = "object" /\ value[s].ref = o
    BY <1>2 DEF Loadable, Disciplined
  <2>2. s \in Slot
    BY DEF LiveSlots, Slot
  <2>3. nodeOf[o] # Null
    BY <2>1, <2>2, NullAssumption DEF References
  <2>4. o \in Object /\ nodeOf[o] \in nodes /\ n_shares[nodeOf[o]] >= 1
    BY <2>1, <2>2, <2>3, HeldIsShared
  <2>5. nodeOf[o] \in Node /\ n_shares[nodeOf[o]] \in Nat
    BY <2>4, BoundAssumption DEF ManagerTypeOK
  <2> QED  BY <2>3, <2>4, <2>5 DEF Operands, ListsMatchCounts
<1> QED  BY <1>1, <1>2

\* ... and is in a list, of candidates if it has no share.
LEMMA LoadedIsListed ==
    ASSUME Disciplined, IInv, Running, NEW o \in Loadable
    PROVE  n_shares[nodeOf[o]] > 0 \/ nodeOf[o] \in zero_shares[currentStack[nodeOf[o]]]
<1> USE DEF IInv, IObject, IManager, ManagerInv
<1> idxCurrentStack \in Levels /\ temps[idxCurrentStack] \subseteq Object
  BY DEF ManagerTypeOK, ObjectTypeOK
<1>1. CASE o \in temps[idxCurrentStack]
  BY <1>1 DEF Operands, ListsMatchCounts
<1>2. CASE o \notin temps[idxCurrentStack]
  <2>1. PICK s \in LiveSlots : value[s].type = "object" /\ value[s].ref = o
    BY <1>2 DEF Loadable, Disciplined
  <2>2. s \in Slot /\ nodeOf[o] # Null /\ nodeOf[o] \in Node
    BY <2>1, LoadedObject DEF LiveSlots, Slot
  <2>3. n_shares[nodeOf[o]] >= 1 /\ n_shares[nodeOf[o]] \in Nat
    BY <2>1, <2>2, HeldIsShared, BoundAssumption DEF ManagerTypeOK
  <2> QED  BY <2>3
<1> QED  BY <1>1, <1>2

\* When the list of the level is empty, no sweep is under way.
LEMMA SweptOut == IInv /\ Swept => ~sweeping /\ ~finish
BY DEF IInv, IManager, SweptNodeIsCandidate, Swept

-----------------------------------------------------------------------------
(* What the instructions have in common.                                    *)

\* A slot stops holding its object, and the object's node, if it has one,
\* loses a share: STORE of a primitive, POP_SCOPE and the destructors.
LEMMA ReleasePreserves ==
    ASSUME IInv, NEW s \in Slot, NEW v \in Value, v.type # "object",
           value' = [value EXCEPT ![s] = v],
           \/ value[s].type = "object" /\ nodeOf[value[s].ref] # Null
              /\ unrefSharedScriptVar(nodeOf[value[s].ref])
           \/ UNCHANGED nodeVars,
           UNCHANGED <<idxCurrentStack, state, kind, nodeOf, depth, temps, entry, mode, why,
                      ret>>
    PROVE  DeadSlots' /\ OwnNode' /\ CandidateNodes' /\ References' /\ Counts' /\ Operands'
           /\ Result'
<1> USE DEF IInv, IObject, IManager, ManagerInv
<1> DEFINE o == value[s].ref
           nd == nodeOf[value[s].ref]
<1> idxCurrentStack \in Levels /\ frame' = frame /\ LiveSlots' = LiveSlots
  BY DEF ManagerTypeOK, frame, LiveSlots
<1> value \in [Slot -> Value] /\ nodeOf \in [Object -> Node \cup {Null}]
  BY DEF ObjectTypeOK
<1> nodes' = nodes /\ shared_ptr' = shared_ptr
  BY DEF unrefSharedScriptVar, nodeVars
<1> \A t \in Slot : value'[t].type = "object" => t # s /\ value'[t] = value[t]
  OBVIOUS
<1>1. DeadSlots'
  BY DEF DeadSlots
<1>2. OwnNode'
  BY DEF OwnNode
<1>3. References'
  BY DEF References
<1>4. Result'
  BY DEF Result, Control
<1>5. CASE UNCHANGED nodeVars
  <2>1. CandidateNodes'
    BY <1>5 DEF CandidateNodes, DistinctCandidates, LostByMain, nodeVars
  <2>2. Operands'
    BY <1>5 DEF Operands, nodeVars
  <2>3. Counts'
    <3> SUFFICES ASSUME NEW p \in Object, nodeOf[p] # Null
                 PROVE  Cardinality(Holders(p)') <= n_shares[nodeOf[p]]
      BY <1>5 DEF Counts, nodeVars
    <3>1. Holders(p)' \subseteq Holders(p)
      BY DEF Holders
    <3>2. Cardinality(Holders(p)) <= n_shares[nodeOf[p]] /\ n_shares[nodeOf[p]] \in Nat
      BY BoundAssumption DEF Counts, OwnNode, ManagerTypeOK
    <3> QED  BY <3>1, <3>2, NoMore, HoldersFinite
  <2> QED  BY <1>1, <1>2, <1>3, <1>4, <2>1, <2>2, <2>3
<1>6. CASE value[s].type = "object" /\ nodeOf[o] # Null /\ unrefSharedScriptVar(nd)
  <2>1. o \in Object /\ nd \in nodes /\ nd \in Node /\ n_shares[nd] >= 1 /\ n_shares[nd] \in Nat
    BY <1>6, HeldIsShared, BoundAssumption DEF ManagerTypeOK
  <2>2. /\ n_shares'[nd] = n_shares[nd] - 1
        /\ \A q \in Node : q # nd => n_shares'[q] = n_shares[q]
    <3>1. n_shares' = [n_shares EXCEPT ![nd] = IF @ > 0 THEN @ - 1 ELSE 0]
      BY <1>6, <2>1 DEF unrefSharedScriptVar
    <3>2. DOMAIN n_shares = Node
      BY DEF ManagerTypeOK
    <3> HIDE DEF nd
    <3> QED  BY <2>1, <3>1, <3>2
  <2>3. /\ \A l \in Levels : zero_shares[l] \subseteq zero_shares'[l]
        /\ \A l \in Levels : zero_shares'[l] \ zero_shares[l] \subseteq {nd}
        /\ n_shares'[nd] = 0 => nd \in zero_shares'[idxCurrentStack]
    <3>1. zero_shares' = IF n_shares[nd] = 1
                         THEN [zero_shares EXCEPT ![idxCurrentStack] = @ \cup {nd}]
                         ELSE zero_shares
      BY <1>6 DEF unrefSharedScriptVar
    <3>2. zero_shares \in [Levels -> SUBSET Node]
      BY DEF ManagerTypeOK
    <3>3. CASE n_shares[nd] = 1
      BY <3>1, <3>2, <3>3
    <3>4. CASE n_shares[nd] # 1
      BY <2>1, <2>2, <3>1, <3>4
    <3> QED  BY <3>3, <3>4
  <2>4. CandidateNodes'
    <3>0. DistinctCandidates'
      <4>1. shared_ptr[nd] = o
        BY <1>6, <2>1 DEF OwnNode
      <4>2. \A l \in Levels : \A c \in zero_shares[l] : shared_ptr[c] = o => c = nd
        BY <1>6, <2>1, OwnCandidate
      <4> HIDE DEF nd, o
      <4> QED  BY <2>3, <4>1, <4>2 DEF CandidateNodes, DistinctCandidates
    <3> SUFFICES ASSUME NEW l \in Levels, NEW c \in zero_shares'[l]
                 PROVE  /\ shared_ptr[c] \in Object
                        /\ state[shared_ptr[c]] = "alive"
                        /\ \/ nodeOf[shared_ptr[c]] = c
                           \/ shared_ptr[c] = ret /\ l = idxCurrentStack /\ mode # "result"
                           \/ LostByMain(c) /\ l = idxCurrentStack
      BY <3>0 DEF CandidateNodes, LostByMain
    <3>1. CASE c \in zero_shares[l]
      BY <3>1 DEF CandidateNodes
    <3>2. CASE c = nd
      BY <3>2, <2>1, <1>6 DEF OwnNode
    <3> QED  BY <3>1, <3>2, <2>3
  <2>5. Operands'
    <3> SUFFICES ASSUME NEW l \in Levels, NEW p \in temps[l]
                 PROVE  /\ 1 <= l /\ l <= idxCurrentStack
                        /\ nodeOf[p] # Null
                        /\ \/ n_shares'[nodeOf[p]] = 0 /\ nodeOf[p] \in zero_shares'[l]
                           \/ n_shares'[nodeOf[p]] > 0 /\ l = idxCurrentStack /\ mode = "run"
                        /\ mode \in {"run", "result"} \/ l # idxCurrentStack
      BY DEF Operands
    <3>1. p \in Object /\ nodeOf[p] \in Node /\ nodeOf[p] # Null
      BY DEF Operands, ObjectTypeOK
    <3>2. CASE nodeOf[p] # nd
      BY <2>2, <2>3, <3>1, <3>2 DEF Operands
    <3>3. CASE nodeOf[p] = nd
      BY <2>1, <2>2, <2>3, <3>1, <3>3 DEF Operands
    <3> QED  BY <3>2, <3>3
  <2>6. Counts'
    <3> SUFFICES ASSUME NEW p \in Object, nodeOf[p] # Null
                 PROVE  Cardinality(Holders(p)') <= n_shares'[nodeOf[p]]
      BY DEF Counts
    <3>1. /\ Cardinality(Holders(p)) <= n_shares[nodeOf[p]]
          /\ n_shares[nodeOf[p]] \in Nat /\ nodeOf[p] \in Node
      BY BoundAssumption DEF Counts, OwnNode, ManagerTypeOK
    <3>2. CASE p # o
      <4>1. Holders(p)' \subseteq Holders(p)
        BY DEF Holders
      <4>2. nodeOf[p] # nd
        BY <1>6, <2>1, <3>2, OwnersDiffer
      <4> QED  BY <2>2, <3>1, <4>1, <4>2, NoMore, HoldersFinite
    <3>3. CASE p = o
      <4>1. Holders(p)' \subseteq Holders(p) \ {s} /\ s \in Holders(p)
        BY <1>6, <3>3 DEF Holders
      <4> QED  BY <2>2, <3>1, <3>3, <4>1, OneLess, HoldersFinite
    <3> QED  BY <3>2, <3>3
  <2> QED  BY <1>1, <1>2, <1>3, <1>4, <2>4, <2>5, <2>6
<1> QED  BY <1>5, <1>6

\* Steps that only move between modes, scopes and levels keep what is known
\* about nodes, counts and candidates.
LEMMA SameHeap ==
    ASSUME IInv, UNCHANGED <<nodeVars, state, nodeOf, value>>,
           ret = Null \/ (UNCHANGED <<idxCurrentStack, entry, ret>> /\ mode' # "result"),
           mode = "sweep" /\ why = "main" /\ zero_shares[idxCurrentStack] # {} =>
               mode' = mode /\ UNCHANGED <<why, idxCurrentStack>>
    PROVE  OwnNode' /\ CandidateNodes' /\ References' /\ Counts'
<1> USE DEF IInv, IObject, nodeVars
<1>1. OwnNode'
  BY DEF OwnNode
<1>2. CandidateNodes'
  BY NullAssumption DEF CandidateNodes, DistinctCandidates, LostByMain
<1>3. References'
  <2>1. CASE ret = Null
    BY <2>1, NullAssumption DEF References
  <2>2. CASE ret # Null
    <3>1. frame' = frame
      BY <2>2 DEF frame
    <3> QED  BY <2>2, <3>1 DEF References
  <2> QED  BY <2>1, <2>2
<1>4. Counts'
  <2>1. \A o \in Object : Holders(o)' = Holders(o)
    BY DEF Holders
  <2> QED  BY <2>1 DEF Counts
<1> QED  BY <1>1, <1>2, <1>3, <1>4

\* The popped frame does not change while its scope does not.
LEMMA SamePoppedFrame ==
    ASSUME UNCHANGED <<idxCurrentStack, entry, depth, why>>
    PROVE  /\ frame' = frame /\ OpenFrames' = OpenFrames
           /\ TopFrame' = TopFrame /\ PoppedFrame' = PoppedFrame
<1>1. frame' = frame /\ OpenFrames' = OpenFrames
  BY DEF frame, OpenFrames
<1>2. TopFrame' = TopFrame
  BY <1>1 DEF TopFrame
<1> QED  BY <1>1, <1>2 DEF PoppedFrame

\* Every step of the machine is a step of the pointer manager, or none: the
\* machine is a client that keeps to the order New, Share and the others ask.
LEMMA MachineUsesManager ==
    ASSUME Disciplined, IInv, [Next]_vars
    PROVE  [ManagerNext]_managerVars
<1> USE DEF IInv, IObject, managerVars, ManagerNext, sweepVars, Running
<1> ManagerTypeOK
  BY DEF IManager, ManagerInv
<1> sweeping => mode = "sweep"
  BY DEF Control
<1> \A nd \in Node : nd \in nodes /\ (n_shares[nd] > 0 \/ nd \in zero_shares[currentStack[nd]])
       /\ ~sweeping /\ sharePointer(nd) /\ UNCHANGED <<idxCurrentStack, sweepVars>>
       => ManagerNext
  BY DEF Share
<1> \A nd \in Node : nd \in nodes /\ (sweeping => current # Null)
       /\ unrefSharedScriptVar(nd) /\ UNCHANGED <<idxCurrentStack, sweepVars>>
       => ManagerNext
  BY DEF Unref
<1>1. CASE NewObject
  BY <1>1 DEF NewObject, New
<1>2. CASE StoreObject
  <2> PICK dst \in Targets, o \in Loadable : StoreObject!(dst, o)
    BY <1>2 DEF StoreObject
  <2>1. o \in Object /\ nodeOf[o] \in nodes /\ nodeOf[o] \in Node
    BY LoadedObject
  <2>2. n_shares[nodeOf[o]] > 0 \/ nodeOf[o] \in zero_shares[currentStack[nodeOf[o]]]
    BY <2>1, LoadedIsListed
  <2> QED  BY <2>1, <2>2
<1>3. CASE StorePrimitive
  <2> PICK dst \in Targets,
           src \in {Literal} \cup {value[s] : s \in {t \in LiveSlots : value[t].type = "primitive"}} :
           StorePrimitive!(dst)!(src)
    BY <1>3 DEF StorePrimitive
  <2>1. dst \in Slot
    BY DEF Targets, LiveSlots, Slot
  <2> QED  BY <2>1, HeldIsShared DEF HoldsObject, nodeVars, ManagerTypeOK
<1>4. CASE Call
  BY <1>4 DEF Call, EnterLevel
<1>5. CASE EndStatement \/ PushScope \/ PopScope \/ Return \/ MainExit \/ clearGlobals
  BY <1>5 DEF EndStatement, PushScope, PopScope, Return, MainExit, clearGlobals, managerVars
<1>6. CASE ReturnObject \/ MainReturnsObject
  BY <1>6 DEF ReturnObject, MainReturnsObject
<1>7. CASE stackDumped
  BY <1>7 DEF stackDumped, LeaveLevel, Control, nodeVars, ManagerTypeOK, Levels
<1>8. CASE Execute
  BY <1>8, BoundAssumption DEF Execute, EnterLevel, Control
<1>9. CASE TakeResult
  BY <1>9 DEF TakeResult, New, Control, ObjectTypeOK
<1>10. CASE UnrefElement
  BY <1>10 DEF UnrefElement, Control
<1>11. CASE PopLocal
  <2> PICK v \in popping : PopLocal!(v)
    BY <1>11 DEF PopLocal
  <2>1. <<PoppedFrame, v>> \in Slot
    BY PoppedFrameIsOpen DEF Slot, FrameSlot, ObjectTypeOK
  <2> QED  BY <2>1, HeldIsShared DEF HoldsObject, unrefSharedPtr, nodeVars, ManagerTypeOK
<1>12. CASE BeginSweep \/ EndBlock \/ EndScope
  BY <1>12 DEF BeginSweep, EndBlock, EndScope
<1>13. CASE SweepVisit
  BY <1>13 DEF SweepVisit, Sweep
<1>14. CASE ReleaseMember
  <2> PICK m \in pending : ReleaseMember!(m)
    BY <1>14 DEF ReleaseMember
  <2>1. <<shared_ptr[current], m>> \in Slot
    BY DEF IManager, SweptNodeIsCandidate, CandidateNodes, Slot, MemberSlot, ObjectTypeOK,
           ManagerTypeOK
  <2> QED  BY <2>1, HeldIsShared DEF HoldsObject, unrefSharedPtr, nodeVars, ManagerTypeOK
<1>15. CASE SweepFree
  BY <1>15 DEF SweepFree, Sweep
<1>16. CASE LeaveFunction
  BY <1>16, SweptOut, RunningFrame DEF LeaveFunction, LeaveLevel, Control, Swept, Levels, nodeVars
<1>17. CASE LeaveMachine
  BY <1>17, SweptOut, BoundAssumption DEF LeaveMachine, LeaveLevel, ManagerTypeOK, Levels, nodeVars
<1>18. CASE UNCHANGED vars
  BY <1>18 DEF vars
<1> QED
  BY <1>1, <1>2, <1>3, <1>4, <1>5, <1>6, <1>7, <1>8, <1>9, <1>10, <1>11, <1>12, <1>13,
     <1>14, <1>15, <1>16, <1>17, <1>18 DEF Next, Script, Machine

-----------------------------------------------------------------------------
(* The instructions of a running script.                                    *)

\* A new object is a candidate of the running level, and nothing holds it.
LEMMA NewObjectPreserves ==
    ASSUME Disciplined, IInv, NewObject
    PROVE  IObject'
<1> PICK o \in Object, nd \in Node, k \in Kinds : NewObject!(o, nd, k)
  BY DEF NewObject
<1> USE DEF IInv, IObject, IManager, ManagerInv, Running, controlVars
<1> ManagerTypeOK /\ ObjectTypeOK /\ ListsMatchCounts /\ idxCurrentStack \in Levels
  BY DEF ManagerTypeOK
<1> k = "class" /\ ret = Null /\ frame' = frame
  BY DEF Disciplined, Result, frame
<1>n. /\ nodeOf' = [nodeOf EXCEPT ![o] = nd] /\ nodeOf \in [Object -> Node \cup {Null}]
      /\ n_shares' = [n_shares EXCEPT ![nd] = 0]
      /\ shared_ptr' = [shared_ptr EXCEPT ![nd] = o]
      /\ zero_shares' = [zero_shares EXCEPT ![idxCurrentStack] = @ \cup {nd}]
      /\ nd \notin nodes /\ nodes' = nodes \cup {nd}
      /\ n_shares \in [Node -> 0..MaxShares] /\ shared_ptr \in [Node -> Object \cup {Null}]
      /\ zero_shares \in [Levels -> SUBSET Node]
  BY DEF newSharedPointer, ManagerTypeOK, ObjectTypeOK
<1>k. /\ \A p \in Object : nodeOf[p] # Null => p # o /\ nodeOf[p] # nd /\ nodeOf[p] \in Node
      /\ \A l \in Levels : nd \notin zero_shares[l]
      /\ \A l \in Levels : \A c \in zero_shares[l] : shared_ptr[c] # o
  BY <1>n DEF OwnNode, ListsMatchCounts, CandidateNodes
<1>l. \A c \in Node : ~LostByMain(c)
  BY DEF LostByMain
<1>1. ObjectTypeOK'
  BY KindAssumption DEF ObjectTypeOK
<1>2. DeadSlots'
  BY DEF ObjectTypeOK, DeadSlots, LiveSlots, Slot, FrameSlot, MemberSlot
<1>3. OwnNode'
  BY <1>n, <1>k DEF ObjectTypeOK, OwnNode
<1>4. CandidateNodes'
  <2>1. DistinctCandidates'
    BY <1>n, <1>k DEF CandidateNodes, DistinctCandidates
  <2> QED  BY <1>n, <1>k, <1>l, <2>1 DEF ObjectTypeOK, CandidateNodes
<1>5. References'
  BY <1>n, NullAssumption DEF ObjectTypeOK, References
<1>6. Counts'
  <2>1. \A p \in Object : Holders(p)' = Holders(p)
    BY DEF Holders
  <2>2. Holders(o) = {}
    BY DEF Holders, References
  <2>3. Cardinality(Holders(o)) = 0
    BY <2>2, FS_EmptySet
  <2> QED  BY <1>n, <1>k, <2>1, <2>3 DEF Counts
<1>7. PoppedVars'
  BY DEF PoppedVars
<1>8. Operands'
  BY <1>n, <1>k, BoundAssumption, NullAssumption DEF Operands, ObjectTypeOK, Control, Levels
<1>9. Result'
  BY DEF Result
<1>10. Control'
  BY DEF Control, FunctionRuns, sweepVars, ObjectTypeOK
<1> QED  BY <1>1, <1>2, <1>3, <1>4, <1>5, <1>6, <1>7, <1>8, <1>9, <1>10

\* A store adds one holder and one share.
LEMMA StoreObjectPreserves ==
    ASSUME Disciplined, IInv, StoreObject
    PROVE  IObject'
<1> PICK dst \in Targets, o \in Loadable : StoreObject!(dst, o)
  BY DEF StoreObject
<1> USE DEF IInv, IObject, IManager, ManagerInv, Running, controlVars
<1> DEFINE nd == nodeOf[o]
<1> ManagerTypeOK /\ ObjectTypeOK /\ ListsMatchCounts /\ idxCurrentStack \in Levels
  BY DEF ManagerTypeOK
<1> /\ o \in Object /\ nd # Null /\ nd \in nodes /\ nd \in Node
    /\ \A l \in Levels : o \in temps[l] => l = idxCurrentStack
  BY LoadedObject
<1> dst \in LiveSlots /\ dst \in Slot
  BY DEF Targets, LiveSlots, Slot
<1> frame' = frame /\ ret = Null
  BY DEF frame, Result
<1>n. /\ n_shares \in [Node -> Nat] /\ n_shares'[nd] = n_shares[nd] + 1
      /\ \A c \in Node : c # nd => n_shares'[c] = n_shares[c]
      /\ shared_ptr' = shared_ptr /\ nodes' = nodes
  BY BoundAssumption DEF sharePointer, ManagerTypeOK
<1>z. /\ \A l \in Levels : zero_shares'[l] \subseteq zero_shares[l]
      /\ \A l \in Levels : zero_shares[l] \ zero_shares'[l] \subseteq {nd}
  <2>1. zero_shares' = IF n_shares[nd] = 0
                       THEN [zero_shares EXCEPT ![currentStack[nd]] = @ \ {nd}]
                       ELSE zero_shares
    BY DEF sharePointer
  <2>2. zero_shares \in [Levels -> SUBSET Node] /\ currentStack[nd] \in Levels
    BY DEF ManagerTypeOK
  <2>3. CASE n_shares[nd] = 0
    BY <2>1, <2>2, <2>3
  <2>4. CASE n_shares[nd] # 0
    BY <2>1, <2>4
  <2> QED  BY <2>3, <2>4
<1>v. /\ \A s \in Slot : s # dst => value'[s] = value[s]
      /\ value'[dst] = [type |-> "object", ref |-> o]
  BY DEF ObjectTypeOK
<1>1. ObjectTypeOK'
  BY DEF ObjectTypeOK, Value
<1>2. DeadSlots'
  BY <1>v DEF DeadSlots, LiveSlots
<1>3. OwnNode'
  BY <1>n DEF OwnNode
<1>4. CandidateNodes'
  BY <1>n, <1>z DEF CandidateNodes, DistinctCandidates, LostByMain
<1>5. References'
  BY <1>v DEF References, OwnNode
<1>6. Counts'
  <2> SUFFICES ASSUME NEW p \in Object, nodeOf[p] # Null
               PROVE  Cardinality(Holders(p)') <= n_shares'[nodeOf[p]]
    BY DEF Counts
  <2>1. /\ Cardinality(Holders(p)) <= n_shares[nodeOf[p]]
        /\ n_shares[nodeOf[p]] \in Nat /\ nodeOf[p] \in Node
    BY <1>n DEF Counts, OwnNode, ManagerTypeOK
  <2>2. CASE p # o
    <3>1. Holders(p)' \subseteq Holders(p)
      BY <1>v, <2>2 DEF Holders
    <3>2. nodeOf[p] # nd
      BY <2>2, OwnersDiffer
    <3> QED  BY <1>n, <2>1, <3>1, <3>2, NoMore, HoldersFinite
  <2>3. CASE p = o
    <3>1. Holders(p)' \subseteq Holders(p) \cup {dst}
      BY <1>v DEF Holders
    <3>2. /\ Cardinality(Holders(p)') \in Nat /\ Cardinality(Holders(p)) \in Nat
          /\ Cardinality(Holders(p)') <= Cardinality(Holders(p)) + 1
      BY <3>1, OneMore, HoldersFinite
    <3> QED  BY <1>n, <2>1, <2>3, <3>2
  <2> QED  BY <2>2, <2>3
<1>7. PoppedVars'
  BY DEF PoppedVars
<1>8. Operands'
  <2> SUFFICES ASSUME NEW l \in Levels, NEW p \in temps'[l]
               PROVE  /\ 1 <= l /\ l <= idxCurrentStack
                      /\ nodeOf[p] # Null
                      /\ \/ n_shares'[nodeOf[p]] = 0 /\ nodeOf[p] \in zero_shares'[l]
                         \/ n_shares'[nodeOf[p]] > 0 /\ l = idxCurrentStack
    BY DEF Operands
  <2>1. CASE p = o
    <3>1. l = idxCurrentStack
      BY <2>1 DEF ObjectTypeOK
    <3> QED  BY <2>1, <3>1, <1>n DEF Control, Levels
  <2>2. CASE p # o
    <3>1. p \in temps[l] /\ p \in Object
      BY <2>2 DEF ObjectTypeOK
    <3>2. nodeOf[p] # Null /\ nodeOf[p] # nd /\ nodeOf[p] \in Node
      BY <2>2, <3>1, OwnersDiffer DEF Operands, ObjectTypeOK
    <3> QED  BY <1>n, <1>z, <3>1, <3>2 DEF Operands
  <2> QED  BY <2>1, <2>2
<1>9. Result'
  BY DEF Result
<1>10. Control'
  BY DEF Control, FunctionRuns, sweepVars
<1> QED  BY <1>1, <1>2, <1>3, <1>4, <1>5, <1>6, <1>7, <1>8, <1>9, <1>10

\* The store of a primitive releases the object of the slot, or forgets it.
LEMMA StorePrimitivePreserves ==
    ASSUME Disciplined, IInv, StorePrimitive
    PROVE  IObject'
<1> PICK dst \in Targets,
         src \in {Literal} \cup {value[s] : s \in {t \in LiveSlots : value[t].type = "primitive"}} :
         StorePrimitive!(dst)!(src)
  BY DEF StorePrimitive
<1> USE DEF IInv, IObject, Running, controlVars
<1> DEFINE v == [value[dst] EXCEPT !.type = "primitive"]
<1> ObjectTypeOK /\ dst \in Slot
  BY DEF Targets, LiveSlots, Slot
<1>1. v \in Value /\ v.type # "object" /\ value' = [value EXCEPT ![dst] = v]
  BY DEF ObjectTypeOK, Value
<1>2. DeadSlots' /\ OwnNode' /\ CandidateNodes' /\ References' /\ Counts' /\ Operands' /\ Result'
  <2> HIDE DEF v
  <2> QED  BY <1>1, ReleasePreserves DEF HoldsObject
<1>3. ObjectTypeOK'
  BY <1>1 DEF ObjectTypeOK
<1>4. PoppedVars'
  BY DEF PoppedVars
<1>5. Control'
  BY DEF Control, FunctionRuns, sweepVars, frame
<1> QED  BY <1>2, <1>3, <1>4, <1>5

\* The end of a statement, and the steps into and out of blocks.
LEMMA StatementsPreserve ==
    ASSUME Disciplined, IInv, EndStatement \/ PushScope \/ PopScope
    PROVE  IObject'
<1> USE DEF IInv, IObject, IManager, ManagerInv, Running, controlVars, objectVars, managerVars
<1> ManagerTypeOK /\ ObjectTypeOK /\ idxCurrentStack \in Levels /\ mode = "run"
  BY DEF ManagerTypeOK, EndStatement, PushScope, PopScope
<1> ret = Null
  BY DEF Result
<1> /\ UNCHANGED <<nodeVars, sweepVars, idxCurrentStack, state, kind, nodeOf, value, entry, ret>>
    /\ mode' # "result" /\ frame' = frame /\ cascade' = cascade /\ pending' = pending
  BY DEF EndStatement, PushScope, PopScope, frame, nodeVars, sweepVars
<1>f. /\ frame \in Frames /\ frame <= idxCurrentStack /\ depth[frame] \in 0..2
      /\ frame = 0 => entry = "main"
      /\ frame # 0 => FunctionRuns(frame)
  BY RunningFrame DEF Control, ObjectTypeOK
<1>1. OwnNode' /\ CandidateNodes' /\ References' /\ Counts'
  BY SameHeap
<1>2. Result'
  BY DEF Result
<1>3. CASE EndStatement
  <2>1. ObjectTypeOK' /\ DeadSlots' /\ PoppedVars'
    BY <1>3 DEF EndStatement, ObjectTypeOK, DeadSlots, LiveSlots, PoppedVars, Dropped, Disciplined
  <2>2. Operands'
    BY <1>3 DEF EndStatement, ObjectTypeOK, Operands, nodeVars
  <2>3. Control'
    BY <1>3 DEF EndStatement, Control, FunctionRuns, sweepVars, Dropped, Disciplined
  <2> QED  BY <1>1, <1>2, <2>1, <2>2, <2>3
<1>4. CASE PushScope
  <2>1. depth[frame] + 1 \in 0..2 /\ depth' = [depth EXCEPT ![frame] = depth[frame] + 1]
    BY <1>4, <1>f, BlockAssumption DEF PushScope, BodyDepth
  <2>2. ObjectTypeOK'
    BY <1>4, <2>1 DEF PushScope, ObjectTypeOK
  <2>3. \A f \in Frames : depth'[f] >= depth[f] /\ (f # frame => depth'[f] = depth[f])
    BY <2>1, <1>f DEF ObjectTypeOK, Frames
  <2>4. LiveSlots \subseteq LiveSlots'
    <3> SUFFICES ASSUME NEW s \in FrameSlot, depth[s[1]] >= ScopeOf(s[1], s[2])
                 PROVE  depth'[s[1]] >= ScopeOf(s[1], s[2])
      BY DEF LiveSlots, ScopeOf, BodyDepth
    <3>1. s[1] \in Frames /\ ScopeOf(s[1], s[2]) \in Nat
      BY DEF FrameSlot, ScopeOf, BodyDepth
    <3>2. depth[s[1]] \in Nat /\ depth'[s[1]] \in Nat
      BY <3>1, <2>2 DEF ObjectTypeOK
    <3> QED  BY <2>3, <3>1, <3>2
  <2>5. DeadSlots' /\ PoppedVars'
    BY <1>4, <2>4 DEF PushScope, DeadSlots, PoppedVars
  <2>6. Operands'
    BY <1>4 DEF PushScope, Operands, nodeVars
  <2>7. Control'
    BY <1>4, <1>f, <2>2, <2>3 DEF PushScope, Control, FunctionRuns, sweepVars, ObjectTypeOK, Frames
  <2> QED  BY <1>1, <1>2, <2>2, <2>5, <2>6, <2>7
<1>5. CASE PopScope
  <2>1. ObjectTypeOK' /\ DeadSlots'
    BY <1>5 DEF PopScope, ObjectTypeOK, DeadSlots, LiveSlots, ScopeVars
  <2>2. PoppedVars'
    <3>1. PoppedFrame' = frame
      BY <1>5 DEF PopScope, PoppedFrame
    <3> QED  BY <1>5, <3>1 DEF PopScope, PoppedVars
  <2>3. Operands'
    BY <1>5 DEF PopScope, Operands, nodeVars
  <2>4. Control'
    BY <1>5 DEF PopScope, Control, FunctionRuns, sweepVars
  <2> QED  BY <1>1, <1>2, <2>1, <2>2, <2>3, <2>4
<1> QED  BY <1>3, <1>4, <1>5

\* A call opens a frame whose variables are undefined.
LEMMA CallPreserves ==
    ASSUME Disciplined, IInv, Call
    PROVE  IObject'
<1> USE DEF IInv, IObject, IManager, ManagerInv, Running, controlVars, Call
<1> DEFINE n == idxCurrentStack + 1
<1> ManagerTypeOK /\ ObjectTypeOK /\ idxCurrentStack \in Levels
  BY DEF ManagerTypeOK
<1> ret = Null /\ ret' = Null
  BY DEF Result
<1>n. n \in Levels /\ n \in Frames /\ n >= 2 /\ frame' = n /\ depth' = [depth EXCEPT ![n] = 1]
  BY BoundAssumption DEF Control, Levels, Frames, frame
<1>v. /\ \A s \in Slot : value'[s].type = "object" => value'[s] = value[s]
      /\ \A s \in {n} \X Var : value'[s].type # "object"
      /\ \A s \in Slot \ ({n} \X Var) : value'[s] = value[s]
  <2>1. {n} \X Var \subseteq Slot
    BY <1>n DEF Slot, FrameSlot
  <2> QED  BY <2>1 DEF Undefined, ObjectTypeOK
<1>1. ObjectTypeOK'
  BY <1>n DEF ObjectTypeOK, Value, Undefined
<1>2. DeadSlots'
  <2> SUFFICES ASSUME NEW s \in Slot \ LiveSlots', s \notin {n} \X Var PROVE s \notin LiveSlots
    BY <1>v DEF DeadSlots
  <2> HIDE DEF n
  <2> QED  BY <1>n DEF LiveSlots, Slot, FrameSlot, MemberSlot, ObjectTypeOK
<1>3. OwnNode' /\ CandidateNodes'
  BY NullAssumption DEF OwnNode, CandidateNodes, DistinctCandidates, LostByMain, nodeVars
<1>4. References'
  BY <1>v, NullAssumption DEF References
<1>5. Counts'
  <2> SUFFICES ASSUME NEW p \in Object, nodeOf[p] # Null
               PROVE  Cardinality(Holders(p)') <= n_shares[nodeOf[p]]
    BY DEF Counts, nodeVars
  <2>1. Holders(p)' \subseteq Holders(p)
    BY <1>v DEF Holders
  <2>2. Cardinality(Holders(p)) <= n_shares[nodeOf[p]] /\ n_shares[nodeOf[p]] \in Nat
    BY BoundAssumption DEF Counts, OwnNode, ManagerTypeOK
  <2> QED  BY <2>1, <2>2, NoMore, HoldersFinite
<1>6. PoppedVars' /\ Result'
  BY DEF PoppedVars, Result
<1>7. Operands'
  BY DEF Operands, nodeVars, Disciplined, Levels
<1>8. Control'
  BY <1>n DEF Control, FunctionRuns, sweepVars, ObjectTypeOK, Frames, Levels
<1> QED  BY <1>1, <1>2, <1>3, <1>4, <1>5, <1>6, <1>7, <1>8

\* A return, with or without an object, begins with the scopes of the frame.
LEMMA ReturnPreserves ==
    ASSUME Disciplined, IInv, Return
    PROVE  IObject'
<1> USE DEF IInv, IObject, IManager, ManagerInv, Running, controlVars, Return, managerVars
<1> ManagerTypeOK /\ ObjectTypeOK /\ idxCurrentStack \in Levels
  BY DEF ManagerTypeOK
<1> ret = Null /\ frame' = frame
  BY DEF Result, frame
<1>f. /\ frame \in Frames /\ frame = idxCurrentStack /\ idxCurrentStack >= 1
      /\ FunctionRuns(frame) /\ depth[frame] >= 1
  BY RunningFrame DEF Control
<1>1. OwnNode' /\ CandidateNodes' /\ References' /\ Counts'
  BY SameHeap DEF nodeVars
<1>2. ObjectTypeOK' /\ DeadSlots' /\ Result'
  BY DEF ObjectTypeOK, DeadSlots, LiveSlots, ScopeVars, Result, Dropped, Disciplined
<1>3. PoppedVars'
  <2>1. PoppedFrame' = frame
    BY DEF PoppedFrame
  <2> QED  BY <2>1 DEF PoppedVars
<1>4. Operands'
  BY DEF Operands, nodeVars, ObjectTypeOK
<1>5. Control'
  BY <1>f DEF Control, FunctionRuns, sweepVars, Dropped, Disciplined
<1> QED  BY <1>1, <1>2, <1>3, <1>4, <1>5

\* A returned object loses its node, so that no scope of the frame releases it.
LEMMA ReturnObjectPreserves ==
    ASSUME Disciplined, IInv, ReturnObject
    PROVE  IObject'
<1> PICK o \in Loadable : ReturnObject!(o)
  BY DEF ReturnObject
<1> USE DEF IInv, IObject, IManager, ManagerInv, Running, controlVars, managerVars
<1> ManagerTypeOK /\ ObjectTypeOK /\ idxCurrentStack \in Levels
  BY DEF ManagerTypeOK
<1> ret = Null /\ frame' = frame
  BY DEF Result, frame
<1>o. /\ o \in Object /\ nodeOf[o] # Null /\ nodeOf[o] \in Node
      /\ \A l \in Levels : o \in temps[l] => l = idxCurrentStack
      /\ \A l \in Levels : nodeOf[o] \in zero_shares[l] => l = idxCurrentStack
  BY LoadedObject
<1>n. nodeOf'[o] = Null /\ \A p \in Object : p # o => nodeOf'[p] = nodeOf[p]
  BY <1>o DEF ObjectTypeOK
<1>f. /\ frame \in Frames /\ frame = idxCurrentStack /\ idxCurrentStack >= 1
      /\ FunctionRuns(frame) /\ depth[frame] >= 1
  BY RunningFrame DEF Control
<1>1. ObjectTypeOK' /\ DeadSlots'
  BY <1>o DEF ObjectTypeOK, DeadSlots, LiveSlots, ScopeVars, Dropped, Disciplined
<1>2. OwnNode'
  BY <1>n DEF OwnNode
<1>3. CandidateNodes'
  BY <1>o, <1>n, NullAssumption DEF CandidateNodes, DistinctCandidates, LostByMain
<1>4. References'
  <2>1. \A s \in Slot : value[s].type = "object" /\ value[s].ref = o => s \in {frame} \X Var
    BY <1>o, RefsAreHolders DEF Holders, Disciplined
  <2> QED  BY <1>n, <2>1, NullAssumption DEF References
<1>5. Counts'
  <2>1. \A p \in Object : Holders(p)' = Holders(p)
    BY DEF Holders
  <2> QED  BY <1>n, <2>1 DEF Counts
<1>6. PoppedVars'
  <2>1. PoppedFrame' = frame
    BY DEF PoppedFrame
  <2> QED  BY <2>1 DEF PoppedVars
<1>7. Operands'
  BY <1>o, <1>n DEF Operands, ObjectTypeOK
<1>8. Result'
  BY <1>o, <1>n DEF Result, OwnNode
<1>9. Control'
  BY <1>f DEF Control, FunctionRuns, sweepVars, Dropped, Disciplined
<1> QED  BY <1>1, <1>2, <1>3, <1>4, <1>5, <1>6, <1>7, <1>8, <1>9

\* The object that main returns loses its node as well; nothing holds it.
LEMMA MainReturnsObjectPreserves ==
    ASSUME Disciplined, IInv, MainReturnsObject
    PROVE  IObject'
<1> PICK o \in Loadable : MainReturnsObject!(o)
  BY DEF MainReturnsObject
<1> USE DEF IInv, IObject, IManager, ManagerInv, Running, controlVars, managerVars
<1> ManagerTypeOK /\ ObjectTypeOK /\ idxCurrentStack \in Levels
  BY DEF ManagerTypeOK
<1> ret = Null /\ frame' = frame /\ depth' = depth
  BY DEF Result, frame
<1>o. /\ o \in Object /\ nodeOf[o] # Null /\ nodeOf[o] \in Node
      /\ \A l \in Levels : o \in temps[l] => l = idxCurrentStack
      /\ \A l \in Levels : nodeOf[o] \in zero_shares[l] => l = idxCurrentStack
  BY LoadedObject
<1>n. nodeOf'[o] = Null /\ \A p \in Object : p # o => nodeOf'[p] = nodeOf[p]
  BY <1>o DEF ObjectTypeOK
<1>f. frame = 0 /\ idxCurrentStack = 1 /\ entry = "main"
  BY RunningFrame DEF Control, frame
<1>1. ObjectTypeOK' /\ DeadSlots'
  BY <1>o DEF ObjectTypeOK, DeadSlots, LiveSlots, Dropped, Disciplined
<1>2. OwnNode'
  BY <1>n DEF OwnNode
<1>3. CandidateNodes'
  BY <1>o, <1>n, NullAssumption DEF CandidateNodes, DistinctCandidates, LostByMain
<1>4. References'
  <2>1. \A s \in Slot : value[s].type = "object" => value[s].ref # o
    BY <1>o, RefsAreHolders DEF Holders, Disciplined
  <2> QED  BY <1>n, <2>1, NullAssumption DEF References
<1>5. Counts'
  <2>1. \A p \in Object : Holders(p)' = Holders(p)
    BY DEF Holders
  <2> QED  BY <1>n, <2>1 DEF Counts
<1>6. PoppedVars' /\ Result'
  BY DEF PoppedVars, Result
<1>7. Operands'
  BY <1>o, <1>n DEF Operands, ObjectTypeOK
<1>8. Control'
  BY <1>f DEF Control, FunctionRuns, sweepVars, Dropped, Disciplined
<1> QED  BY <1>1, <1>2, <1>3, <1>4, <1>5, <1>6, <1>7, <1>8

\* The caller gives the result a node of its own level.
LEMMA TakeResultPreserves ==
    ASSUME Disciplined, IInv, TakeResult
    PROVE  IObject'
<1> PICK nd \in Node : TakeResult!(nd)
  BY DEF TakeResult
<1> USE DEF IInv, IObject, IManager, ManagerInv
<1> ManagerTypeOK /\ ObjectTypeOK /\ idxCurrentStack \in Levels /\ frame' = frame
  BY DEF ManagerTypeOK, frame
<1>r. ret \in Object /\ state[ret] = "alive" /\ nodeOf[ret] = Null
  BY DEF Result, Control, ObjectTypeOK
<1>n. /\ nodeOf' = [nodeOf EXCEPT ![ret] = nd] /\ nodeOf \in [Object -> Node \cup {Null}]
      /\ n_shares' = [n_shares EXCEPT ![nd] = 0]
      /\ shared_ptr' = [shared_ptr EXCEPT ![nd] = ret]
      /\ zero_shares' = [zero_shares EXCEPT ![idxCurrentStack] = @ \cup {nd}]
      /\ nd \notin nodes /\ nodes' = nodes \cup {nd}
      /\ n_shares \in [Node -> 0..MaxShares] /\ shared_ptr \in [Node -> Object \cup {Null}]
      /\ zero_shares \in [Levels -> SUBSET Node]
  BY DEF newSharedPointer, ManagerTypeOK, ObjectTypeOK
<1>k. /\ \A p \in Object : nodeOf[p] # Null => p # ret /\ nodeOf[p] # nd /\ nodeOf[p] \in Node
      /\ \A l \in Levels : nd \notin zero_shares[l]
      /\ \A l \in Levels : \A c \in zero_shares[l] : nodeOf[shared_ptr[c]] = c /\ shared_ptr[c] # ret
  BY <1>n, <1>r, NullAssumption DEF OwnNode, ListsMatchCounts, CandidateNodes, LostByMain
<1>1. ObjectTypeOK' /\ DeadSlots'
  BY <1>r DEF ObjectTypeOK, DeadSlots, LiveSlots
<1>2. OwnNode'
  BY <1>n, <1>k, <1>r DEF OwnNode
<1>3. CandidateNodes'
  <2>1. DistinctCandidates'
    BY <1>n, <1>k DEF CandidateNodes, DistinctCandidates
  <2> QED  BY <1>n, <1>k, <1>r, <2>1 DEF CandidateNodes
<1>4. References'
  BY <1>n, NullAssumption DEF References
<1>5. Counts'
  <2>1. \A p \in Object : Holders(p)' = Holders(p)
    BY DEF Holders
  <2>2. Holders(ret) = {}
    BY <1>r DEF Holders, References
  <2>3. Cardinality(Holders(ret)) = 0
    BY <2>2, FS_EmptySet
  <2> QED  BY <1>n, <1>k, <2>1, <2>3 DEF Counts
<1>6. PoppedVars' /\ Result'
  BY DEF PoppedVars, Result
<1>7. Operands'
  <2> SUFFICES ASSUME NEW l \in Levels, NEW p \in temps'[l]
               PROVE  /\ 1 <= l /\ l <= idxCurrentStack
                      /\ nodeOf'[p] # Null
                      /\ \/ n_shares'[nodeOf'[p]] = 0 /\ nodeOf'[p] \in zero_shares'[l]
                         \/ n_shares'[nodeOf'[p]] > 0 /\ l = idxCurrentStack
    BY DEF Operands
  <2>1. CASE p \in temps[l]
    BY <2>1, <1>n, <1>k DEF Operands, ObjectTypeOK
  <2>2. CASE p \notin temps[l]
    <3>1. p = ret /\ l = idxCurrentStack
      BY <2>2 DEF ObjectTypeOK
    <3> QED  BY <3>1, <1>n, <1>r, NullAssumption DEF Control, Levels
  <2> QED  BY <2>1, <2>2
<1>8. Control'
  BY DEF Control, FunctionRuns, sweepVars
<1> QED  BY <1>1, <1>2, <1>3, <1>4, <1>5, <1>6, <1>7, <1>8

\* No operand is in a variable of the function that C++ calls.
LEMMA ExecuteStoresNothing ==
    ASSUME IInv, Execute
    PROVE  value' = value
<1> USE DEF IInv, IObject
<1>1. cells = {} /\ value \in [Slot -> Value]
  BY DEF Control, ObjectTypeOK
<1>2. ASSUME NEW left \in [Var -> cells \cup {Null}],
             value' = [s \in Slot |->
                          IF s \in {1} \X Var /\ left[s[2]] # Null
                          THEN [type |-> "object", ref |-> left[s[2]]] ELSE value[s]]
      PROVE  value' = value
  <2>1. \A s \in {1} \X Var : left[s[2]] = Null
    BY <1>1
  <2>2. value' = [s \in Slot |-> value[s]]
    BY <1>2, <2>1
  <2> QED  BY <1>1, <2>2
<1> QED  BY <1>2 DEF Execute

\* The end of main, errors, and what C++ does to an idle machine.
LEMMA HostPreserves ==
    ASSUME Disciplined, IInv, MainExit \/ stackDumped \/ Execute \/ clearGlobals
    PROVE  IObject'
<1> USE DEF IInv, IObject, IManager, ManagerInv, Running, managerVars, objectVars, nodeVars
<1> ManagerTypeOK /\ ObjectTypeOK /\ idxCurrentStack \in Levels
  BY DEF ManagerTypeOK
<1> mode \in {"idle", "run"} /\ ret = Null
  BY DEF Result, MainExit, stackDumped, Execute, clearGlobals
<1> /\ UNCHANGED <<nodeVars, state, kind, nodeOf, value, ret, cascade, pending, sweepVars>>
    /\ mode' # "result"
  <2>1. CASE ~Execute
    BY <2>1 DEF MainExit, stackDumped, clearGlobals, sweepVars
  <2>2. CASE Execute
    <3>1. value' = value
      BY <2>2, ExecuteStoresNothing
    <3> QED  BY <2>2, <3>1 DEF Execute, sweepVars
  <2> QED  BY <2>1, <2>2
<1>c. cells' = {}
  BY DEF MainExit, stackDumped, Execute, clearGlobals, Dropped, Disciplined, Control
<1>1. OwnNode' /\ CandidateNodes' /\ References' /\ Counts'
  BY SameHeap
<1>d. /\ ~Execute => depth' = depth
      /\ \A f \in Frames : depth'[f] \in 0..2 /\ depth'[f] >= depth[f]
  <2>1. CASE ~Execute
    BY <2>1 DEF MainExit, stackDumped, clearGlobals, ObjectTypeOK
  <2>2. CASE Execute
    <3>1. depth' = depth \/ depth' = [depth EXCEPT ![1] = 1]
      BY <2>2 DEF Execute
    <3>2. depth[1] = 0
      BY <2>2, BoundAssumption DEF Execute, Control, FunctionRuns, Frames
    <3> QED  BY <2>2, <3>1, <3>2 DEF ObjectTypeOK
  <2> QED  BY <2>1, <2>2
<1>2. Result' /\ DeadSlots'
  <2>1. LiveSlots \subseteq LiveSlots'
    BY <1>d DEF LiveSlots, FrameSlot, ScopeOf, BodyDepth, ObjectTypeOK
  <2> QED  BY <2>1 DEF Result, DeadSlots
<1>3. CASE MainExit
  <2> depth' = depth
    BY <1>3 DEF MainExit
  <2>0. frame' = frame /\ idxCurrentStack = 1 /\ entry = "main"
    BY <1>3, RunningFrame DEF MainExit, frame, Control
  <2>1. ObjectTypeOK' /\ PoppedVars'
    BY <1>3 DEF MainExit, ObjectTypeOK, PoppedVars
  <2>2. Operands'
    BY <1>3 DEF MainExit, Operands
  <2>3. Control'
    BY <1>3, <2>0 DEF MainExit, Control, FunctionRuns, sweepVars
  <2> QED  BY <1>1, <1>2, <2>1, <2>2, <2>3
<1>4. CASE stackDumped /\ OpenFrames = {}
  <2> depth' = depth
    BY <1>4 DEF stackDumped
  <2>1. ObjectTypeOK' /\ PoppedVars' /\ Operands'
    BY <1>4, <1>c DEF stackDumped, ObjectTypeOK, PoppedVars, Operands
  <2>2. \A f \in Frames : depth[f] = 0
    BY <1>4 DEF OpenFrames, ObjectTypeOK
  <2>3. Control'
    BY <1>4, <1>c, <2>2, BoundAssumption DEF stackDumped, Control, FunctionRuns, sweepVars, Frames
  <2> QED  BY <1>1, <1>2, <2>1, <2>3
<1>5. CASE stackDumped /\ OpenFrames # {}
  <2> depth' = depth
    BY <1>5 DEF stackDumped
  <2>0. OpenFrames' = OpenFrames /\ TopFrame' = TopFrame
    BY DEF OpenFrames, TopFrame
  <2>1. ObjectTypeOK' /\ Operands'
    BY <1>5, <1>c DEF stackDumped, ObjectTypeOK, Operands, ScopeVars
  <2>2. PoppedVars'
    BY <1>5, <2>0 DEF stackDumped, PoppedVars, PoppedFrame
  <2>3. Control'
    BY <1>5, <1>c, <2>0 DEF stackDumped, Control, FunctionRuns, sweepVars
  <2> QED  BY <1>1, <1>2, <2>1, <2>2, <2>3
<1>6. CASE Execute
  <2>1. ObjectTypeOK' /\ PoppedVars'
    <3>1. depth' \in [Frames -> 0..2]
      BY <1>6, <1>d DEF Execute, ObjectTypeOK
    <3> QED  BY <1>6, <3>1 DEF Execute, ObjectTypeOK, PoppedVars
  <2>2. Operands'
    BY <1>6 DEF Execute, Operands, Control, Levels
  <2>3. Control'
    <3>1. \/ "noMain" \notin Features /\ entry' = "main" /\ depth' = depth
          \/ "callFromC" \in Features /\ entry' = "C" /\ depth' = [depth EXCEPT ![1] = 1]
      BY <1>6 DEF Execute
    <3>2. /\ mode = "idle" /\ mode' = "run" /\ idxCurrentStack = 0 /\ idxCurrentStack' = 1
          /\ popping' = popping /\ why' = why
      BY <1>6 DEF Execute, Control
    <3>3. \A f \in Frames : depth[f] = 0 /\ (f # 1 => depth'[f] = 0)
      <4>1. \A f \in Frames \ {0} : ~FunctionRuns(f)
        BY <3>2 DEF FunctionRuns, Frames
      <4>2. \A f \in Frames : depth[f] = 0
        BY <3>2, <4>1 DEF Control
      <4> QED  BY <3>1, <4>2 DEF ObjectTypeOK
    <3>4. \A f \in Frames \ {0} : FunctionRuns(f)' <=> f = 1 /\ entry' = "C"
      BY <3>1, <3>2 DEF FunctionRuns, Frames
    <3>5. (entry' = "C" => depth'[1] = 1) /\ (entry' = "main" => depth' = depth)
      BY <3>1, BoundAssumption DEF ObjectTypeOK, Frames
    <3>6. 0 \in Frames /\ 1 \in Frames /\ \A f \in Frames : FunctionRuns(f)' => f # 0
      BY BoundAssumption DEF Frames, FunctionRuns
    <3> QED  BY <1>c, <3>1, <3>2, <3>3, <3>4, <3>5, <3>6 DEF Control, sweepVars
  <2> QED  BY <1>1, <1>2, <2>1, <2>2, <2>3
<1>7. CASE clearGlobals
  <2>1. ObjectTypeOK' /\ PoppedVars'
    BY <1>7 DEF clearGlobals, ObjectTypeOK, PoppedVars
  <2>2. Operands'
    BY <1>7 DEF clearGlobals, Operands, Control, Levels
  <2>3. Control'
    BY <1>7 DEF clearGlobals, Control, FunctionRuns, sweepVars
  <2> QED  BY <1>1, <1>2, <2>1, <2>2, <2>3
<1> QED  BY <1>3, <1>4, <1>5, <1>6, <1>7

-----------------------------------------------------------------------------
(* What the machine does by itself.                                         *)

\* A variable of the popped scope releases its object.
LEMMA PopLocalPreserves ==
    ASSUME Disciplined, IInv, PopLocal
    PROVE  IObject'
<1> PICK v \in popping : PopLocal!(v)
  BY DEF PopLocal
<1> DEFINE s == <<PoppedFrame, v>>
<1> USE DEF IInv, IObject
<1> ObjectTypeOK /\ PoppedFrame \in Frames /\ v \in Var /\ s \in Slot
  BY PoppedFrameIsOpen DEF ObjectTypeOK, Slot, FrameSlot
<1> /\ frame' = frame /\ OpenFrames' = OpenFrames
    /\ TopFrame' = TopFrame /\ PoppedFrame' = PoppedFrame
  BY SamePoppedFrame
<1>1. /\ \/ value[s].type = "object" /\ nodeOf[value[s].ref] # Null
            /\ unrefSharedScriptVar(nodeOf[value[s].ref])
         \/ UNCHANGED nodeVars
      /\ cascade' = <<>>
  BY DEF HoldsObject, unrefSharedPtr, Control, References
<1>2. DeadSlots' /\ OwnNode' /\ CandidateNodes' /\ References' /\ Counts' /\ Operands' /\ Result'
  <2>1. Undefined \in Value /\ Undefined.type # "object"
    BY DEF Undefined, Value
  <2> QED  BY <1>1, <2>1, ReleasePreserves
<1>3. ObjectTypeOK'
  BY <1>1 DEF ObjectTypeOK, Undefined, Value
<1>4. PoppedVars'
  BY DEF PoppedVars, ObjectTypeOK, Undefined, ScopeVars, Slot, FrameSlot
<1>5. Control'
  BY <1>1 DEF Control, FunctionRuns, sweepVars
<1> QED  BY <1>2, <1>3, <1>4, <1>5

\* The destructor of a candidate releases a member.
LEMMA ReleaseMemberPreserves ==
    ASSUME Disciplined, IInv, ReleaseMember
    PROVE  IObject'
<1> PICK m \in pending : ReleaseMember!(m)
  BY DEF ReleaseMember
<1> DEFINE s == <<shared_ptr[current], m>>
<1> USE DEF IInv, IObject
<1>0. shared_ptr[current] \in Object
  BY DEF IManager, ManagerInv, ManagerTypeOK, SweptNodeIsCandidate, CandidateNodes
<1> ObjectTypeOK /\ m \in Member /\ s \in Slot
  BY <1>0 DEF ObjectTypeOK, Slot, MemberSlot
<1> /\ frame' = frame /\ OpenFrames' = OpenFrames
    /\ TopFrame' = TopFrame /\ PoppedFrame' = PoppedFrame
  BY SamePoppedFrame
<1>1. /\ \/ value[s].type = "object" /\ nodeOf[value[s].ref] # Null
            /\ unrefSharedScriptVar(nodeOf[value[s].ref])
         \/ UNCHANGED nodeVars
      /\ cascade' = <<>>
  BY DEF HoldsObject, unrefSharedPtr, Control, References
<1>2. DeadSlots' /\ OwnNode' /\ CandidateNodes' /\ References' /\ Counts' /\ Operands' /\ Result'
  <2>1. Undefined \in Value /\ Undefined.type # "object"
    BY DEF Undefined, Value
  <2> QED  BY <1>1, <2>1, ReleasePreserves
<1>3. ObjectTypeOK'
  BY <1>1 DEF ObjectTypeOK, Undefined, Value
<1>4. PoppedVars'
  BY PoppedFrameIsOpen DEF PoppedVars, ObjectTypeOK, Undefined, ScopeVars, Slot, FrameSlot
<1>5. Control'
  BY <1>1 DEF Control, FunctionRuns, sweepVars
<1> QED  BY <1>2, <1>3, <1>4, <1>5

\* Going from the variables to the candidates, and to the next of these.
LEMMA VisitsPreserve ==
    ASSUME Disciplined, IInv, BeginSweep \/ SweepVisit
    PROVE  IObject'
<1> USE DEF IInv, IObject, managerVars, objectVars, nodeVars, sweepVars, BeginSweep, SweepVisit,
            RemoveVisit
<1> /\ UNCHANGED <<nodeVars, idxCurrentStack, objectVars, why, cascade, ret, popping>>
    /\ mode \in {"pop", "sweep"} /\ mode' = "sweep" /\ popping = {}
  BY DEF Control
<1> /\ frame' = frame /\ OpenFrames' = OpenFrames
    /\ TopFrame' = TopFrame /\ PoppedFrame' = PoppedFrame
  BY SamePoppedFrame
<1>1. OwnNode' /\ CandidateNodes' /\ References' /\ Counts'
  BY SameHeap
<1>2. ObjectTypeOK'
  BY DEF ObjectTypeOK
<1>3. DeadSlots' /\ PoppedVars' /\ Result'
  BY DEF DeadSlots, LiveSlots, PoppedVars, Result
<1>4. Operands'
  BY DEF Operands
<1>5. Control'
  BY DEF Control, FunctionRuns
<1> QED  BY <1>1, <1>2, <1>3, <1>4, <1>5

\* A deleted candidate has no share, so that nothing holds its object.
LEMMA SweepFreePreserves ==
    ASSUME Disciplined, IInv, SweepFree
    PROVE  IObject'
<1> USE DEF IInv, IObject, IManager, ManagerInv, controlVars, SweepFree
<1> DEFINE o == shared_ptr[current]
<1> ManagerTypeOK /\ ObjectTypeOK /\ idxCurrentStack \in Levels
  BY DEF ManagerTypeOK
<1> idxCurrentStack' = idxCurrentStack
  BY DEF RemoveFree
<1> /\ frame' = frame /\ OpenFrames' = OpenFrames
    /\ TopFrame' = TopFrame /\ PoppedFrame' = PoppedFrame
  BY SamePoppedFrame
<1>c. /\ current \in zero_shares[idxCurrentStack] /\ current \in Node /\ current \in nodes
      /\ n_shares[current] = 0 /\ currentStack[current] = idxCurrentStack
      /\ o \in Object /\ state[o] = "alive"
      /\ o # ret => nodeOf[o] = current \/ nodeOf[o] = Null
      /\ o = ret => nodeOf[o] = Null
  BY NullAssumption DEF SweptNodeIsCandidate, ManagerTypeOK, ListsMatchCounts, CandidateNodes,
     RemoveFree, Result, LostByMain
<1>n. /\ nodes' = nodes \ {current}
      /\ \A c \in Node : c # current => n_shares'[c] = n_shares[c] /\ shared_ptr'[c] = shared_ptr[c]
      /\ \A l \in Levels : zero_shares'[l] \subseteq zero_shares[l] \ {current}
      /\ \A l \in Levels : l # idxCurrentStack => zero_shares'[l] = zero_shares[l]
  BY <1>c DEF RemoveFree, ManagerTypeOK, ListsMatchCounts
<1>k. \A p \in Object : nodeOf[p] # Null /\ p # o => nodeOf[p] # current /\ nodeOf[p] \in Node
  BY <1>c DEF OwnNode, ObjectTypeOK
<1>h. o # ret => \A s \in Slot : value[s].type = "object" => value[s].ref # o
  <2> SUFFICES ASSUME o # ret PROVE Holders(o) = {}
    BY DEF Holders
  <2>1. CASE nodeOf[o] = Null
    BY <2>1 DEF Holders, References
  <2>2. CASE nodeOf[o] # Null
    <3>1. Cardinality(Holders(o)) <= 0
      BY <1>c, <2>2 DEF Counts
    <3> QED  BY <1>c, <3>1, HoldersFinite, FS_EmptySet, FS_CardinalityType
  <2> QED  BY <2>1, <2>2
<1>s. /\ \A p \in Object : p # o \/ o = ret => state'[p] = state[p] /\ nodeOf'[p] = nodeOf[p]
      /\ o # ret => nodeOf'[o] = Null /\ state'[o] = "deleted"
      /\ \A s \in Slot : value'[s] = value[s] \/ value'[s] = Undefined
      /\ \A s \in Slot : s \notin {o} \X Member => value'[s] = value[s]
      /\ o # ret => \A s \in {o} \X Member : s \in Slot => value'[s] = Undefined
  BY <1>c DEF ObjectTypeOK
<1>u. Undefined.type # "object" /\ Undefined \in Value
  BY DEF Undefined, Value
<1>1. ObjectTypeOK'
  BY <1>c, <1>u DEF ObjectTypeOK
<1>2. DeadSlots'
  <2> SUFFICES ASSUME NEW s \in Slot \ LiveSlots', s \notin {o} \X Member \/ o = ret
               PROVE  s \notin LiveSlots
    BY <1>s, <1>u DEF DeadSlots
  <2> QED  BY <1>s DEF LiveSlots, Slot, FrameSlot, MemberSlot
<1>3. OwnNode'
  BY <1>c, <1>n, <1>k, <1>s DEF OwnNode
<1>4. CandidateNodes'
  <2>0. DistinctCandidates'
    BY <1>n DEF CandidateNodes, DistinctCandidates, ManagerTypeOK
  <2> SUFFICES ASSUME NEW l \in Levels, NEW c \in zero_shares'[l]
               PROVE  /\ shared_ptr'[c] \in Object
                      /\ state'[shared_ptr'[c]] = "alive"
                      /\ \/ nodeOf'[shared_ptr'[c]] = c
                         \/ shared_ptr'[c] = ret /\ l = idxCurrentStack
                         \/ LostByMain(c)' /\ l = idxCurrentStack
    BY <2>0 DEF CandidateNodes
  <2>1. c \in zero_shares[l] /\ c # current /\ c \in Node /\ shared_ptr'[c] = shared_ptr[c]
    BY <1>n DEF ManagerTypeOK
  <2>2. o = ret \/ shared_ptr[c] # o
    BY <1>c, <2>1 DEF CandidateNodes, DistinctCandidates
  <2> QED  BY <1>s, <2>1, <2>2 DEF CandidateNodes, LostByMain
<1>5. References'
  BY <1>h, <1>s, <1>u DEF References
<1>6. Counts'
  <2> SUFFICES ASSUME NEW p \in Object, nodeOf'[p] # Null
               PROVE  Cardinality(Holders(p)') <= n_shares'[nodeOf'[p]]
    BY DEF Counts
  <2>1. p # o /\ nodeOf'[p] = nodeOf[p] /\ n_shares'[nodeOf[p]] = n_shares[nodeOf[p]]
    BY <1>c, <1>n, <1>k, <1>s
  <2>2. Holders(p)' \subseteq Holders(p)
    BY <1>s, <1>u DEF Holders
  <2>3. Cardinality(Holders(p)) <= n_shares[nodeOf[p]] /\ n_shares[nodeOf[p]] \in Nat
    BY <2>1, BoundAssumption DEF Counts, OwnNode, ManagerTypeOK
  <2> QED  BY <2>1, <2>2, <2>3, NoMore, HoldersFinite
<1>7. PoppedVars'
  BY <1>s, <1>u, PoppedFrameIsOpen DEF PoppedVars, ScopeVars, Slot, FrameSlot
<1>8. Operands'
  <2> SUFFICES ASSUME NEW l \in Levels, NEW p \in temps[l]
               PROVE  /\ 1 <= l /\ l <= idxCurrentStack
                      /\ nodeOf'[p] # Null
                      /\ n_shares'[nodeOf'[p]] = 0 /\ nodeOf'[p] \in zero_shares'[l]
                      /\ l # idxCurrentStack
    BY DEF Operands
  <2>1. /\ 1 <= l /\ l <= idxCurrentStack /\ l # idxCurrentStack
        /\ nodeOf[p] # Null /\ n_shares[nodeOf[p]] = 0 /\ nodeOf[p] \in zero_shares[l]
    BY DEF Operands
  <2>2. p \in Object /\ nodeOf[p] \in Node /\ nodeOf[p] # current
    BY <1>c, <2>1 DEF ObjectTypeOK, ListsMatchCounts
  <2>3. p # o
    BY <1>c, <2>1, <2>2
  <2> QED  BY <1>n, <1>s, <2>1, <2>2, <2>3
<1>9. Result'
  BY <1>s, <1>c DEF Result, ObjectTypeOK
<1>10. Control'
  BY DEF Control, FunctionRuns, RemoveFree
<1> QED  BY <1>1, <1>2, <1>3, <1>4, <1>5, <1>6, <1>7, <1>8, <1>9, <1>10

-----------------------------------------------------------------------------
(* Leaving scopes, functions and the machine.                               *)

\* The block's scope is closed; its variables hold nothing any more.
LEMMA EndBlockPreserves ==
    ASSUME Disciplined, IInv, EndBlock
    PROVE  IObject'
<1> USE DEF IInv, IObject, IManager, ManagerInv, managerVars, EndBlock, Swept
<1> ManagerTypeOK /\ ObjectTypeOK /\ idxCurrentStack \in Levels /\ frame' = frame
  BY DEF ManagerTypeOK, frame
<1>f. /\ frame \in Frames /\ frame <= idxCurrentStack /\ idxCurrentStack >= 1
      /\ frame = 0 => entry = "main"
      /\ frame # 0 => FunctionRuns(frame)
      /\ depth[frame] = BodyDepth(frame) + 1 /\ depth[frame] \in 1..2
      /\ PoppedFrame = frame /\ popping = {} /\ ret = Null
  BY RunningFrame DEF Control, PoppedFrame, Result, ObjectTypeOK, BodyDepth
<1>d. /\ depth'[frame] = depth[frame] - 1
      /\ \A f \in Frames : f # frame => depth'[f] = depth[f]
  BY <1>f DEF ObjectTypeOK
<1>1. OwnNode' /\ CandidateNodes' /\ References' /\ Counts'
  BY <1>f, SameHeap DEF nodeVars
<1>2. ObjectTypeOK'
  BY <1>f DEF ObjectTypeOK
<1>3. DeadSlots'
  <2> SUFFICES ASSUME NEW s \in Slot \ LiveSlots', s \in LiveSlots
               PROVE  value[s].type # "object"
    BY DEF DeadSlots
  <2>1. s \in FrameSlot /\ s[1] = frame /\ ScopeOf(frame, s[2]) = depth[frame]
    BY <1>d, <1>f DEF LiveSlots, Slot, FrameSlot, MemberSlot, ScopeOf, BodyDepth
  <2> QED  BY <1>f, <2>1 DEF PoppedVars, ScopeVars, FrameSlot
<1>4. PoppedVars' /\ Result'
  BY <1>f DEF PoppedVars, Result
<1>5. Operands'
  BY DEF Operands, nodeVars
<1>6. Control'
  BY <1>f, <1>d, SweptOut DEF Control, FunctionRuns, sweepVars, BodyDepth, Frames
<1> QED  BY <1>1, <1>2, <1>3, <1>4, <1>5, <1>6

\* The next scope to pop is the one that is on top now.
LEMMA EndScopePreserves ==
    ASSUME Disciplined, IInv, EndScope
    PROVE  IObject'
<1> USE DEF IInv, IObject, IManager, ManagerInv, managerVars, EndScope, Swept
<1> DEFINE p == PoppedFrame
<1> ManagerTypeOK /\ ObjectTypeOK /\ idxCurrentStack \in Levels /\ frame' = frame
  BY DEF ManagerTypeOK, frame
<1>f. /\ p \in Frames /\ depth[p] \in 1..2 /\ popping = {} /\ why \in {"return", "error"}
      /\ why = "return" => p = frame /\ depth[p] > 1
      /\ why = "error" => p = TopFrame
  BY PoppedFrameIsOpen DEF Control, PoppedFrame, ObjectTypeOK
<1>d. /\ depth'[p] = depth[p] - 1
      /\ \A f \in Frames : f # p => depth'[f] = depth[f]
  BY <1>f DEF ObjectTypeOK
<1>1. OwnNode' /\ CandidateNodes' /\ References' /\ Counts'
  BY SameHeap DEF nodeVars
<1>2. ObjectTypeOK'
  BY <1>f DEF ObjectTypeOK, ScopeVars
<1>3. DeadSlots'
  <2> SUFFICES ASSUME NEW s \in Slot \ LiveSlots', s \in LiveSlots
               PROVE  value[s].type # "object"
    BY DEF DeadSlots
  <2>1. s \in FrameSlot /\ s[1] = p /\ ScopeOf(p, s[2]) = depth[p]
    <3> HIDE DEF p
    <3> QED  BY <1>d, <1>f DEF LiveSlots, Slot, FrameSlot, MemberSlot, ScopeOf, BodyDepth
  <2> QED  BY <1>f, <2>1 DEF PoppedVars, ScopeVars, FrameSlot
<1>4. Result'
  BY DEF Result
<1>5. Operands'
  BY DEF Operands, nodeVars
<1>6. CASE depth[p] > 1
  <2>1. OpenFrames' = OpenFrames
    <3> HIDE DEF p
    <3> QED  BY <1>6, <1>d, <1>f DEF OpenFrames, ObjectTypeOK
  <2>2. TopFrame' = TopFrame
    BY <2>1 DEF TopFrame
  <2>3. PoppedFrame' = p
    BY <2>2 DEF PoppedFrame
  <2>4. PoppedVars'
    BY <1>6, <1>d, <2>3 DEF PoppedVars
  <2>5. Control'
    <3>1. \A f \in Frames : (depth[f] >= 1 => depth'[f] >= 1) /\ (depth[f] = 0 => depth'[f] = 0)
      <4> HIDE DEF p
      <4> QED  BY <1>6, <1>d, <1>f DEF ObjectTypeOK
    <3>2. frame \in Frames /\ (why = "return" => depth[frame] > 1)
      BY <1>f, RunningFrame
    <3> QED  BY <2>1, <3>1, <3>2, <1>f, SweptOut DEF Control, FunctionRuns, sweepVars
  <2> QED  BY <1>1, <1>2, <1>3, <1>4, <1>5, <2>4, <2>5
<1>7. CASE ~(depth[p] > 1)
  <2>0. why = "error" /\ p = TopFrame /\ depth[p] = 1
    BY <1>7, <1>f
  <2>1. OpenFrames' = OpenFrames \ {p}
    <3> HIDE DEF p
    <3> QED  BY <2>0, <1>d, <1>f DEF OpenFrames, ObjectTypeOK
  <2>2. OpenFrames' # {}
    <3>1. Cardinality(OpenFrames) > 1
      BY <2>0
    <3>2. OpenFrames # {p}
      <4>1. Cardinality({p}) = 1
        BY FS_Singleton
      <4> QED  BY <3>1, <4>1
    <3>3. OpenFrames # {}
      BY <3>1, FS_EmptySet
    <3> QED  BY <2>1, <3>2, <3>3
  <2>3. TopFrame' = CHOOSE g \in OpenFrames \ {p} : \A h \in OpenFrames \ {p} : h <= g
    BY <2>1 DEF TopFrame
  <2>4. TopFrame' # p
    <3>1. \E f \in OpenFrames \ {p} : \A g \in OpenFrames \ {p} : g <= f
      BY <2>1, <2>2, Topmost DEF OpenFrames
    <3> QED  BY <2>3, <3>1
  <2>5. popping' = ScopeVars(TopFrame', depth[TopFrame'])
    BY <2>0, <2>3, <2>4
  <2>6. PoppedFrame' = TopFrame' /\ depth'[TopFrame'] = depth[TopFrame']
    <3>1. TopFrame' \in OpenFrames'
      <4>1. \E f \in OpenFrames \ {p} : \A g \in OpenFrames \ {p} : g <= f
        BY <2>1, <2>2, Topmost DEF OpenFrames
      <4> QED  BY <2>1, <2>3, <4>1
    <3> QED  BY <2>0, <2>1, <2>4, <3>1, <1>d DEF PoppedFrame, OpenFrames
  <2>7. PoppedVars'
    BY <2>5, <2>6 DEF PoppedVars
  <2>8. Control'
    <3>1. \A f \in Frames : depth[f] = 0 => depth'[f] = 0
      <4> HIDE DEF p
      <4> QED  BY <1>d, <1>f
    <3> QED  BY <2>0, <2>2, <3>1, SweptOut, BoundAssumption DEF Control, FunctionRuns, sweepVars, Frames
  <2> QED  BY <1>1, <1>2, <1>3, <1>4, <1>5, <2>7, <2>8
<1> QED  BY <1>6, <1>7

\* The frame is closed when none of its variables holds an object.
LEMMA LeaveFunctionPreserves ==
    ASSUME Disciplined, IInv, LeaveFunction
    PROVE  IObject'
<1> USE DEF IInv, IObject, IManager, ManagerInv, managerVars, LeaveFunction, Swept, nodeVars
<1> ManagerTypeOK /\ ObjectTypeOK /\ idxCurrentStack \in Levels
  BY DEF ManagerTypeOK
<1>f. /\ frame \in Frames /\ frame = idxCurrentStack /\ idxCurrentStack >= 1
      /\ depth[frame] = 1 /\ PoppedFrame = frame /\ popping = {}
      /\ FunctionRuns(frame) /\ entry \in {"main", "C"}
  BY RunningFrame DEF Control, PoppedFrame, ObjectTypeOK
<1>m. /\ \/ mode' = "idle" /\ idxCurrentStack = 1 /\ entry' = "none" /\ ret' = Null
            /\ why' = "none"
         \/ /\ mode' \in {"run", "result"} /\ idxCurrentStack >= 2 /\ entry' = entry
            /\ ret' = ret /\ (mode' = "run" => ret = Null) /\ (mode' = "result" => ret # Null)
      /\ idxCurrentStack' = idxCurrentStack - 1 /\ popping' = popping /\ cascade' = cascade
  BY <1>f DEF Levels
<1>d. /\ depth'[frame] = 0
      /\ \A f \in Frames : f # frame => depth'[f] = depth[f]
  BY <1>f DEF ObjectTypeOK
<1>v. \A v \in Var : value[<<frame, v>>].type # "object"
  <2> TAKE v \in Var
  <2>1. <<frame, v>> \in Slot
    BY <1>f DEF Slot, FrameSlot
  <2>2. CASE v \in BlockVar
    <3>1. ScopeOf(frame, v) = 2
      BY <1>f, <2>2 DEF ScopeOf, BodyDepth, Levels
    <3>2. <<frame, v>> \notin LiveSlots
      BY <1>f, <3>1, DistinctAssumption DEF LiveSlots, FrameSlot
    <3> QED  BY <2>1, <3>2 DEF DeadSlots
  <2>3. CASE v \notin BlockVar
    <3>1. ScopeOf(frame, v) = 1
      BY <1>f, <2>3 DEF ScopeOf, BodyDepth, Levels
    <3> QED  BY <1>f, <3>1 DEF PoppedVars, ScopeVars
  <2> QED  BY <2>2, <2>3
<1>1. OwnNode'
  BY DEF OwnNode
<1>2. CandidateNodes'
  BY <1>m DEF CandidateNodes, DistinctCandidates, LostByMain
<1>3. References'
  <2>1. \A s \in {frame} \X Var : value[s].type # "object"
    BY <1>v
  <2> QED  BY <1>m, <2>1 DEF References
<1>4. Counts'
  <2>1. \A o \in Object : Holders(o)' = Holders(o)
    BY DEF Holders
  <2> QED  BY <2>1 DEF Counts
<1>5. ObjectTypeOK'
  BY <1>f, <1>m, <1>d DEF ObjectTypeOK
<1>6. DeadSlots'
  <2> SUFFICES ASSUME NEW s \in Slot \ LiveSlots', s \in LiveSlots
               PROVE  value[s].type # "object"
    BY DEF DeadSlots
  <2>1. s \in FrameSlot /\ s[1] = frame
    BY <1>d DEF LiveSlots, Slot, FrameSlot, MemberSlot
  <2> QED  BY <1>v, <2>1 DEF FrameSlot
<1>7. PoppedVars' /\ Result'
  BY <1>m DEF PoppedVars, Result
<1>8. Operands'
  BY <1>f, <1>m DEF Operands, Levels
<1>9. Control'
  BY <1>f, <1>m, <1>d, SweptOut DEF Control, FunctionRuns, sweepVars, Frames, Levels
<1> QED  BY <1>1, <1>2, <1>3, <1>4, <1>5, <1>6, <1>7, <1>8, <1>9

\* The machine is left with nothing but globals, or with nothing at all.
LEMMA LeaveMachinePreserves ==
    ASSUME Disciplined, IInv, LeaveMachine
    PROVE  IObject'
<1> USE DEF IInv, IObject, IManager, ManagerInv, LeaveMachine, Swept, nodeVars
<1> ManagerTypeOK /\ ObjectTypeOK /\ idxCurrentStack \in Levels
  BY DEF ManagerTypeOK
<1>c. /\ ret = Null /\ popping = {} /\ why \in {"error", "main", "clear"}
      /\ \A l \in Levels : temps[l] = {}
  BY DEF Result, Control, Operands, Levels
<1>v. /\ \A s \in Slot : value'[s] = value[s] \/ value'[s] = Undefined
      /\ Undefined.type # "object" /\ Undefined \in Value
  BY DEF Undefined, Value
<1>1. ObjectTypeOK'
  BY <1>v DEF ObjectTypeOK
<1>2. OwnNode' /\ CandidateNodes'
  BY <1>c, NullAssumption DEF OwnNode, CandidateNodes, DistinctCandidates, LostByMain
<1>3. References'
  BY <1>c, <1>v, NullAssumption DEF References
<1>4. Counts'
  <2> SUFFICES ASSUME NEW p \in Object, nodeOf[p] # Null
               PROVE  Cardinality(Holders(p)') <= n_shares[nodeOf[p]]
    BY DEF Counts
  <2>1. Holders(p)' \subseteq Holders(p)
    BY <1>v DEF Holders
  <2>2. Cardinality(Holders(p)) <= n_shares[nodeOf[p]] /\ n_shares[nodeOf[p]] \in Nat
    BY BoundAssumption DEF Counts, OwnNode, ManagerTypeOK
  <2> QED  BY <2>1, <2>2, NoMore, HoldersFinite
<1>5. DeadSlots'
  <2>1. \A f \in Frames : depth'[f] = 0
    BY DEF ObjectTypeOK
  <2>2. CASE why \in {"main", "clear"}
    <3>1. \A f \in Frames : depth[f] = 0
      BY <2>2 DEF Control, FunctionRuns, Frames, ObjectTypeOK
    <3>2. LiveSlots' = LiveSlots
      BY <2>1, <3>1 DEF LiveSlots, FrameSlot
    <3> QED  BY <3>2, <1>v DEF DeadSlots
  <2>3. CASE why = "error"
    <3> DEFINE t == TopFrame
    <3>1. OpenFrames = {t} /\ depth[t] = 1 /\ t \in Frames
      <4>1. \E x : OpenFrames = {x}
        BY <2>3, OpenFramesFinite, FS_Singleton
      <4>2. t \in OpenFrames /\ t \in Frames
        BY <4>1, TopFrameIsOpen
      <4> QED  BY <2>3, <4>1, <4>2
    <3>2. PoppedFrame = t
      BY <2>3 DEF PoppedFrame
    <3>3. SUFFICES ASSUME NEW s \in Slot \ LiveSlots', s \in LiveSlots
                   PROVE  value[s].type # "object"
      BY <1>v DEF DeadSlots
    <3>4. s \in FrameSlot /\ s[1] = t /\ ScopeOf(t, s[2]) = 1
      <4> HIDE DEF t
      <4>1. s \in FrameSlot /\ depth[s[1]] >= ScopeOf(s[1], s[2]) /\ ScopeOf(s[1], s[2]) > 0
        <5>1. s \in FrameSlot /\ depth[s[1]] >= ScopeOf(s[1], s[2])
              /\ ~(depth'[s[1]] >= ScopeOf(s[1], s[2]))
          <6>1. s \in LiveSlots /\ s \notin LiveSlots' /\ state' = state
            BY <3>3
          <6> QED  BY <6>1 DEF LiveSlots
        <5>2. depth'[s[1]] = 0
          BY <2>1, <5>1 DEF FrameSlot
        <5> QED  BY <5>1, <5>2 DEF ScopeOf, BodyDepth
      <4>2. s[1] \in OpenFrames
        BY <4>1 DEF OpenFrames, FrameSlot, ScopeOf, BodyDepth, ObjectTypeOK
      <4> QED  BY <3>1, <4>1, <4>2 DEF ScopeOf, BodyDepth
    <3> QED  BY <2>3, <1>c, <3>1, <3>2, <3>4 DEF PoppedVars, ScopeVars, FrameSlot
  <2> QED  BY <1>c, <2>2, <2>3
<1>6. PoppedVars' /\ Result'
  BY <1>c DEF PoppedVars, Result
<1>7. Operands'
  BY <1>c DEF Operands
<1>8. Control'
  BY <1>c, SweptOut, BoundAssumption DEF Control, sweepVars, Frames
<1> QED  BY <1>1, <1>2, <1>3, <1>4, <1>5, <1>6, <1>7, <1>8

-----------------------------------------------------------------------------
(* The theorems.                                                            *)

\* Nothing exists before the first instruction.
LEMMA ObjectInitial == Init => IInv
<1> SUFFICES ASSUME Init PROVE IInv
  OBVIOUS
<1>1. IManager
  BY ManagerInitial DEF Init
<1>2. ObjectTypeOK
  BY BoundAssumption DEF Init, ObjectTypeOK, Value, Undefined
<1>3. DeadSlots /\ OwnNode /\ CandidateNodes /\ References /\ Counts
  BY DEF Init, ManagerInit, DeadSlots, OwnNode, CandidateNodes, DistinctCandidates, References,
         Counts, Undefined
<1>4. PoppedVars /\ Operands /\ Result
  BY DEF Init, PoppedVars, Operands, Result
<1>5. Control
  BY BoundAssumption DEF Init, ManagerInit, Control, Frames
<1> QED  BY <1>1, <1>2, <1>3, <1>4, <1>5 DEF IInv, IObject

\* Every step of a disciplined script, and of the machine under it, keeps the
\* invariant.
LEMMA ObjectInductive == Disciplined /\ IInv /\ [Next]_vars => IInv'
<1> SUFFICES ASSUME Disciplined, IInv, [Next]_vars PROVE IInv'
  OBVIOUS
<1>1. IManager'
  BY MachineUsesManager, ManagerInductive DEF IInv
<1>2. IObject'
  <2>1. CASE NewObject
    BY <2>1, NewObjectPreserves
  <2>2. CASE StoreObject
    BY <2>2, StoreObjectPreserves
  <2>3. CASE StorePrimitive
    BY <2>3, StorePrimitivePreserves
  <2>4. CASE EndStatement \/ PushScope \/ PopScope
    BY <2>4, StatementsPreserve
  <2>5. CASE Call
    BY <2>5, CallPreserves
  <2>6. CASE Return
    BY <2>6, ReturnPreserves
  <2>7. CASE ReturnObject
    BY <2>7, ReturnObjectPreserves
  <2>r. CASE MainReturnsObject
    BY <2>r, MainReturnsObjectPreserves
  <2>8. CASE MainExit \/ stackDumped \/ Execute \/ clearGlobals
    BY <2>8, HostPreserves
  <2>9. CASE TakeResult
    BY <2>9, TakeResultPreserves
  <2>10. CASE UnrefElement
    BY <2>10 DEF UnrefElement, IInv, IObject, Control
  <2>11. CASE PopLocal
    BY <2>11, PopLocalPreserves
  <2>12. CASE BeginSweep \/ SweepVisit
    BY <2>12, VisitsPreserve
  <2>13. CASE ReleaseMember
    BY <2>13, ReleaseMemberPreserves
  <2>14. CASE SweepFree
    BY <2>14, SweepFreePreserves
  <2>15. CASE EndBlock
    BY <2>15, EndBlockPreserves
  <2>16. CASE EndScope
    BY <2>16, EndScopePreserves
  <2>17. CASE LeaveFunction
    BY <2>17, LeaveFunctionPreserves
  <2>18. CASE LeaveMachine
    BY <2>18, LeaveMachinePreserves
  <2>19. CASE UNCHANGED vars
    <3> USE <2>19 DEF vars, managerVars, objectVars, controlVars, IInv, IObject
    <3>0. /\ UNCHANGED <<nodeVars, sweepVars>>
          /\ frame' = frame /\ OpenFrames' = OpenFrames
          /\ TopFrame' = TopFrame /\ PoppedFrame' = PoppedFrame
      BY SamePoppedFrame DEF nodeVars, sweepVars
    <3>1. OwnNode' /\ CandidateNodes' /\ References' /\ Counts'
      <4>1. \A p \in Object : Holders(p)' = Holders(p)
        BY DEF Holders
      <4> QED  BY <3>0, <4>1 DEF OwnNode, CandidateNodes, DistinctCandidates, LostByMain, References,
                Counts
    <3>2. ObjectTypeOK' /\ DeadSlots' /\ Operands' /\ Result'
      BY DEF ObjectTypeOK, DeadSlots, LiveSlots, Operands, Result
    <3>3. PoppedVars' /\ Control'
      BY <3>0 DEF PoppedVars, Control, FunctionRuns
    <3> QED  BY <3>1, <3>2, <3>3
  <2> QED
    BY <2>1, <2>2, <2>3, <2>4, <2>5, <2>6, <2>7, <2>r, <2>8, <2>9, <2>10, <2>11, <2>12, <2>13,
       <2>14, <2>15, <2>16, <2>17, <2>18, <2>19 DEF Next, Script, Machine
<1> QED  BY <1>1, <1>2 DEF IInv

\* Disciplined scripts keep to the invariant in all their behaviours.
LEMMA ObjectInvariant == ASSUME Disciplined PROVE Spec => []IInv
<1>1. IInv /\ [Next]_vars => IInv'
  BY ObjectInductive
<1> QED  BY <1>1, ObjectInitial, PTL DEF Spec

\* The machine running disciplined scripts is a client of the pointer manager
\* that keeps to its order of calls: ObjectLifetime implements ShareManager.
THEOREM MachineImplementsManager == ASSUME Disciplined PROVE Spec => ManagerSpec
<1>1. Init => ManagerInit
  BY DEF Init
<1>2. IInv /\ [Next]_vars => [ManagerNext]_managerVars
  BY MachineUsesManager
<1> QED  BY <1>1, <1>2, ObjectInvariant, PTL DEF Spec, ManagerSpec

\* Type correctness of the machine.
THEOREM TypeCorrect == ASSUME Disciplined PROVE Spec => []TypeOK
<1>1. IInv => TypeOK
  BY DEF IInv, IObject, IManager, ManagerInv, TypeOK
<1> QED  BY <1>1, ObjectInvariant, PTL

\* The lists of the manager match its counts also in the machine.
THEOREM MachineListsMatchCounts == ASSUME Disciplined PROVE Spec => []ListsMatchCounts
<1>1. IInv => ListsMatchCounts
  BY DEF IInv, IManager, ManagerInv
<1> QED  BY <1>1, ObjectInvariant, PTL

\* No variable in scope and no member of an existing object ever refers to a
\* deleted object: every LOAD of the machine reads an object that exists.  It
\* does not hold where C++ calls functions that differ in their arguments or
\* variables ("leftovers", which Disciplined excludes).
THEOREM NeverDangling == ASSUME Disciplined PROVE Spec => []NoDanglingReference
<1>1. IInv => NoDanglingReference
  BY NullAssumption DEF IInv, IObject, References, NoDanglingReference, LiveSlots, Slot
<1> QED  BY <1>1, ObjectInvariant, PTL

\* The count of an object with a node covers its references, however the
\* script shares, replaces and returns objects.  What an operand has left in a
\* variable's cell would be one that no count covers; Disciplined excludes it.
THEOREM CountsAlwaysCover == ASSUME Disciplined PROVE Spec => []CountCoversReferences
<1>1. IInv => CountCoversReferences
  <2> SUFFICES ASSUME IInv, NEW o \in Object, nodeOf[o] # Null
               PROVE  n_shares[nodeOf[o]] >= Cardinality(Refs(o))
    BY DEF CountCoversReferences
  <2>1. Refs(o) = Holders(o)
    BY RefsAreHolders DEF IInv, IObject
  <2>2. Cardinality(Holders(o)) <= n_shares[nodeOf[o]] /\ Cardinality(Holders(o)) \in Nat
    BY HoldersFinite, FS_CardinalityType DEF IInv, IObject, Counts
  <2>3. n_shares[nodeOf[o]] \in Nat
    BY BoundAssumption DEF IInv, IObject, OwnNode, IManager, ManagerInv, ManagerTypeOK
  <2> QED  BY <2>1, <2>2, <2>3
<1> QED  BY <1>1, ObjectInvariant, PTL

\* No sweep of a callee takes an operand of its callers, nor the object that
\* is on its way to one of them, or from a function to C++.  The sweep at the end
\* of main does delete what main returns (MainReturnsObject).
THEOREM OperandsStayAlive == ASSUME Disciplined PROVE Spec => []OperandsAlive
<1>1. IInv => OperandsAlive
  BY DEF IInv, IObject, Operands, OwnNode, Result, ObjectTypeOK, OperandsAlive
<1> QED  BY <1>1, ObjectInvariant, PTL

\* No object is a candidate twice, and none that is deleted is a candidate:
\* no sweep deletes an object again.
THEOREM NothingIsDeletedTwice ==
    ASSUME Disciplined PROVE Spec => []CandidatesAreDistinctObjects
<1>1. IInv => CandidatesAreDistinctObjects
  BY NullAssumption DEF IInv, IObject, CandidateNodes, DistinctCandidates, LostByMain, Result,
     CandidatesAreDistinctObjects
<1> QED  BY <1>1, ObjectInvariant, PTL

-----------------------------------------------------------------------------
(* Exact counts.                                                            *)

\* For disciplined scripts that do not store an object where one is: the share
\* of the object that is replaced would never be given back.
NoOverwriting == Disciplined /\ "overwrite" \notin Features

-----------------------------------------------------------------------------
(* The inductive invariant of exact counts.                                 *)

\* The count of an object with a node is the number of slots that hold it.
ExactCounts ==
    \A o \in Object : nodeOf[o] # Null => n_shares[nodeOf[o]] = Cardinality(Holders(o))

\* A destructor has emptied the members that it has released, so that freeing
\* the object takes no reference along that is still counted.
ReleasedMembers ==
    current # Null /\ shared_ptr[current] # ret =>
        \A m \in Member \ pending : value[<<shared_ptr[current], m>>].type # "object"

\* clearGlobals has emptied the variables that it has visited.
ClearedGlobals ==
    mode \in {"pop", "sweep"} /\ why = "clear" =>
        \A v \in Var \ popping : value[<<0, v>>].type # "object"

ExactInv == IInv /\ ExactCounts /\ ReleasedMembers /\ ClearedGlobals

\* What a step does that stores and releases nothing.
HoldersStay ==
    \A s \in Slot : value'[s] = value[s] \/ (value'[s].type # "object" /\ value[s].type # "object")
SharesStay ==
    \A o \in Object : nodeOf'[o] # Null =>
        nodeOf'[o] = nodeOf[o] /\ n_shares'[nodeOf[o]] = n_shares[nodeOf[o]]

\* It keeps the counts exact.
LEMMA StayingIsExact ==
    ASSUME ExactCounts, HoldersStay, SharesStay
    PROVE  ExactCounts'
<1>1. \A o \in Object : Holders(o)' = Holders(o)
  BY DEF Holders, HoldersStay
<1> QED  BY <1>1 DEF ExactCounts, SharesStay

-----------------------------------------------------------------------------
(* Steps that move references.                                              *)

\* A slot stops holding its object, whose node, if it has one, loses a share.
LEMMA ReleaseIsExact ==
    ASSUME ExactInv, NEW s \in Slot, NEW v \in Value, v.type # "object",
           value' = [value EXCEPT ![s] = v], UNCHANGED nodeOf,
           \/ value[s].type = "object" /\ nodeOf[value[s].ref] # Null
              /\ unrefSharedScriptVar(nodeOf[value[s].ref])
           \/ (value[s].type = "object" => nodeOf[value[s].ref] = Null) /\ UNCHANGED nodeVars
    PROVE  ExactCounts'
<1> USE DEF ExactInv, IInv, IObject, IManager, ManagerInv
<1> DEFINE o == value[s].ref
           nd == nodeOf[value[s].ref]
<1> value \in [Slot -> Value] /\ nodeOf \in [Object -> Node \cup {Null}]
  BY DEF ObjectTypeOK
<1>v. \A t \in Slot : t # s => value'[t] = value[t]
  OBVIOUS
<1>s. value'[s].type # "object"
  OBVIOUS
<1> SUFFICES ASSUME NEW p \in Object, nodeOf[p] # Null
             PROVE  n_shares'[nodeOf[p]] = Cardinality(Holders(p)')
  BY DEF ExactCounts
<1>p. n_shares[nodeOf[p]] = Cardinality(Holders(p)) /\ nodeOf[p] \in Node
  BY DEF ExactCounts
<1>1. CASE s \notin Holders(p)
  <2>1. Holders(p)' = Holders(p)
    BY <1>1, <1>v, <1>s DEF Holders
  <2>2. CASE UNCHANGED nodeVars
    BY <2>1, <2>2, <1>p DEF nodeVars
  <2>3. CASE value[s].type = "object" /\ nd # Null /\ unrefSharedScriptVar(nd)
    <3>1. o \in Object /\ nd \in Node
      BY <2>3, HeldIsShared DEF ManagerTypeOK
    <3>2. nodeOf[p] # nd
      BY <1>1, <2>3, <3>1, OwnersDiffer DEF Holders
    <3>3. n_shares'[nodeOf[p]] = n_shares[nodeOf[p]]
      BY <1>p, <2>3, <3>1, <3>2 DEF unrefSharedScriptVar, ManagerTypeOK
    <3> QED  BY <1>p, <2>1, <3>3
  <2> QED  BY <2>2, <2>3
<1>2. CASE s \in Holders(p)
  <2>1. value[s].type = "object" /\ o = p
    BY <1>2 DEF Holders
  <2>2. unrefSharedScriptVar(nd) /\ nd = nodeOf[p] /\ nd \in Node
    BY <1>p, <2>1
  <2>3. Holders(p)' = Holders(p) \ {s}
    BY <2>1, <1>v, <1>s DEF Holders
  <2>4. Cardinality(Holders(p) \ {s}) = Cardinality(Holders(p)) - 1
    BY <1>2, HoldersFinite, FS_RemoveElement
  <2>5. n_shares[nd] >= 1 /\ n_shares[nd] \in Nat
    BY <2>1, <2>2, HeldIsShared, BoundAssumption DEF ManagerTypeOK
  <2>6. n_shares'[nd] = n_shares[nd] - 1
    BY <2>2, <2>5 DEF unrefSharedScriptVar, ManagerTypeOK
  <2> QED  BY <1>p, <2>2, <2>3, <2>4, <2>6
<1> QED  BY <1>1, <1>2

\* A store into a slot without an object adds one holder and one share.
LEMMA StoreIsExact ==
    ASSUME NoOverwriting, ExactInv, StoreObject
    PROVE  ExactCounts'
<1> USE DEF ExactInv, IInv, IObject, IManager, ManagerInv
<1> PICK dst \in Targets, o \in Loadable : StoreObject!(dst, o)
  BY DEF StoreObject
<1> DEFINE nd == nodeOf[o]
<1> Disciplined /\ Running
  BY DEF NoOverwriting
<1>1. o \in Object /\ nd # Null /\ nd \in nodes /\ nd \in Node
  BY LoadedObject
<1>2. dst \in Slot /\ value[dst].type # "object"
  BY DEF NoOverwriting, Targets, LiveSlots, Slot
<1>3. /\ n_shares \in [Node -> Nat] /\ n_shares'[nd] = n_shares[nd] + 1
      /\ \A c \in Node : c # nd => n_shares'[c] = n_shares[c]
  BY <1>1, BoundAssumption DEF sharePointer, ManagerTypeOK
<1>4. /\ \A s \in Slot : s # dst => value'[s] = value[s]
      /\ value'[dst].type = "object" /\ value'[dst].ref = o
  BY <1>2 DEF ObjectTypeOK
<1> SUFFICES ASSUME NEW p \in Object, nodeOf[p] # Null
             PROVE  n_shares'[nodeOf[p]] = Cardinality(Holders(p)')
  BY DEF ExactCounts
<1>5. n_shares[nodeOf[p]] = Cardinality(Holders(p)) /\ nodeOf[p] \in Node
  BY DEF ExactCounts, ObjectTypeOK
<1>6. CASE p # o
  <2>1. Holders(p)' = Holders(p)
    BY <1>2, <1>4, <1>6 DEF Holders
  <2>2. nodeOf[p] # nd
    BY <1>1, <1>6, OwnersDiffer
  <2> QED  BY <1>3, <1>5, <2>1, <2>2
<1>7. CASE p = o
  <2>1. Holders(p)' = Holders(p) \cup {dst} /\ dst \notin Holders(p)
    BY <1>2, <1>4, <1>7 DEF Holders
  <2>2. Cardinality(Holders(p) \cup {dst}) = Cardinality(Holders(p)) + 1
    BY <2>1, HoldersFinite, FS_AddElement
  <2> QED  BY <1>3, <1>5, <1>7, <2>1, <2>2
<1> QED  BY <1>6, <1>7

\* A primitive stored over an object has no reference of its own, so that the
\* object is released.
LEMMA StorePrimitiveIsExact ==
    ASSUME NoOverwriting, ExactInv, StorePrimitive
    PROVE  ExactCounts'
<1> USE DEF ExactInv, IInv, IObject, Running
<1> PICK dst \in Targets,
         src \in {Literal} \cup {value[s] : s \in {t \in LiveSlots : value[t].type = "primitive"}} :
         StorePrimitive!(dst)!(src)
  BY DEF StorePrimitive
<1> DEFINE v == [value[dst] EXCEPT !.type = "primitive"]
<1> ObjectTypeOK /\ dst \in Slot
  BY DEF Targets, LiveSlots, Slot
<1>1. v \in Value /\ v.type # "object" /\ value' = [value EXCEPT ![dst] = v]
  BY DEF ObjectTypeOK, Value
<1>2. value[dst].type = "object" =>
          HoldsObject(dst) /\ src.ref # value[dst].ref /\ nodeOf[value[dst].ref] # Null
  BY NullAssumption DEF NoOverwriting, References, Result, HoldsObject, Literal
<1>3. \/ value[dst].type = "object" /\ nodeOf[value[dst].ref] # Null
         /\ unrefSharedScriptVar(nodeOf[value[dst].ref])
      \/ (value[dst].type = "object" => nodeOf[value[dst].ref] = Null) /\ UNCHANGED nodeVars
  BY <1>2 DEF HoldsObject
<1> HIDE DEF v
<1> QED  BY <1>1, <1>3, ReleaseIsExact

\* A new node counts nothing, and nothing holds its object.
LEMMA NewNodeIsExact ==
    ASSUME ExactInv, NEW o \in Object, NEW nd \in Node, newSharedPointer(nd, o),
           nodeOf' = [nodeOf EXCEPT ![o] = nd], UNCHANGED value, Holders(o) = {}
    PROVE  ExactCounts'
<1> USE DEF ExactInv, IInv, IObject, IManager, ManagerInv
<1>1. \A p \in Object : Holders(p)' = Holders(p)
  BY DEF Holders
<1>2. Cardinality(Holders(o)) = 0
  BY FS_EmptySet
<1>3. \A p \in Object : p # o => nodeOf'[p] = nodeOf[p] /\ (nodeOf[p] # Null => nodeOf[p] # nd)
  BY DEF OwnNode, newSharedPointer, ObjectTypeOK
<1>4. /\ nodeOf'[o] = nd /\ n_shares'[nd] = 0
      /\ \A c \in Node : c # nd => n_shares'[c] = n_shares[c]
  BY DEF newSharedPointer, ManagerTypeOK, ObjectTypeOK
<1>5. \A p \in Object : nodeOf[p] \in Node \cup {Null}
  BY DEF ObjectTypeOK
<1> QED  BY <1>1, <1>2, <1>3, <1>4, <1>5 DEF ExactCounts

\* The freed candidate takes along its members only, and these are empty.
LEMMA SweepFreeIsExact ==
    ASSUME ExactInv, SweepFree
    PROVE  ExactCounts'
<1> USE DEF ExactInv, IInv, IObject, IManager, ManagerInv, SweepFree
<1> DEFINE o == shared_ptr[current]
<1>1. /\ current # Null /\ current \in Node
      /\ o \in Object /\ nodeOf[o] \in {current, Null}
      /\ o = ret => nodeOf[o] = Null
  BY NullAssumption DEF SweptNodeIsCandidate, ManagerTypeOK, CandidateNodes, RemoveFree, Result,
     LostByMain
<1>2. HoldersStay
  <2>1. CASE o = ret
    BY <2>1 DEF HoldersStay
  <2>2. CASE o # ret
    <3> SUFFICES ASSUME NEW s \in Slot, s \in {o} \X Member PROVE value[s].type # "object"
      BY <2>2 DEF HoldersStay, Undefined
    <3>1. PICK m \in Member : s = <<o, m>>
      OBVIOUS
    <3> QED  BY <1>1, <2>2, <3>1 DEF ReleasedMembers
  <2> QED  BY <2>1, <2>2
<1>3. SharesStay
  <2> SUFFICES ASSUME NEW p \in Object, nodeOf'[p] # Null
               PROVE  nodeOf'[p] = nodeOf[p] /\ n_shares'[nodeOf[p]] = n_shares[nodeOf[p]]
    BY DEF SharesStay
  <2>1. p # o /\ nodeOf'[p] = nodeOf[p]
    BY <1>1 DEF ObjectTypeOK
  <2>2. nodeOf[p] # current /\ nodeOf[p] \in Node
    BY <1>1, <2>1 DEF OwnNode, ObjectTypeOK
  <2> QED  BY <2>1, <2>2 DEF RemoveFree, ManagerTypeOK
<1> QED  BY <1>2, <1>3, StayingIsExact

-----------------------------------------------------------------------------
(* Exact counts are an invariant.                                           *)

\* The steps that store and release nothing: statements, calls, scopes, visits.
LEMMA OthersAreExact ==
    ASSUME NoOverwriting, ExactInv,
           \/ EndStatement \/ Call \/ PushScope \/ PopScope \/ Return \/ ReturnObject
           \/ MainReturnsObject \/ MainExit \/ stackDumped \/ Execute \/ clearGlobals
           \/ BeginSweep \/ SweepVisit \/ EndBlock \/ EndScope \/ LeaveFunction \/ LeaveMachine
    PROVE  ExactCounts'
<1> USE DEF ExactInv, IInv, IObject, IManager, ManagerInv, managerVars, objectVars, nodeVars
<1> ManagerTypeOK /\ ObjectTypeOK /\ idxCurrentStack \in Levels
  BY DEF ManagerTypeOK
<1>1. SharesStay
  <2>1. CASE ReturnObject \/ MainReturnsObject
    BY <2>1 DEF ReturnObject, MainReturnsObject, SharesStay, ObjectTypeOK
  <2>2. CASE ~ReturnObject /\ ~MainReturnsObject
    <3>1. UNCHANGED <<nodeOf, n_shares>>
      BY <2>2 DEF EndStatement, Call, PushScope, PopScope, Return, MainExit, stackDumped, Execute,
         clearGlobals, BeginSweep, SweepVisit, RemoveVisit, EndBlock, EndScope, LeaveFunction,
         LeaveMachine
    <3> QED  BY <3>1 DEF SharesStay
  <2> QED  BY <2>1, <2>2
<1>2. HoldersStay
  <2>1. CASE Call
    <3> SUFFICES ASSUME NEW s \in Slot, s \in {idxCurrentStack + 1} \X Var
                 PROVE  value[s].type # "object"
      BY <2>1 DEF Call, HoldersStay, Undefined
    <3>1. PICK v \in Var : s = <<idxCurrentStack + 1, v>>
      OBVIOUS
    <3>2. idxCurrentStack + 1 \in Frames /\ depth[idxCurrentStack + 1] = 0 /\ idxCurrentStack + 1 # 0
      BY <2>1, BoundAssumption DEF Call, Control, FunctionRuns, Frames, Levels
    <3>3. s \notin LiveSlots
      BY <3>1, <3>2, DistinctAssumption DEF LiveSlots, ScopeOf, BodyDepth, FrameSlot, MemberSlot
    <3> QED  BY <3>3 DEF DeadSlots
  <2>2. CASE LeaveMachine
    <3> SUFFICES ASSUME NEW s \in Slot, why = "clear", s \in FrameSlot
                 PROVE  value[s].type # "object"
      BY <2>2 DEF LeaveMachine, HoldersStay, Undefined
    <3>1. PICK f \in Frames, v \in Var : s = <<f, v>>
      BY DEF FrameSlot
    <3>2. mode = "sweep" /\ popping = {} /\ idxCurrentStack = 0
      BY <2>2 DEF LeaveMachine, Swept, Control
    <3>3. CASE f = 0
      BY <3>1, <3>2, <3>3 DEF ClearedGlobals
    <3>4. CASE f # 0
      <4>1. depth[f] = 0
        BY <3>2, <3>4 DEF Control, FunctionRuns, Frames
      <4>2. s \notin LiveSlots
        BY <3>1, <3>4, <4>1, DistinctAssumption
        DEF LiveSlots, ScopeOf, BodyDepth, FrameSlot, MemberSlot
      <4> QED  BY <4>2 DEF DeadSlots
    <3> QED  BY <3>3, <3>4
  <2>3. CASE ~Call /\ ~LeaveMachine
    <3>1. UNCHANGED value
      BY <2>3, ExecuteStoresNothing
      DEF EndStatement, PushScope, PopScope, Return, ReturnObject, MainReturnsObject, MainExit,
          stackDumped, clearGlobals, BeginSweep, SweepVisit, EndBlock, EndScope, LeaveFunction
    <3> QED  BY <3>1 DEF HoldersStay
  <2> QED  BY <2>1, <2>2, <2>3
<1> QED  BY <1>1, <1>2, StayingIsExact

\* The steps that make nodes.
LEMMA NewIsExact ==
    ASSUME NoOverwriting, ExactInv, NewObject \/ TakeResult
    PROVE  ExactCounts'
<1> USE DEF ExactInv, IInv, IObject
<1>1. CASE NewObject
  <2> PICK o \in Object, nd \in Node, k \in Kinds : NewObject!(o, nd, k)
    BY <1>1 DEF NewObject
  <2>1. Holders(o) = {}
    BY DEF Holders, References
  <2> QED  BY <2>1, NewNodeIsExact
<1>2. CASE TakeResult
  <2> PICK nd \in Node : TakeResult!(nd)
    BY <1>2 DEF TakeResult
  <2>1. ret \in Object /\ nodeOf[ret] = Null
    BY DEF Result, Control, ObjectTypeOK
  <2>2. Holders(ret) = {}
    BY <2>1 DEF Holders, References
  <2> QED  BY <2>1, <2>2, NewNodeIsExact
<1> QED  BY <1>1, <1>2

\* The steps that release a variable or a member.
LEMMA PopsAreExact ==
    ASSUME NoOverwriting, ExactInv, PopLocal \/ ReleaseMember
    PROVE  ExactCounts'
<1> USE DEF ExactInv, IInv, IObject
<1> Undefined \in Value /\ Undefined.type # "object"
  BY DEF Undefined, Value
<1>1. CASE PopLocal
  <2> PICK v \in popping : PopLocal!(v)
    BY <1>1 DEF PopLocal
  <2> DEFINE s == <<PoppedFrame, v>>
  <2>1. s \in Slot
    BY PoppedFrameIsOpen DEF ObjectTypeOK, Slot, FrameSlot
  <2>2. /\ UNCHANGED nodeOf /\ value' = [value EXCEPT ![s] = Undefined]
        /\ \/ value[s].type = "object" /\ nodeOf[value[s].ref] # Null
              /\ unrefSharedScriptVar(nodeOf[value[s].ref])
           \/ (value[s].type = "object" => nodeOf[value[s].ref] = Null) /\ UNCHANGED nodeVars
    BY <2>1, NullAssumption DEF HoldsObject, unrefSharedPtr, References
  <2> HIDE DEF s
  <2> QED  BY <2>1, <2>2, ReleaseIsExact
<1>2. CASE ReleaseMember
  <2> PICK m \in pending : ReleaseMember!(m)
    BY <1>2 DEF ReleaseMember
  <2> DEFINE s == <<shared_ptr[current], m>>
  <2>1. s \in Slot
    BY DEF IManager, ManagerInv, ManagerTypeOK, SweptNodeIsCandidate, CandidateNodes,
           ObjectTypeOK, Slot, MemberSlot
  <2>2. /\ UNCHANGED nodeOf /\ value' = [value EXCEPT ![s] = Undefined]
        /\ \/ value[s].type = "object" /\ nodeOf[value[s].ref] # Null
              /\ unrefSharedScriptVar(nodeOf[value[s].ref])
           \/ (value[s].type = "object" => nodeOf[value[s].ref] = Null) /\ UNCHANGED nodeVars
    BY <2>1, NullAssumption DEF HoldsObject, unrefSharedPtr, References
  <2> HIDE DEF s
  <2> QED  BY <2>1, <2>2, ReleaseIsExact
<1> QED  BY <1>1, <1>2

\* What destructors and clearGlobals have emptied stays empty: neither lets a
\* script run before it is done.
LEMMA EmptiedStaysEmpty ==
    ASSUME NoOverwriting, ExactInv, [Next]_vars
    PROVE  ReleasedMembers' /\ ClearedGlobals'
<1> USE DEF ExactInv, IInv, IObject, IManager, ManagerInv
<1> ManagerTypeOK /\ ObjectTypeOK /\ idxCurrentStack \in Levels
  BY DEF ManagerTypeOK
<1>1. CASE UNCHANGED vars
  BY <1>1 DEF vars, managerVars, objectVars, controlVars, ReleasedMembers, ClearedGlobals
<1>2. CASE PopLocal
  <2> PICK v \in popping : PopLocal!(v)
    BY <1>2 DEF PopLocal
  <2>1. <<PoppedFrame, v>> \in Slot /\ 0 \in Frames /\ \A g \in Var : <<0, g>> \in Slot
    BY PoppedFrameIsOpen, BoundAssumption DEF ObjectTypeOK, Slot, FrameSlot, Frames
  <2>2. current' = Null
    BY DEF Control, SweptNodeIsCandidate, sweepVars
  <2>3. ClearedGlobals'
    <3> SUFFICES ASSUME why = "clear", NEW g \in Var \ (popping \ {v})
                 PROVE  value'[<<0, g>>].type # "object"
      BY DEF ClearedGlobals
    <3>1. PoppedFrame = 0
      BY DEF PoppedFrame
    <3> QED  BY <2>1, <3>1 DEF ClearedGlobals, ObjectTypeOK, Undefined
  <2> QED  BY <2>2, <2>3 DEF ReleasedMembers
<1>3. CASE ReleaseMember
  <2> PICK m \in pending : ReleaseMember!(m)
    BY <1>3 DEF ReleaseMember
  <2>1. /\ UNCHANGED <<current, shared_ptr, popping, ret, why, mode>> /\ pending' = pending \ {m}
        /\ value' = [value EXCEPT ![<<shared_ptr[current], m>>] = Undefined]
    BY DEF sweepVars, unrefSharedPtr, unrefSharedScriptVar, nodeVars
  <2>2. shared_ptr[current] \in Object
    BY DEF SweptNodeIsCandidate, CandidateNodes
  <2>3. \A k \in Member : <<shared_ptr[current], k>> \in Slot
    BY <2>2 DEF Slot, MemberSlot
  <2>4. \A g \in Var : <<0, g>> \in Slot
    BY BoundAssumption DEF Slot, FrameSlot, Frames
  <2>5. ReleasedMembers'
    BY <2>1, <2>3 DEF ReleasedMembers, ObjectTypeOK, Undefined
  <2>6. \A g \in Var : value'[<<0, g>>].type = "object" => value'[<<0, g>>] = value[<<0, g>>]
    BY <2>1, <2>3, <2>4 DEF ObjectTypeOK, Undefined
  <2>7. ClearedGlobals'
    BY <2>1, <2>6 DEF ClearedGlobals
  <2> QED  BY <2>5, <2>7
<1>4. CASE SweepVisit
  BY <1>4, NullAssumption DEF SweepVisit, RemoveVisit, ReleasedMembers, ClearedGlobals, objectVars,
     nodeVars, Control, CandidateNodes
<1>5. CASE SweepFree
  <2>1. current' = Null /\ UNCHANGED <<mode, why, popping>>
    BY <1>5 DEF SweepFree, RemoveFree, controlVars
  <2>2. \A s \in Slot : value'[s].type = "object" => value'[s] = value[s]
    BY <1>5 DEF SweepFree, Undefined
  <2>3. \A g \in Var : <<0, g>> \in Slot
    BY BoundAssumption DEF Slot, FrameSlot, Frames
  <2> QED  BY <2>1, <2>2, <2>3 DEF ReleasedMembers, ClearedGlobals
<1>6. CASE clearGlobals
  BY <1>6 DEF clearGlobals, managerVars, objectVars, ReleasedMembers, ClearedGlobals, ObjectTypeOK,
     Control, SweptNodeIsCandidate
<1>7. CASE BeginSweep
  BY <1>7 DEF BeginSweep, managerVars, objectVars, ReleasedMembers, ClearedGlobals, Control,
     SweptNodeIsCandidate
<1>8. CASE EndBlock \/ EndScope \/ LeaveFunction \/ LeaveMachine
  <2>1. current' = Null
    BY <1>8 DEF EndBlock, EndScope, LeaveFunction, LeaveMachine, Swept, managerVars, sweepVars
  <2>2. mode' \in {"pop", "sweep"} => why' # "clear"
    BY <1>8 DEF EndBlock, EndScope, LeaveFunction, LeaveMachine
  <2> QED  BY <2>1, <2>2 DEF ReleasedMembers, ClearedGlobals
<1>9. CASE \/ NewObject \/ StoreObject \/ StorePrimitive \/ EndStatement \/ Call \/ PushScope
           \/ PopScope \/ Return \/ ReturnObject \/ MainReturnsObject \/ MainExit
           \/ stackDumped \/ Execute \/ TakeResult
  <2> USE DEF NewObject, StoreObject, StorePrimitive, EndStatement, Call, PushScope,
              PopScope, Return, ReturnObject, MainReturnsObject, MainExit, stackDumped, Execute,
              TakeResult
  <2>1. current = Null /\ current' = current
    BY <1>9 DEF Control, SweptNodeIsCandidate, managerVars, sweepVars, Running
  <2>2. mode' \in {"pop", "sweep"} => why' # "clear"
    BY <1>9 DEF controlVars, Running
  <2> QED  BY <2>1, <2>2 DEF ReleasedMembers, ClearedGlobals
<1>10. CASE UnrefElement
  BY <1>10 DEF UnrefElement, Control
<1> QED
  BY <1>1, <1>2, <1>3, <1>4, <1>5, <1>6, <1>7, <1>8, <1>9, <1>10 DEF Next, Script, Machine

LEMMA ExactInitial == Init => ExactInv
<1> SUFFICES ASSUME Init PROVE ExactInv
  OBVIOUS
<1>1. IInv
  BY ObjectInitial
<1>2. ExactCounts /\ ReleasedMembers /\ ClearedGlobals
  BY DEF Init, ManagerInit, ExactCounts, ReleasedMembers, ClearedGlobals
<1> QED  BY <1>1, <1>2 DEF ExactInv

LEMMA ExactInductive == NoOverwriting /\ ExactInv /\ [Next]_vars => ExactInv'
<1> SUFFICES ASSUME NoOverwriting, ExactInv, [Next]_vars PROVE ExactInv'
  OBVIOUS
<1>1. IInv'
  BY ObjectInductive DEF NoOverwriting, ExactInv
<1>2. ExactCounts'
  <2>1. CASE NewObject \/ TakeResult
    BY <2>1, NewIsExact
  <2>2. CASE StoreObject
    BY <2>2, StoreIsExact
  <2>3. CASE StorePrimitive
    BY <2>3, StorePrimitiveIsExact
  <2>4. CASE PopLocal \/ ReleaseMember
    BY <2>4, PopsAreExact
  <2>5. CASE SweepFree
    BY <2>5, SweepFreeIsExact
  <2>6. CASE UnrefElement
    BY <2>6 DEF UnrefElement, ExactInv, IInv, IObject, Control
  <2>7. CASE UNCHANGED vars
    <3>1. HoldersStay /\ SharesStay
      BY <2>7 DEF vars, managerVars, objectVars, HoldersStay, SharesStay
    <3> QED  BY <3>1, StayingIsExact DEF ExactInv
  <2>8. CASE \/ EndStatement \/ Call \/ PushScope \/ PopScope \/ Return \/ ReturnObject
             \/ MainReturnsObject \/ MainExit \/ stackDumped \/ Execute \/ clearGlobals
             \/ BeginSweep \/ SweepVisit \/ EndBlock \/ EndScope \/ LeaveFunction \/ LeaveMachine
    BY <2>8, OthersAreExact
  <2> QED
    BY <2>1, <2>2, <2>3, <2>4, <2>5, <2>6, <2>7, <2>8 DEF Next, Script, Machine
<1> QED  BY <1>1, <1>2, EmptiedStaysEmpty DEF ExactInv

LEMMA ExactInvariant == ASSUME NoOverwriting PROVE Spec => []ExactInv
<1>1. ExactInv /\ [Next]_vars => ExactInv'
  BY ExactInductive
<1> QED  BY <1>1, ExactInitial, PTL DEF Spec

\* References in scope and members of existing objects are all that counts
\* count: no operand, no popped variable, no deleted object keeps a share.
\* C++ calls one function at most, with as many arguments each time.
THEOREM CountsAreExact == ASSUME NoOverwriting PROVE Spec => []CountIsExact
<1>1. ExactInv => CountIsExact
  BY RefsAreHolders DEF ExactInv, ExactCounts, IInv, IObject, CountIsExact
<1> QED  BY <1>1, ExactInvariant, PTL

-----------------------------------------------------------------------------
(* Nothing is left over.                                                    *)

\* Such scripts whose objects have no members, that end without an error, and
\* whose functions return no object to C++.  A sweep that has visited its last
\* candidate empties the list, with what the members of that candidate have
\* put into it since (RemoveFree); an error outside all scopes leaves without
\* a sweep (stackDumped).
Tidy == NoOverwriting /\ Features \cap {"error", "callFromC"} = {} /\ Member = {}

\* An object that exists has a node, unless it is being returned or main has
\* returned it and the sweep will find it.  If the node counts nothing, some
\* sweep will find that.
Listed(o) == \E l \in Levels : nodeOf[o] \in zero_shares[l]
Condemned(o) == /\ mode = "sweep" /\ why = "main"
                /\ \E nd \in zero_shares[idxCurrentStack] : shared_ptr[nd] = o
NothingLost ==
    \A o \in Object : state[o] = "alive" =>
        /\ nodeOf[o] = Null => o = ret \/ Condemned(o)
        /\ nodeOf[o] # Null /\ n_shares[nodeOf[o]] = 0 => Listed(o)

\* The list of a level is empty once the level is left.
LeftLevelsAreSwept ==
    \A l \in Levels : l > idxCurrentStack \/ (l = 0 /\ why # "clear") => zero_shares[l] = {}

\* No script unwinds, and the last visited candidate is the last one.
NoUnwinding ==
    /\ why # "error"
    /\ mode \in {"idle", "run"} => why = "none"
    /\ mode = "result" => why = "return"
LastIsLast == current # Null /\ finish => zero_shares[idxCurrentStack] = {current}

TidyInv == ExactInv /\ NothingLost /\ LeftLevelsAreSwept /\ NoUnwinding /\ LastIsLast

\* When C++ has the machine, every existing object has a reference.
LEMMA TidyMeansNoGarbage == TidyInv => NoGarbageAfterMain
<1> SUFFICES ASSUME TidyInv, mode = "idle", NEW o \in Object, state[o] = "alive"
             PROVE  Refs(o) # {}
  BY DEF NoGarbageAfterMain
<1> USE DEF TidyInv, ExactInv, IInv, IObject, IManager, ManagerInv
<1>1. nodeOf[o] # Null
  <2>1. ret = Null
    BY DEF Result
  <2> QED  BY <2>1, NullAssumption DEF NothingLost, Condemned
<1>2. \A l \in Levels : zero_shares[l] = {}
  BY BoundAssumption DEF Control, NoUnwinding, LeftLevelsAreSwept, Levels
<1>3. n_shares[nodeOf[o]] # 0
  BY <1>1, <1>2 DEF NothingLost, Listed
<1>4. Cardinality(Holders(o)) # 0
  BY <1>1, <1>3 DEF ExactCounts
<1>5. Holders(o) # {}
  BY <1>4, FS_EmptySet
<1> QED  BY <1>5, RefsAreHolders

\* A step that makes, deletes and shares nothing.
HeapStays == UNCHANGED <<nodeVars, state, nodeOf>>

LEMMA StayingLosesNothing ==
    ASSUME TidyInv, HeapStays, ret = Null \/ ret' = ret,
           mode = "sweep" /\ why = "main" /\ zero_shares[idxCurrentStack] # {} =>
               mode' = mode /\ UNCHANGED <<why, idxCurrentStack>>
    PROVE  NothingLost'
<1>1. \A o \in Object : Listed(o)' = Listed(o)
  BY DEF Listed, HeapStays, nodeVars
<1>2. \A o \in Object : Condemned(o) => Condemned(o)'
  BY DEF Condemned, HeapStays, nodeVars
<1> QED  BY <1>1, <1>2, NullAssumption DEF TidyInv, NothingLost, HeapStays, nodeVars

\* A release puts the object that has lost its last share into the list of the
\* running level.
LEMMA ReleaseLosesNothing ==
    ASSUME TidyInv, NEW nd \in Node, unrefSharedScriptVar(nd),
           UNCHANGED <<state, nodeOf, ret, idxCurrentStack, why, mode>>,
           idxCurrentStack = 0 => why = "clear"
    PROVE  NothingLost' /\ LeftLevelsAreSwept'
<1> USE DEF TidyInv, ExactInv, IInv, IObject, IManager, ManagerInv
<1> idxCurrentStack \in Levels /\ ManagerTypeOK /\ ObjectTypeOK
  BY DEF ManagerTypeOK
<1>1. zero_shares' = IF n_shares[nd] = 1
                     THEN [zero_shares EXCEPT ![idxCurrentStack] = @ \cup {nd}]
                     ELSE zero_shares
  BY DEF unrefSharedScriptVar
<1>2. zero_shares \in [Levels -> SUBSET Node]
  BY DEF ManagerTypeOK
<1>3. /\ \A l \in Levels : zero_shares[l] \subseteq zero_shares'[l]
      /\ \A l \in Levels : l # idxCurrentStack => zero_shares'[l] = zero_shares[l]
      /\ n_shares[nd] = 1 => nd \in zero_shares'[idxCurrentStack]
  <2>1. CASE n_shares[nd] = 1
    BY <1>1, <1>2, <2>1
  <2>2. CASE n_shares[nd] # 1
    BY <1>1, <2>2
  <2> QED  BY <2>1, <2>2
<1>4. /\ n_shares[nd] \in Nat /\ n_shares'[nd] = IF n_shares[nd] > 0 THEN n_shares[nd] - 1 ELSE 0
      /\ \A c \in Node : c # nd => n_shares'[c] = n_shares[c]
  BY BoundAssumption DEF unrefSharedScriptVar, ManagerTypeOK
<1>5. NothingLost'
  <2> SUFFICES ASSUME NEW o \in Object, state[o] = "alive", nodeOf[o] # Null,
                      n_shares'[nodeOf[o]] = 0
               PROVE  \E l \in Levels : nodeOf[o] \in zero_shares'[l]
    <3>1. \A o \in Object : Condemned(o) => Condemned(o)'
      BY <1>3 DEF Condemned, unrefSharedScriptVar
    <3> QED  BY <3>1 DEF NothingLost, Listed
  <2>1. CASE n_shares[nodeOf[o]] = 0
    <3>1. PICK l \in Levels : nodeOf[o] \in zero_shares[l]
      BY <2>1 DEF NothingLost, Listed
    <3> QED  BY <1>3, <3>1
  <2>2. CASE n_shares[nodeOf[o]] # 0
    <3>1. nodeOf[o] \in Node
      BY DEF ObjectTypeOK
    <3>2. nodeOf[o] = nd /\ n_shares[nd] = 1
      BY <1>4, <2>2, <3>1
    <3> QED  BY <1>3, <3>2
  <2> QED  BY <2>1, <2>2
<1>6. LeftLevelsAreSwept'
  BY <1>3 DEF LeftLevelsAreSwept, Levels
<1> QED  BY <1>5, <1>6

\* A new node waits in the list of the running level.
LEMMA NewIsListed ==
    ASSUME TidyInv, NEW o \in Object, NEW nd \in Node, newSharedPointer(nd, o),
           nodeOf' = [nodeOf EXCEPT ![o] = nd],
           \A p \in Object : p # o => state'[p] = state[p],
           ret' = ret \/ ret = o,
           UNCHANGED idxCurrentStack, idxCurrentStack >= 1, why # "clear",
           mode # "sweep"
    PROVE  NothingLost' /\ LeftLevelsAreSwept'
<1> USE DEF TidyInv, ExactInv, IInv, IObject, IManager, ManagerInv
<1> idxCurrentStack \in Levels /\ ManagerTypeOK /\ ObjectTypeOK
  BY DEF ManagerTypeOK
<1>1. /\ \A l \in Levels : zero_shares[l] \subseteq zero_shares'[l]
      /\ \A l \in Levels : l # idxCurrentStack => zero_shares'[l] = zero_shares[l]
      /\ nd \in zero_shares'[idxCurrentStack]
  BY DEF newSharedPointer, ManagerTypeOK
<1>2. /\ \A c \in Node : c # nd => n_shares'[c] = n_shares[c]
      /\ nodeOf'[o] = nd /\ nd # Null
      /\ \A p \in Object : p # o => nodeOf'[p] = nodeOf[p]
  BY NullAssumption DEF newSharedPointer, ManagerTypeOK, ObjectTypeOK
<1>3. NothingLost'
  <2> SUFFICES ASSUME NEW p \in Object, state'[p] = "alive"
               PROVE  /\ nodeOf'[p] = Null => p = ret'
                      /\ nodeOf'[p] # Null /\ n_shares'[nodeOf'[p]] = 0 =>
                            \E l \in Levels : nodeOf'[p] \in zero_shares'[l]
    BY DEF NothingLost, Listed
  <2>1. CASE p = o
    BY <1>1, <1>2, <2>1
  <2>2. CASE p # o
    <3>1. state[p] = "alive" /\ nodeOf'[p] = nodeOf[p]
      BY <1>2, <2>2
    <3>2. nodeOf[p] = Null => p = ret'
      BY <2>2, <3>1 DEF NothingLost, Condemned
    <3>3. ASSUME nodeOf[p] # Null, n_shares'[nodeOf[p]] = 0
          PROVE  \E l \in Levels : nodeOf[p] \in zero_shares'[l]
      <4>1. nodeOf[p] \in nodes /\ nodeOf[p] \in Node /\ nd \notin nodes
        BY <3>3 DEF OwnNode, newSharedPointer, ManagerTypeOK
      <4>2. n_shares[nodeOf[p]] = 0
        BY <1>2, <3>3, <4>1
      <4>3. PICK l \in Levels : nodeOf[p] \in zero_shares[l]
        BY <3>1, <3>3, <4>2 DEF NothingLost, Listed
      <4> QED  BY <1>1, <4>3
    <3> QED  BY <3>1, <3>2, <3>3
  <2> QED  BY <2>1, <2>2
<1>4. LeftLevelsAreSwept'
  <2>1. ASSUME NEW l \in Levels, l > idxCurrentStack \/ (l = 0 /\ why' # "clear")
        PROVE  zero_shares'[l] = {}
    <3>1. l # idxCurrentStack
      BY <2>1 DEF Levels
    <3>2. l > idxCurrentStack \/ (l = 0 /\ why # "clear")
      BY <2>1
    <3> QED  BY <1>1, <3>1, <3>2 DEF LeftLevelsAreSwept
  <2> QED  BY <2>1 DEF LeftLevelsAreSwept
<1> QED  BY <1>3, <1>4

\* A store takes a candidate out of its list, and gives it a share.
LEMMA StoreLosesNothing ==
    ASSUME Tidy, TidyInv, StoreObject
    PROVE  NothingLost' /\ LeftLevelsAreSwept'
<1> USE DEF TidyInv, ExactInv, IInv, IObject, IManager, ManagerInv
<1> PICK dst \in Targets, o \in Loadable : StoreObject!(dst, o)
  BY DEF StoreObject
<1> DEFINE nd == nodeOf[o]
<1> Disciplined /\ Running
  BY DEF Tidy, NoOverwriting
<1>1. o \in Object /\ nd \in Node
  BY LoadedObject
<1>2. /\ n_shares[nd] \in Nat /\ n_shares'[nd] = n_shares[nd] + 1
      /\ \A c \in Node : c # nd => n_shares'[c] = n_shares[c]
  BY <1>1, BoundAssumption DEF sharePointer, ManagerTypeOK
<1>3. /\ \A l \in Levels : zero_shares'[l] \subseteq zero_shares[l]
      /\ \A l \in Levels : zero_shares[l] \ zero_shares'[l] \subseteq {nd}
  <2>1. zero_shares' = IF n_shares[nd] = 0
                       THEN [zero_shares EXCEPT ![currentStack[nd]] = @ \ {nd}]
                       ELSE zero_shares
    BY DEF sharePointer
  <2>2. zero_shares \in [Levels -> SUBSET Node]
    BY DEF ManagerTypeOK
  <2>3. CASE n_shares[nd] = 0
    BY <2>1, <2>2, <2>3
  <2>4. CASE n_shares[nd] # 0
    BY <2>1, <2>4
  <2> QED  BY <2>3, <2>4
<1>4. UNCHANGED <<state, nodeOf, ret, idxCurrentStack, why, mode>> /\ mode # "sweep"
  BY DEF controlVars, Running
<1>5. NothingLost'
  <2> SUFFICES ASSUME NEW p \in Object, state[p] = "alive", nodeOf[p] # Null,
                      n_shares'[nodeOf[p]] = 0
               PROVE  \E l \in Levels : nodeOf[p] \in zero_shares'[l]
    BY <1>4 DEF NothingLost, Listed, Condemned
  <2>1. nodeOf[p] \in Node
    BY DEF ObjectTypeOK
  <2>2. nodeOf[p] # nd /\ n_shares[nodeOf[p]] = 0
    BY <1>2, <2>1
  <2>3. PICK l \in Levels : nodeOf[p] \in zero_shares[l]
    BY <2>2 DEF NothingLost, Listed
  <2> QED  BY <1>3, <2>2, <2>3
<1>6. LeftLevelsAreSwept'
  BY <1>3, <1>4 DEF LeftLevelsAreSwept
<1> QED  BY <1>5, <1>6

\* A freed candidate takes its own object along, and no other candidate: the
\* list that is emptied after the last one has nothing else in it.
LEMMA SweepFreeLosesNothing ==
    ASSUME TidyInv, SweepFree
    PROVE  NothingLost' /\ LeftLevelsAreSwept'
<1> USE DEF TidyInv, ExactInv, IInv, IObject, IManager, ManagerInv, SweepFree
<1> DEFINE o == shared_ptr[current]
<1>1. /\ current # Null /\ current \in Node /\ idxCurrentStack \in Levels
      /\ o \in Object /\ nodeOf[o] \in {current, Null}
      /\ o = ret => nodeOf[o] = Null
  BY NullAssumption DEF SweptNodeIsCandidate, ManagerTypeOK, CandidateNodes, RemoveFree, Result,
     LostByMain
<1>2. UNCHANGED <<ret, idxCurrentStack, why>>
  BY DEF RemoveFree, controlVars
<1>3. /\ \A l \in Levels : zero_shares'[l] = zero_shares[l] \ {current} \/ l # idxCurrentStack
      /\ \A l \in Levels : l # idxCurrentStack => zero_shares'[l] = zero_shares[l]
  BY <1>1 DEF RemoveFree, ManagerTypeOK, LastIsLast
<1>4. \A c \in Node : c # current => n_shares'[c] = n_shares[c]
  BY DEF RemoveFree, ManagerTypeOK
<1>5. NothingLost'
  <2> SUFFICES ASSUME NEW p \in Object, state'[p] = "alive"
               PROVE  /\ nodeOf'[p] = Null => p = ret \/ Condemned(p)'
                      /\ nodeOf'[p] # Null /\ n_shares'[nodeOf'[p]] = 0 =>
                            \E l \in Levels : nodeOf'[p] \in zero_shares'[l]
    BY <1>2 DEF NothingLost, Listed
  <2>1. state[p] = "alive" /\ nodeOf'[p] = nodeOf[p] /\ (p = o => p = ret)
    BY <1>1 DEF ObjectTypeOK
  <2>2. nodeOf[p] = Null => p = ret \/ Condemned(p)'
    <3> SUFFICES ASSUME Condemned(p), p # ret PROVE Condemned(p)'
      BY <2>1 DEF NothingLost
    <3>1. PICK nd \in zero_shares[idxCurrentStack] : shared_ptr[nd] = p
      BY DEF Condemned
    <3>2. nd \in Node /\ nd # current
      BY <1>1, <2>1, <3>1 DEF ManagerTypeOK
    <3>3. nd \in zero_shares'[idxCurrentStack] /\ shared_ptr'[nd] = shared_ptr[nd]
      BY <1>3, <3>1, <3>2 DEF RemoveFree, ManagerTypeOK
    <3> QED  BY <1>2, <3>1, <3>3 DEF Condemned, controlVars
  <2>3. ASSUME nodeOf[p] # Null, n_shares'[nodeOf[p]] = 0
        PROVE  \E l \in Levels : nodeOf[p] \in zero_shares'[l]
    <3>1. nodeOf[p] # current /\ nodeOf[p] \in Node
      BY <1>1, <2>1, <2>3 DEF OwnNode, ObjectTypeOK
    <3>2. n_shares[nodeOf[p]] = 0
      BY <1>4, <2>3, <3>1
    <3>3. PICK l \in Levels : nodeOf[p] \in zero_shares[l]
      BY <2>1, <2>3, <3>2 DEF NothingLost, Listed
    <3> QED  BY <1>3, <3>1, <3>3
  <2> QED  BY <2>1, <2>2, <2>3
<1>6. LeftLevelsAreSwept'
  BY <1>2, <1>3 DEF LeftLevelsAreSwept
<1> QED  BY <1>5, <1>6

\* Stores of primitives and popped variables, by what they do to the node.
LEMMA ReleasesLoseNothing ==
    ASSUME Tidy, TidyInv, StorePrimitive \/ PopLocal
    PROVE  NothingLost' /\ LeftLevelsAreSwept'
<1> USE DEF TidyInv, ExactInv, IInv, IObject
<1>1. /\ UNCHANGED <<state, nodeOf, ret, idxCurrentStack, why, mode>> /\ mode # "sweep"
      /\ idxCurrentStack = 0 => why = "clear"
  <2>1. CASE StorePrimitive
    <3>1. mode = "run" /\ UNCHANGED <<state, nodeOf, ret, idxCurrentStack, why, mode>>
      BY <2>1 DEF StorePrimitive, controlVars, Running
    <3> QED  BY <3>1 DEF Control
  <2>2. CASE PopLocal
    <3>1. mode = "pop" /\ UNCHANGED <<state, nodeOf, ret, idxCurrentStack, why, mode>>
      BY <2>2 DEF PopLocal
    <3> QED  BY <3>1 DEF Control
  <2> QED  BY <2>1, <2>2
<1>2. UNCHANGED nodeVars \/ \E nd \in Node : unrefSharedScriptVar(nd)
  <2>1. CASE StorePrimitive
    BY <2>1 DEF StorePrimitive, ObjectTypeOK, Value, HoldsObject, Targets, LiveSlots, Slot
  <2>2. CASE PopLocal
    <3> PICK v \in popping : PopLocal!(v)
      BY <2>2 DEF PopLocal
    <3> DEFINE s == <<PoppedFrame, v>>
    <3>1. s \in Slot
      BY PoppedFrameIsOpen DEF ObjectTypeOK, Slot, FrameSlot
    <3>2. IF HoldsObject(s) THEN unrefSharedPtr(value[s].ref, <<>>, FALSE) ELSE UNCHANGED nodeVars
      OBVIOUS
    <3> HIDE DEF s
    <3>3. CASE HoldsObject(s)
      <4>1. value[s].ref \in Object
        BY <3>1, <3>3 DEF HoldsObject, ObjectTypeOK, Value
      <4> QED  BY <3>2, <3>3, <4>1 DEF unrefSharedPtr, ObjectTypeOK
    <3> QED  BY <3>2, <3>3
  <2> QED  BY <2>1, <2>2
<1>3. CASE UNCHANGED nodeVars
  <2>1. NothingLost'
    BY <1>1, <1>3, StayingLosesNothing DEF HeapStays
  <2> QED  BY <1>1, <1>3, <2>1 DEF LeftLevelsAreSwept, nodeVars
<1>4. CASE \E nd \in Node : unrefSharedScriptVar(nd)
  BY <1>1, <1>4, ReleaseLosesNothing
<1> QED  BY <1>2, <1>3, <1>4

\* Entering and leaving functions and scopes: a level is left with an empty list.
LEMMA OthersLoseNothing ==
    ASSUME Tidy, TidyInv,
           \/ EndStatement \/ Call \/ PushScope \/ PopScope \/ Return \/ MainExit
           \/ Execute \/ clearGlobals \/ BeginSweep \/ SweepVisit \/ EndBlock \/ EndScope
           \/ LeaveFunction \/ LeaveMachine
    PROVE  NothingLost' /\ LeftLevelsAreSwept'
<1> USE DEF TidyInv, ExactInv, IInv, IObject, IManager, ManagerInv
<1>l. idxCurrentStack \in Levels /\ 0 \in Levels
  BY BoundAssumption DEF ManagerTypeOK, Levels
<1>1. HeapStays
  BY DEF EndStatement, Call, PushScope, PopScope, Return, MainExit, Execute, clearGlobals,
     BeginSweep, SweepVisit, RemoveVisit, EndBlock, EndScope, LeaveFunction, LeaveMachine,
     managerVars, objectVars, nodeVars, HeapStays
<1>s. EndStatement \/ Call \/ PushScope \/ PopScope \/ Return \/ MainExit \/ Execute =>
          mode # "sweep"
  BY DEF EndStatement, Call, PushScope, PopScope, Return, MainExit, Execute, Running
<1>2. CASE EndStatement \/ PushScope \/ PopScope \/ Return \/ MainExit
  <2> USE <1>2 DEF EndStatement, PushScope, PopScope, Return, MainExit, Running, controlVars,
                   managerVars
  <2>1. ret' = ret /\ idxCurrentStack' = idxCurrentStack /\ why # "clear"
    BY DEF NoUnwinding
  <2>2. mode # "sweep"
    BY <1>s
  <2> QED  BY <1>1, <2>1, <2>2, StayingLosesNothing DEF LeftLevelsAreSwept, HeapStays, nodeVars
<1>3. CASE Call \/ Execute
  <2>1. ret' = ret /\ idxCurrentStack' >= idxCurrentStack /\ why # "clear" /\ why' = why
    BY <1>3, <1>l DEF Call, Execute, controlVars, Running, NoUnwinding, Control, Levels
  <2>2. idxCurrentStack' \in Int
    BY <1>3, <1>l DEF Call, Execute, Levels
  <2>3. \A l \in Levels : l > idxCurrentStack' => l > idxCurrentStack
    BY <2>1, <2>2, <1>l DEF Levels
  <2>4. mode # "sweep"
    BY <1>s, <1>3
  <2> QED
    BY <1>1, <2>1, <2>3, <2>4, StayingLosesNothing DEF LeftLevelsAreSwept, HeapStays, nodeVars
<1>4. CASE clearGlobals \/ BeginSweep \/ SweepVisit
  <2>1. ret' = ret /\ idxCurrentStack' = idxCurrentStack /\ (why' # "clear" => why' = why)
        /\ (mode = "sweep" => mode' = mode /\ why' = why)
    BY <1>4 DEF clearGlobals, BeginSweep, SweepVisit, RemoveVisit, managerVars
  <2> QED
    BY <1>1, <2>1, StayingLosesNothing DEF LeftLevelsAreSwept, HeapStays, nodeVars
<1>5. CASE EndBlock \/ EndScope
  <2>1. ret' = ret /\ idxCurrentStack' = idxCurrentStack /\ why \notin {"clear", "main"}
    BY <1>5 DEF EndBlock, EndScope, managerVars, NoUnwinding
  <2> QED
    BY <1>1, <2>1, StayingLosesNothing DEF LeftLevelsAreSwept, HeapStays, nodeVars
<1>6. CASE LeaveFunction
  <2>1. why = "return" /\ mode = "sweep" /\ zero_shares[idxCurrentStack] = {}
        /\ idxCurrentStack' = idxCurrentStack - 1
    BY <1>6 DEF LeaveFunction, Swept
  <2>2. idxCurrentStack >= 2 /\ ret' = ret
    <3>1. frame # 0 /\ entry = "main" /\ idxCurrentStack >= 1
      BY <2>1 DEF Control, Tidy, ObjectTypeOK
    <3>2. idxCurrentStack # 1
      BY <3>1 DEF frame
    <3> QED  BY <1>6, <1>l, <3>1, <3>2 DEF LeaveFunction, Levels
  <2>3. \A l \in Levels : l > idxCurrentStack' => l > idxCurrentStack \/ l = idxCurrentStack
    BY <2>1, <1>l DEF Levels
  <2>4. LeftLevelsAreSwept'
    BY <1>1, <2>1, <2>3 DEF LeftLevelsAreSwept, HeapStays, nodeVars
  <2> QED  BY <1>1, <2>1, <2>2, <2>4, StayingLosesNothing
<1>7. CASE LeaveMachine
  <2>1. /\ why \in {"main", "clear"} /\ mode = "sweep" /\ zero_shares[idxCurrentStack] = {}
        /\ idxCurrentStack' = 0 /\ ret' = ret
    BY <1>7 DEF LeaveMachine, Swept, NoUnwinding
  <2>2. idxCurrentStack = 0 \/ (idxCurrentStack = 1 /\ why = "main")
    BY <2>1 DEF Control
  <2>3. \A l \in Levels : l = 0 \/ l = 1 \/ l > 1
    BY DEF Levels
  <2>4. \A l \in Levels : zero_shares[l] = {}
    BY <2>1, <2>2, <2>3 DEF LeftLevelsAreSwept, Levels
  <2>5. LeftLevelsAreSwept'
    BY <1>1, <2>4 DEF LeftLevelsAreSwept, HeapStays, nodeVars
  <2> QED  BY <1>1, <2>1, <2>5, StayingLosesNothing
<1> QED  BY <1>2, <1>3, <1>4, <1>5, <1>6, <1>7

\* The returned object is the one that may be without a node.
LEMMA ReturnLosesNothing ==
    ASSUME Tidy, TidyInv, ReturnObject
    PROVE  NothingLost' /\ LeftLevelsAreSwept'
<1> USE DEF TidyInv, ExactInv, IInv, IObject
<1> PICK o \in Loadable : ReturnObject!(o)
  BY DEF ReturnObject
<1>1. ret = Null /\ why # "clear"
  BY DEF Result, NoUnwinding, Running
<1>2. /\ UNCHANGED <<nodeVars, state, idxCurrentStack>> /\ ret' = o /\ why' = "return"
      /\ \A p \in Object : nodeOf'[p] = IF p = o THEN Null ELSE nodeOf[p]
  BY DEF ObjectTypeOK, managerVars, nodeVars
<1>3. NothingLost'
  BY <1>1, <1>2, NullAssumption DEF NothingLost, Listed, Condemned, Running, nodeVars
<1>4. LeftLevelsAreSwept'
  BY <1>1, <1>2 DEF LeftLevelsAreSwept, nodeVars
<1> QED  BY <1>3, <1>4

\* The object that main returns is a candidate: it has no share.
LEMMA MainReturnLosesNothing ==
    ASSUME Tidy, TidyInv, MainReturnsObject
    PROVE  NothingLost' /\ LeftLevelsAreSwept'
<1> USE DEF TidyInv, ExactInv, IInv, IObject, IManager, ManagerInv
<1> PICK o \in Loadable : MainReturnsObject!(o)
  BY DEF MainReturnsObject
<1> Disciplined /\ Running
  BY DEF Tidy, NoOverwriting
<1>1. ret = Null /\ why # "clear"
  BY DEF Result, NoUnwinding, Running
<1>2. /\ UNCHANGED <<nodeVars, state, idxCurrentStack, ret>> /\ why' = "main" /\ mode' = "sweep"
      /\ \A p \in Object : nodeOf'[p] = IF p = o THEN Null ELSE nodeOf[p]
  BY DEF ObjectTypeOK, managerVars, nodeVars
<1>3. o \in Object /\ nodeOf[o] # Null /\ nodeOf[o] \in Node
      /\ \A l \in Levels : nodeOf[o] \in zero_shares[l] => l = idxCurrentStack
  BY LoadedObject
<1>4. n_shares[nodeOf[o]] = 0
  <2>1. Holders(o) = {}
    BY <1>3, RefsAreHolders DEF Disciplined
  <2> QED  BY <1>3, <2>1, FS_EmptySet DEF ExactCounts
<1>5. nodeOf[o] \in zero_shares[idxCurrentStack]
  <2>1. nodeOf[o] \in zero_shares[currentStack[nodeOf[o]]]
    BY <1>4, LoadedIsListed
  <2> QED  BY <1>3, <2>1 DEF ManagerTypeOK
<1>6. Condemned(o)'
  BY <1>2, <1>3, <1>5 DEF Condemned, nodeVars, OwnNode
<1>7. NothingLost'
  BY <1>1, <1>2, <1>6, NullAssumption DEF NothingLost, Listed, Condemned, nodeVars, Running
<1>8. LeftLevelsAreSwept'
  BY <1>1, <1>2 DEF LeftLevelsAreSwept, nodeVars
<1> QED  BY <1>7, <1>8

LEMMA NewLosesNothing ==
    ASSUME Tidy, TidyInv, NewObject \/ TakeResult
    PROVE  NothingLost' /\ LeftLevelsAreSwept'
<1> USE DEF TidyInv, ExactInv, IInv, IObject
<1>1. CASE NewObject
  <2> PICK o \in Object, nd \in Node, k \in Kinds : NewObject!(o, nd, k)
    BY <1>1 DEF NewObject
  <2>1. /\ ret' = ret /\ idxCurrentStack' = idxCurrentStack /\ idxCurrentStack >= 1
        /\ why # "clear" /\ mode # "sweep" /\ \A p \in Object : p # o => state'[p] = state[p]
    BY DEF controlVars, Control, NoUnwinding, Running, ObjectTypeOK
  <2> QED  BY <2>1, NewIsListed
<1>2. CASE TakeResult
  <2> PICK nd \in Node : TakeResult!(nd)
    BY <1>2 DEF TakeResult
  <2>1. /\ ret \in Object /\ idxCurrentStack' = idxCurrentStack /\ idxCurrentStack >= 1
        /\ why # "clear" /\ mode # "sweep" /\ state' = state /\ ret' = Null
    BY DEF Control, NoUnwinding, ObjectTypeOK
  <2>2. PICK o \in Object : o = ret
    BY <2>1
  <2>3. NothingLost' /\ LeftLevelsAreSwept'
    BY <2>1, <2>2, NewIsListed
  <2> QED  BY <2>3
<1> QED  BY <1>1, <1>2

\* Scripts without errors do not unwind, and a walk has its last candidate for
\* itself: there are no members that could bring others.
LEMMA TidyControl ==
    ASSUME Tidy, TidyInv, [Next]_vars
    PROVE  NoUnwinding' /\ LastIsLast'
<1> USE DEF TidyInv, ExactInv, IInv, IObject, IManager
<1>1. NoUnwinding'
  BY DEF Next, Script, Machine, vars, controlVars, Running, Swept, Tidy, NoUnwinding,
     NewObject, StoreObject, StorePrimitive, EndStatement, Call, PushScope, PopScope, Return,
     ReturnObject, MainReturnsObject, MainExit, stackDumped, Execute, clearGlobals, TakeResult, UnrefElement, PopLocal,
     BeginSweep, SweepVisit, ReleaseMember, SweepFree, EndBlock, EndScope, LeaveFunction,
     LeaveMachine
<1>2. LastIsLast'
  <2>1. CASE SweepVisit
    BY <2>1 DEF SweepVisit, RemoveVisit, LastIsLast, nodeVars
  <2>2. CASE SweepFree
    BY <2>2 DEF SweepFree, RemoveFree, LastIsLast
  <2>3. CASE ReleaseMember
    BY <2>3 DEF ReleaseMember, Tidy, ObjectTypeOK
  <2>4. CASE UNCHANGED vars
    BY <2>4 DEF vars, managerVars, LastIsLast
  <2>5. CASE UnrefElement
    BY <2>5 DEF UnrefElement, Control
  <2>6. CASE Swept /\ UNCHANGED sweepVars
    BY <2>6 DEF Swept, sweepVars, LastIsLast
  <2>7. CASE mode # "sweep" /\ UNCHANGED sweepVars
    BY <2>7 DEF sweepVars, LastIsLast, Control, SweptNodeIsCandidate
  <2>8. CASE EndBlock \/ EndScope \/ LeaveFunction \/ LeaveMachine
    BY <2>6, <2>8 DEF EndBlock, EndScope, LeaveFunction, LeaveMachine, managerVars, sweepVars
  <2>9. CASE \/ NewObject \/ StoreObject \/ StorePrimitive \/ EndStatement \/ Call \/ PushScope
             \/ PopScope \/ Return \/ ReturnObject \/ MainReturnsObject \/ MainExit
             \/ stackDumped \/ Execute \/ clearGlobals \/ TakeResult
    <3> USE DEF NewObject, StoreObject, StorePrimitive, EndStatement, Call, PushScope, PopScope,
                Return, ReturnObject, MainReturnsObject, MainExit, stackDumped, Execute,
                clearGlobals, TakeResult
    <3>1. mode # "sweep" /\ UNCHANGED sweepVars
      BY <2>9 DEF Running, managerVars, sweepVars
    <3> QED  BY <2>7, <3>1
  <2>10. CASE PopLocal \/ BeginSweep
    <3>1. mode # "sweep" /\ UNCHANGED sweepVars
      BY <2>10 DEF PopLocal, BeginSweep, managerVars, sweepVars
    <3> QED  BY <2>7, <3>1
  <2> QED
    BY <2>1, <2>2, <2>3, <2>4, <2>5, <2>8, <2>9, <2>10 DEF Next, Script, Machine
<1> QED  BY <1>1, <1>2

LEMMA TidyInductive == Tidy /\ TidyInv /\ [Next]_vars => TidyInv'
<1> SUFFICES ASSUME Tidy, TidyInv, [Next]_vars PROVE TidyInv'
  OBVIOUS
<1>1. ExactInv'
  BY ExactInductive DEF Tidy, TidyInv
<1>2. NothingLost' /\ LeftLevelsAreSwept'
  <2>1. CASE NewObject \/ TakeResult
    BY <2>1, NewLosesNothing
  <2>2. CASE StoreObject
    BY <2>2, StoreLosesNothing
  <2>3. CASE StorePrimitive \/ PopLocal
    BY <2>3, ReleasesLoseNothing
  <2>4. CASE ReturnObject \/ MainReturnsObject
    BY <2>4, ReturnLosesNothing, MainReturnLosesNothing
  <2>5. CASE SweepFree
    BY <2>5, SweepFreeLosesNothing
  <2>6. CASE stackDumped
    BY <2>6 DEF stackDumped, Tidy
  <2>7. CASE ReleaseMember
    BY <2>7 DEF ReleaseMember, Tidy, TidyInv, ExactInv, IInv, IObject, ObjectTypeOK
  <2>8. CASE UnrefElement
    BY <2>8 DEF UnrefElement, TidyInv, ExactInv, IInv, IObject, Control
  <2>9. CASE UNCHANGED vars
    <3>1. HeapStays /\ ret' = ret /\ UNCHANGED <<idxCurrentStack, why, mode>>
      BY <2>9 DEF vars, managerVars, objectVars, controlVars, nodeVars, HeapStays
    <3> QED
      BY <3>1, StayingLosesNothing DEF TidyInv, LeftLevelsAreSwept, HeapStays, nodeVars
  <2>10. CASE \/ EndStatement \/ Call \/ PushScope \/ PopScope \/ Return \/ MainExit
              \/ Execute \/ clearGlobals \/ BeginSweep \/ SweepVisit \/ EndBlock \/ EndScope
              \/ LeaveFunction \/ LeaveMachine
    BY <2>10, OthersLoseNothing
  <2> QED
    BY <2>1, <2>2, <2>3, <2>4, <2>5, <2>6, <2>7, <2>8, <2>9, <2>10 DEF Next, Script, Machine
<1> QED  BY <1>1, <1>2, TidyControl DEF TidyInv

\* Whenever C++ has the machine again, every object that exists has a reference:
\* the sweeps of scopes, functions and main have found all others, at whichever
\* level they lost their last share.
THEOREM MainLeavesNoGarbage == ASSUME Tidy PROVE Spec => []NoGarbageAfterMain
<1>1. Init => TidyInv
  <2> SUFFICES ASSUME Init PROVE TidyInv
    OBVIOUS
  <2>1. ExactInv
    BY ExactInitial
  <2>2. NothingLost /\ LeftLevelsAreSwept /\ NoUnwinding /\ LastIsLast
    BY DEF Init, ManagerInit, NothingLost, LeftLevelsAreSwept, NoUnwinding, LastIsLast
  <2> QED  BY <2>1, <2>2 DEF TidyInv
<1>2. TidyInv /\ [Next]_vars => TidyInv'
  BY TidyInductive
<1> QED  BY <1>1, <1>2, TidyMeansNoGarbage, PTL DEF Spec

-----------------------------------------------------------------------------
(* The variables of functions.                                              *)

\* What follows holds of objects of all kinds and of all that scripts do.
IsUndefined(f, v) == value[<<f, v>>].type = "undefined"

\* What a variable can begin with: in a function that C++ calls, an operand
\* that an earlier function has left in its cell.
BeginsWell(f, v) == IsUndefined(f, v) \/ (f = 1 /\ value[<<f, v>>].ref \in cells)

\* A variable whose scope is not open holds no more than that.
ClosedVars ==
    \A f \in Frames, v \in Var : depth[f] < ScopeOf(f, v) => BeginsWell(f, v)

\* So is one that the popping of its scope has visited.
VisitedVars ==
    mode \in {"pop", "sweep"} /\ why \in {"block", "return", "error"} =>
        \A v \in ScopeVars(PoppedFrame, depth[PoppedFrame]) \ popping :
            IsUndefined(PoppedFrame, v)

FramesTyped ==
    /\ idxCurrentStack \in Levels
    /\ depth \in [Frames -> 0..2]
    /\ value = [s \in Slot |-> value[s]]
    /\ mode \in {"idle", "run", "pop", "sweep", "result"}
    /\ "leftovers" \notin Features => cells = {}

\* Which frames are open in each mode.
OpenLevels ==
    /\ mode = "idle" => idxCurrentStack = 0
    /\ mode \in {"run", "result"} => idxCurrentStack >= 1
    /\ mode # "pop" => popping = {}
    /\ \A f \in Frames : f > idxCurrentStack => depth[f] = 0
    /\ "noMain" \in Features => entry # "main"
    /\ idxCurrentStack = 0 => entry = "none"
    /\ entry # "main" => depth[0] = 0
    /\ idxCurrentStack >= 1 => entry \in {"main", "C"}
    /\ entry # "C" => depth[1] = 0
    /\ mode \in {"pop", "sweep"} =>
          \/ why = "clear" /\ idxCurrentStack = 0
          \/ why = "block" /\ idxCurrentStack >= 1 /\ depth[frame] >= 1
          \/ why = "return" /\ idxCurrentStack >= 1 /\ frame # 0
          \/ why = "error" /\ OpenFrames # {}
          \/ why = "main" /\ idxCurrentStack >= 1 /\ frame = 0 /\ depth[0] = 0

VarInv == FramesTyped /\ OpenLevels /\ ClosedVars /\ VisitedVars

LEMMA FrameIsKnown ==
    ASSUME FramesTyped
    PROVE  /\ frame \in Frames /\ 0 \in Frames /\ 1 \in Frames
           /\ idxCurrentStack \in Nat /\ MaxLevel \in Nat
           /\ frame # 0 => frame = idxCurrentStack
           /\ \A f \in Frames : f \in Nat
BY BoundAssumption DEF FramesTyped, frame, Frames, Levels

\* What operands leave is forgotten only with the whole stack (clearGlobals).
CellsStay == cells \subseteq cells' /\ ("leftovers" \notin Features => cells' = cells)

LEMMA ClosedStays ==
    ASSUME CellsStay, NEW f \in Frames, NEW v \in Var, BeginsWell(f, v),
           value'[<<f, v>>] = value[<<f, v>>]
    PROVE  BeginsWell(f, v)'
BY DEF BeginsWell, IsUndefined, CellsStay

LEMMA VariableSlots ==
    ASSUME NEW f \in Frames, NEW v \in Var
    PROVE  <<f, v>> \in Slot /\ <<f, v>> \in FrameSlot
BY DEF Slot, FrameSlot

LEMMA LiveVariable ==
    ASSUME NEW f \in Frames, NEW v \in Var, <<f, v>> \in LiveSlots
    PROVE  depth[f] >= ScopeOf(f, v)
BY VariableSlots, DistinctAssumption DEF LiveSlots, FrameSlot, MemberSlot

\* The frame whose scope is popped.
LEMMA PoppedIsKnown ==
    ASSUME VarInv, mode \in {"pop", "sweep"}
    PROVE  /\ PoppedFrame \in Frames
           /\ why \in {"block", "error"} => depth[PoppedFrame] >= 1
           /\ why = "clear" => PoppedFrame = 0
           /\ why = "error" => PoppedFrame = TopFrame
           /\ why \in {"block", "return"} => PoppedFrame = frame
<1> USE DEF VarInv
<1>1. CASE why = "error"
  BY <1>1, TopFrameIsOpen DEF PoppedFrame, OpenLevels, OpenFrames, FramesTyped
<1>2. CASE why # "error"
  BY <1>2, FrameIsKnown DEF PoppedFrame, OpenLevels
<1> QED  BY <1>1, <1>2

\* What Execute leaves to a function that C++ calls.
LEMMA LeftInCells ==
    ASSUME NEW f \in Frames, NEW v \in Var, NEW left \in [Var -> cells \cup {Null}],
           value' = [s \in Slot |-> IF s \in {1} \X Var /\ left[s[2]] # Null
                                     THEN [type |-> "object", ref |-> left[s[2]]] ELSE value[s]]
    PROVE  value'[<<f, v>>] = value[<<f, v>>] \/ (f = 1 /\ value'[<<f, v>>].ref \in cells)
<1>1. <<f, v>> \in Slot
  BY VariableSlots
<1>2. CASE <<f, v>> \in {1} \X Var /\ left[v] # Null
  <2>1. f = 1 /\ left[v] \in cells
    BY <1>2
  <2>2. value'[<<f, v>>] = [type |-> "object", ref |-> left[v]]
    BY <1>1, <1>2
  <2> QED  BY <2>1, <2>2
<1>3. CASE ~(<<f, v>> \in {1} \X Var /\ left[v] # Null)
  BY <1>1, <1>3
<1> QED  BY <1>2, <1>3

-----------------------------------------------------------------------------
\* A store reaches variables of open scopes only.
StoresToLive ==
    \A f \in Frames, v \in Var :
        value'[<<f, v>>] = value[<<f, v>>] \/ depth[f] >= ScopeOf(f, v)

LEMMA StoresAreLive ==
    ASSUME VarInv,
           StoreObject \/ StorePrimitive \/ EndStatement
    PROVE  StoresToLive /\ value' = [s \in Slot |-> value'[s]]
<1> USE DEF VarInv, FramesTyped
<1>1. CASE StoreObject
  <2> PICK dst \in Targets, o \in Loadable : StoreObject!(dst, o)
    BY <1>1 DEF StoreObject
  <2>1. dst \in LiveSlots /\ dst \in Slot
    BY DEF Targets, LiveSlots, Slot
  <2>2. \A s \in Slot : s # dst => value'[s] = value[s]
    BY <2>1
  <2>3. StoresToLive
    BY <2>1, <2>2, VariableSlots, LiveVariable DEF StoresToLive
  <2> QED  BY <2>3
<1>2. CASE StorePrimitive
  <2> PICK dst \in Targets : value' = [value EXCEPT ![dst].type = "primitive"]
    BY <1>2 DEF StorePrimitive
  <2>1. dst \in LiveSlots /\ dst \in Slot
    BY DEF Targets, LiveSlots, Slot
  <2>2. \A s \in Slot : s # dst => value'[s] = value[s]
    BY <2>1
  <2>3. StoresToLive
    BY <2>1, <2>2, VariableSlots, LiveVariable DEF StoresToLive
  <2> QED  BY <2>3
<1>3. CASE EndStatement
  BY <1>3 DEF EndStatement, StoresToLive
<1> QED  BY <1>1, <1>2, <1>3

\* The instructions of a running script.
LEMMA ScriptKeepsVars ==
    ASSUME VarInv,
           \/ NewObject \/ StoreObject \/ StorePrimitive \/ EndStatement \/ TakeResult
    PROVE  VarInv'
<1> USE DEF VarInv
<1>1. /\ UNCHANGED <<idxCurrentStack, depth, entry, popping>>
      /\ mode \in {"run", "result"} /\ mode' = "run" /\ CellsStay
  BY DEF NewObject, StoreObject, StorePrimitive, EndStatement, TakeResult, Running, controlVars,
         managerVars, CellsStay, Dropped
<1>2. StoresToLive /\ value' = [s \in Slot |-> value'[s]]
  <2>1. CASE NewObject \/ TakeResult
    BY <2>1 DEF NewObject, TakeResult, StoresToLive, FramesTyped
  <2> QED  BY <2>1, StoresAreLive
<1>3. FramesTyped' /\ OpenLevels'
  BY <1>1, <1>2 DEF FramesTyped, OpenLevels, CellsStay
<1>4. ClosedVars'
  <2> SUFFICES ASSUME NEW f \in Frames, NEW v \in Var, depth[f] < ScopeOf(f, v)
               PROVE  BeginsWell(f, v)'
    BY <1>1 DEF ClosedVars, ScopeOf, BodyDepth
  <2>1. ~(depth[f] >= ScopeOf(f, v))
    BY DEF ScopeOf, BodyDepth, FramesTyped
  <2>2. value'[<<f, v>>] = value[<<f, v>>]
    BY <1>2, <2>1 DEF StoresToLive
  <2> QED  BY <1>1, <2>2, ClosedStays DEF ClosedVars
<1>5. VisitedVars'
  BY <1>1 DEF VisitedVars
<1> QED  BY <1>3, <1>4, <1>5

\* Calls, blocks, and the ways out of a running script.
LEMMA ControlKeepsVars ==
    ASSUME VarInv,
           \/ Call \/ PushScope \/ PopScope \/ Return \/ ReturnObject \/ MainReturnsObject
           \/ MainExit \/ stackDumped \/ Execute \/ clearGlobals
    PROVE  VarInv'
<1> USE DEF VarInv, Running, managerVars, objectVars
<1>c. CellsStay
  BY DEF CellsStay, Dropped, Call, PushScope, PopScope, Return, ReturnObject, MainReturnsObject,
         MainExit, stackDumped, Execute, clearGlobals
<1>d. "leftovers" \notin Features => cells' = {}
  BY <1>c DEF CellsStay, FramesTyped
<1>f. /\ frame \in Frames /\ 0 \in Frames /\ 1 \in Frames
      /\ idxCurrentStack \in Nat /\ MaxLevel \in Nat
      /\ frame # 0 => frame = idxCurrentStack
      /\ \A f \in Frames : f \in Nat /\ depth[f] \in 0..2
  BY FrameIsKnown DEF FramesTyped
<1>1. CASE Call
  <2> DEFINE n == idxCurrentStack + 1
  <2>0. n \in Frames /\ n \in Levels /\ n # 0 /\ n >= 2 /\ mode = "run" /\ mode' = "run"
        /\ popping' = popping
    BY <1>1, <1>f DEF Call, Frames, Levels, OpenLevels, controlVars
  <2>1. /\ depth' = [depth EXCEPT ![n] = 1] /\ idxCurrentStack' = n /\ entry' = entry
        /\ \A v \in Var : value'[<<n, v>>].type = "undefined"
        /\ \A f \in Frames, v \in Var : f # n => value'[<<f, v>>] = value[<<f, v>>]
        /\ value' = [s \in Slot |-> value'[s]]
    BY <1>1, <2>0, VariableSlots DEF Call, Undefined
  <2>2. FramesTyped'
    BY <1>d, <2>0, <2>1 DEF FramesTyped
  <2>3. ClosedVars'
    <3> SUFFICES ASSUME NEW f \in Frames, NEW v \in Var, depth'[f] < ScopeOf(f, v)
                 PROVE  BeginsWell(f, v)'
      BY <2>1 DEF ClosedVars, ScopeOf, BodyDepth
    <3>1. CASE f = n
      BY <2>1, <3>1 DEF BeginsWell, IsUndefined
    <3>2. CASE f # n
      <4>1. depth'[f] = depth[f] /\ value'[<<f, v>>] = value[<<f, v>>]
        BY <2>1, <3>2 DEF FramesTyped
      <4> QED  BY <1>c, <4>1, ClosedStays DEF ClosedVars
    <3> QED  BY <3>1, <3>2
  <2>4. \A f \in Frames : f > n => f > idxCurrentStack /\ f # n
    BY <1>f
  <2>5. OpenLevels'
    BY <1>f, <2>0, <2>1, <2>4 DEF OpenLevels, FramesTyped
  <2>6. VisitedVars'
    BY <2>0 DEF VisitedVars
  <2> QED  BY <2>2, <2>3, <2>5, <2>6
<1>2. CASE PushScope
  <2>1. /\ UNCHANGED <<idxCurrentStack, entry, value, mode, popping>> /\ mode = "run"
        /\ depth' = [depth EXCEPT ![frame] = depth[frame] + 1] /\ depth[frame] + 1 \in 1..2
    BY <1>2, <1>f, BlockAssumption DEF PushScope, controlVars, BodyDepth
  <2>2. \A f \in Frames : depth'[f] \in 0..2 /\ depth'[f] >= depth[f] /\ (f # frame => depth'[f] = depth[f])
    BY <1>f, <2>1 DEF FramesTyped
  <2>3. FramesTyped'
    BY <1>d, <1>f, <2>1 DEF FramesTyped
  <2>4. ClosedVars'
    <3> SUFFICES ASSUME NEW f \in Frames, NEW v \in Var, depth'[f] < ScopeOf(f, v)
                 PROVE  BeginsWell(f, v)'
      BY <2>1 DEF ClosedVars, ScopeOf, BodyDepth
    <3>1. depth[f] < ScopeOf(f, v)
      BY <1>f, <2>2 DEF ScopeOf, BodyDepth
    <3> QED  BY <1>c, <2>1, <3>1, ClosedStays DEF ClosedVars
  <2>5. OpenLevels'
    <3>1. entry # "C" => frame # 1
      BY <1>f, <2>1 DEF OpenLevels, frame
    <3>2. \A f \in Frames : f > idxCurrentStack => f # frame
      BY <1>f
    <3>3. entry # "main" => frame # 0
      BY <1>f, <2>1 DEF OpenLevels, frame
    <3> QED  BY <1>f, <2>1, <2>2, <3>1, <3>2, <3>3 DEF OpenLevels
  <2>6. VisitedVars'
    BY <2>1 DEF VisitedVars
  <2> QED  BY <2>3, <2>4, <2>5, <2>6
<1>3. CASE \/ PopScope \/ Return \/ ReturnObject \/ MainReturnsObject \/ MainExit
           \/ clearGlobals
  <2> USE <1>3 DEF PopScope, Return, ReturnObject, MainReturnsObject, MainExit, clearGlobals
  <2>1. /\ UNCHANGED <<idxCurrentStack, entry, value, depth>>
        /\ frame' = frame /\ mode' \in {"pop", "sweep"} /\ mode \in {"run", "idle"}
    BY DEF frame
  <2>2. /\ mode' = "sweep" => popping' = {}
        /\ why' = "main" => frame = 0 /\ idxCurrentStack >= 1 /\ depth[0] = 0
        /\ why' \in {"main", "block", "return", "clear"}
        /\ why' = "block" => depth[frame] >= 1 /\ idxCurrentStack >= 1
        /\ why' = "return" => frame # 0 /\ idxCurrentStack >= 1
        /\ why' = "clear" => idxCurrentStack = 0
        /\ why' \in {"block", "return"} => popping' = ScopeVars(frame, depth[frame])
    BY <1>f DEF OpenLevels, BodyDepth
  <2>3. FramesTyped' /\ OpenLevels'
    BY <1>d, <2>1, <2>2 DEF FramesTyped, OpenLevels
  <2>4. ClosedVars'
    BY <1>c, <2>1, ClosedStays DEF ClosedVars, ScopeOf, BodyDepth
  <2>5. VisitedVars'
    BY <2>1, <2>2 DEF VisitedVars, PoppedFrame, ScopeVars, ScopeOf, BodyDepth
  <2> QED  BY <2>3, <2>4, <2>5
<1>4. CASE stackDumped
  <2>1. /\ UNCHANGED <<value, depth>> /\ OpenFrames' = OpenFrames /\ TopFrame' = TopFrame
        /\ mode = "run"
    BY <1>4 DEF stackDumped, OpenFrames, TopFrame
  <2>2. ClosedVars'
    BY <1>c, <2>1, ClosedStays DEF ClosedVars, ScopeOf, BodyDepth
  <2>3. CASE OpenFrames = {}
    <3>1. /\ idxCurrentStack' = 0 /\ entry' = "none" /\ mode' = "idle" /\ popping' = popping
      BY <1>4, <2>3 DEF stackDumped
    <3>2. \A f \in Frames : depth[f] = 0
      BY <1>f, <2>3 DEF OpenFrames
    <3>3. FramesTyped' /\ OpenLevels'
      BY <1>d, <1>f, <2>1, <3>1, <3>2 DEF FramesTyped, OpenLevels, Levels
    <3> QED  BY <2>2, <3>1, <3>3 DEF VisitedVars
  <2>4. CASE OpenFrames # {}
    <3>1. /\ UNCHANGED <<idxCurrentStack, entry>> /\ mode' = "pop" /\ why' = "error"
          /\ popping' = ScopeVars(TopFrame, depth[TopFrame])
      BY <1>4, <2>4 DEF stackDumped
    <3>2. FramesTyped' /\ OpenLevels'
      BY <1>d, <2>1, <2>4, <3>1 DEF FramesTyped, OpenLevels
    <3>3. VisitedVars'
      BY <2>1, <3>1 DEF VisitedVars, PoppedFrame, ScopeVars, ScopeOf, BodyDepth
    <3> QED  BY <2>2, <3>2, <3>3
  <2> QED  BY <2>3, <2>4
<1>5. CASE Execute
  <2>1. /\ idxCurrentStack = 0 /\ idxCurrentStack' = 1 /\ mode' = "run" /\ popping' = {}
        /\ cells' = cells
    BY <1>5 DEF Execute, OpenLevels
  <2>2. \/ entry' = "main" /\ "noMain" \notin Features /\ depth' = depth /\ value' = value
        \/ /\ entry' = "C" /\ depth' = [depth EXCEPT ![1] = 1]
           /\ \E left \in [Var -> cells \cup {Null}] :
                 value' = [s \in Slot |->
                             IF s \in {1} \X Var /\ left[s[2]] # Null
                             THEN [type |-> "object", ref |-> left[s[2]]] ELSE value[s]]
    BY <1>5 DEF Execute
  <2>3. \A f \in Frames : /\ depth'[f] \in 0..2 /\ depth'[f] >= depth[f]
                          /\ f # 1 => depth'[f] = depth[f]
    BY <1>f, <2>1, <2>2 DEF OpenLevels, FramesTyped
  <2>4. FramesTyped'
    BY <1>d, <1>f, <2>1, <2>2, BoundAssumption DEF FramesTyped, Levels, Frames
  <2>5. ClosedVars'
    <3> SUFFICES ASSUME NEW f \in Frames, NEW v \in Var, depth'[f] < ScopeOf(f, v)
                 PROVE  BeginsWell(f, v)'
      BY <2>1 DEF ClosedVars, ScopeOf, BodyDepth
    <3>1. depth[f] < ScopeOf(f, v)
      BY <1>f, <2>3 DEF ScopeOf, BodyDepth
    <3>2. BeginsWell(f, v)
      BY <3>1 DEF ClosedVars
    <3>3. CASE value'[<<f, v>>] = value[<<f, v>>]
      BY <1>c, <3>2, <3>3, ClosedStays
    <3>4. CASE value'[<<f, v>>] # value[<<f, v>>]
      BY <2>1, <2>2, <3>4, LeftInCells DEF BeginsWell
    <3> QED  BY <3>3, <3>4
  <2>6. OpenLevels'
    BY <1>f, <2>1, <2>2, <2>3 DEF OpenLevels
  <2> QED  BY <2>1, <2>4, <2>5, <2>6 DEF VisitedVars
<1> QED  BY <1>1, <1>2, <1>3, <1>4, <1>5

-----------------------------------------------------------------------------
\* What a popping or a sweep writes is undefined.
OnlyUndefines ==
    /\ value' = [s \in Slot |-> value'[s]]
    /\ \A s \in Slot : value'[s] = value[s] \/ value'[s].type = "undefined"

LEMMA UndefiningKeepsVars ==
    ASSUME VarInv, OnlyUndefines, UNCHANGED <<idxCurrentStack, depth, entry, why, cells>>,
           mode' = mode \/ (mode = "pop" /\ mode' = "sweep" /\ popping' = {}),
           \A v \in Var : v \in popping /\ v \notin popping' => IsUndefined(PoppedFrame, v)',
           popping' \subseteq popping
    PROVE  VarInv'
<1> USE DEF VarInv
<1>1. PoppedFrame' = PoppedFrame /\ OpenFrames' = OpenFrames /\ frame' = frame
  BY SamePoppedFrame
<1>2. FramesTyped'
  BY DEF FramesTyped, OnlyUndefines
<1>3. OpenLevels'
  BY <1>1 DEF OpenLevels
<1>4. \A f \in Frames, v \in Var : IsUndefined(f, v) => IsUndefined(f, v)'
  BY VariableSlots DEF IsUndefined, OnlyUndefines
<1>5. ClosedVars'
  <2>1. \A f \in Frames, v \in Var : BeginsWell(f, v) => BeginsWell(f, v)'
    BY VariableSlots DEF BeginsWell, IsUndefined, OnlyUndefines
  <2> QED  BY <2>1 DEF ClosedVars, ScopeOf, BodyDepth
<1>6. VisitedVars'
  <2> SUFFICES ASSUME mode' \in {"pop", "sweep"}, why \in {"block", "return", "error"},
                      NEW v \in ScopeVars(PoppedFrame, depth[PoppedFrame]) \ popping'
               PROVE  IsUndefined(PoppedFrame, v)'
    BY <1>1 DEF VisitedVars, ScopeVars, ScopeOf, BodyDepth, IsUndefined
  <2>1. v \in Var /\ mode \in {"pop", "sweep"}
    BY DEF ScopeVars
  <2>2. CASE v \in popping
    BY <2>1, <2>2
  <2>3. CASE v \notin popping
    <3>1. IsUndefined(PoppedFrame, v)
      BY <2>1, <2>3 DEF VisitedVars
    <3>2. PoppedFrame \in Frames
      BY <2>1, PoppedIsKnown
    <3>3. IsUndefined(PoppedFrame, v)' <=> value'[<<PoppedFrame, v>>].type = "undefined"
      BY <1>1 DEF IsUndefined
    <3> QED  BY <2>1, <3>1, <3>2, <3>3, VariableSlots DEF IsUndefined, OnlyUndefines
  <2> QED  BY <2>2, <2>3
<1> QED  BY <1>2, <1>3, <1>5, <1>6

\* Popping, releasing and sweeping.
LEMMA UnwindingKeepsVars ==
    ASSUME VarInv,
           \/ UnrefElement \/ PopLocal \/ BeginSweep \/ SweepVisit \/ ReleaseMember \/ SweepFree
           \/ UNCHANGED vars
    PROVE  VarInv'
<1> USE DEF VarInv, objectVars
<1>1. CASE UnrefElement \/ BeginSweep \/ SweepVisit \/ UNCHANGED vars
  <2>1. /\ UNCHANGED <<depth, entry, why, value, cells, idxCurrentStack>>
        /\ popping' = popping
        /\ mode' = mode \/ (mode = "pop" /\ mode' = "sweep" /\ popping' = {})
    BY <1>1 DEF UnrefElement, BeginSweep, SweepVisit, RemoveVisit, vars, controlVars, managerVars
  <2>2. OnlyUndefines
    BY <2>1 DEF OnlyUndefines, FramesTyped
  <2> QED  BY <2>1, <2>2, UndefiningKeepsVars
<1>2. CASE PopLocal
  <2> PICK v \in popping : PopLocal!(v)
    BY <1>2 DEF PopLocal
  <2>1. /\ UNCHANGED <<depth, entry, why, mode, cells, idxCurrentStack>> /\ popping' = popping \ {v}
        /\ mode = "pop"
        /\ value' = [value EXCEPT ![<<PoppedFrame, v>>] = Undefined]
    OBVIOUS
  <2>2. PoppedFrame \in Frames /\ PoppedFrame' = PoppedFrame
    BY <2>1, PoppedIsKnown, SamePoppedFrame
  <2>3. OnlyUndefines
    <3> DEFINE s == <<PoppedFrame, v>>
    <3> HIDE DEF s
    <3>1. value' = [value EXCEPT ![s] = Undefined]
      BY <2>1 DEF s
    <3> QED  BY <3>1 DEF OnlyUndefines, FramesTyped, Undefined
  <2>4. \A w \in Var : w \in popping /\ w \notin popping' => IsUndefined(PoppedFrame, w)'
    <3> SUFFICES ASSUME v \in Var PROVE IsUndefined(PoppedFrame, v)'
      BY <2>1
    <3>1. <<PoppedFrame, v>> \in Slot
      BY <2>2, VariableSlots
    <3>2. value'[<<PoppedFrame, v>>] = Undefined
      BY <2>1, <3>1 DEF FramesTyped
    <3> QED  BY <2>2, <3>2 DEF IsUndefined, Undefined
  <2> QED  BY <2>1, <2>3, <2>4, UndefiningKeepsVars
<1>3. CASE ReleaseMember
  <2> PICK m \in pending : ReleaseMember!(m)
    BY <1>3 DEF ReleaseMember
  <2>1. /\ UNCHANGED <<depth, entry, why, mode, cells, idxCurrentStack, popping>>
        /\ value' = [value EXCEPT ![<<shared_ptr[current], m>>] = Undefined]
    OBVIOUS
  <2>2. OnlyUndefines
    BY <2>1 DEF OnlyUndefines, FramesTyped, Undefined
  <2> QED  BY <2>1, <2>2, UndefiningKeepsVars
<1>4. CASE SweepFree
  <2>1. UNCHANGED <<depth, entry, why, mode, cells, idxCurrentStack, popping>>
    BY <1>4 DEF SweepFree, RemoveFree, controlVars
  <2>2. OnlyUndefines
    BY <1>4 DEF SweepFree, OnlyUndefines, FramesTyped, Undefined
  <2> QED  BY <2>1, <2>2, UndefiningKeepsVars
<1> QED  BY <1>1, <1>2, <1>3, <1>4

-----------------------------------------------------------------------------
\* A scope that is left has been visited.
LEMMA LeftScopeIsClosed ==
    ASSUME VarInv, Swept, why \in {"block", "return", "error"},
           NEW v \in Var, depth[PoppedFrame] <= ScopeOf(PoppedFrame, v)
    PROVE  BeginsWell(PoppedFrame, v)
<1>1. mode = "sweep" /\ popping = {} /\ PoppedFrame \in Frames
  BY PoppedIsKnown DEF Swept, VarInv, OpenLevels
<1>2. depth[PoppedFrame] \in 0..2 /\ ScopeOf(PoppedFrame, v) \in 0..2
  BY <1>1 DEF VarInv, FramesTyped, ScopeOf, BodyDepth
<1>3. CASE depth[PoppedFrame] = ScopeOf(PoppedFrame, v)
  <2>1. v \in ScopeVars(PoppedFrame, depth[PoppedFrame])
    BY <1>3 DEF ScopeVars
  <2> QED  BY <1>1, <2>1 DEF VarInv, VisitedVars, BeginsWell
<1>4. CASE depth[PoppedFrame] < ScopeOf(PoppedFrame, v)
  BY <1>1, <1>4 DEF VarInv, ClosedVars
<1> QED  BY <1>2, <1>3, <1>4

\* Leaving the top scope of the frame that is popped.
LEMMA LeavingKeepsClosed ==
    ASSUME VarInv, Swept, why \in {"block", "return", "error"},
           value' = value, cells' = cells, depth'[PoppedFrame] = depth[PoppedFrame] - 1,
           \A f \in Frames : f # PoppedFrame => depth'[f] = depth[f]
    PROVE  ClosedVars'
<1> SUFFICES ASSUME NEW f \in Frames, NEW v \in Var, depth'[f] < ScopeOf(f, v)
             PROVE  BeginsWell(f, v)
  BY DEF ClosedVars, BeginsWell, IsUndefined, ScopeOf, BodyDepth
<1>1. f # PoppedFrame => BeginsWell(f, v)
  BY DEF VarInv, ClosedVars
<1>2. depth[f] \in 0..2 /\ ScopeOf(f, v) \in 0..2
  BY DEF VarInv, FramesTyped, ScopeOf, BodyDepth
<1>3. f = PoppedFrame => depth[PoppedFrame] <= ScopeOf(PoppedFrame, v)
  BY <1>2
<1> QED  BY <1>1, <1>3, LeftScopeIsClosed

LEMMA EndBlockKeepsVars ==
    ASSUME VarInv, EndBlock
    PROVE  VarInv'
<1> USE DEF VarInv, EndBlock, Swept, objectVars, managerVars
<1>1. /\ why = "block" /\ mode = "sweep" /\ mode' = "run" /\ popping' = {}
      /\ UNCHANGED <<idxCurrentStack, entry, value, cells>> /\ idxCurrentStack >= 1
      /\ PoppedFrame = frame /\ frame \in Frames /\ depth[frame] \in 1..2
      /\ frame <= idxCurrentStack
  BY FrameIsKnown DEF OpenLevels, PoppedFrame, FramesTyped, frame
<1>2. /\ depth'[frame] = depth[frame] - 1
      /\ \A f \in Frames : f # frame => depth'[f] = depth[f]
  BY <1>1 DEF FramesTyped
<1>3. ClosedVars'
  BY <1>1, <1>2, LeavingKeepsClosed
<1>4. FramesTyped'
  BY <1>1 DEF FramesTyped
<1>5. OpenLevels'
  <2>1. entry # "C" => frame # 1
    BY <1>1 DEF OpenLevels, frame
  <2>2. \A f \in Frames : f > idxCurrentStack => f # frame
    BY <1>1, FrameIsKnown
  <2> QED  BY <1>1, <1>2, <2>1, <2>2, FrameIsKnown DEF OpenLevels
<1>6. VisitedVars'
  BY <1>1 DEF VisitedVars
<1> QED  BY <1>3, <1>4, <1>5, <1>6

LEMMA EndScopeKeepsVars ==
    ASSUME VarInv, EndScope
    PROVE  VarInv'
<1> USE DEF VarInv, EndScope, Swept, objectVars, managerVars
<1> DEFINE p == PoppedFrame
<1>1. /\ why \in {"return", "error"} /\ mode = "sweep" /\ mode' = "pop"
      /\ UNCHANGED <<idxCurrentStack, entry, value, why, cells>>
      /\ idxCurrentStack' = idxCurrentStack
      /\ p \in Frames /\ depth[p] \in 1..2 /\ frame' = frame
      /\ why = "return" => p = frame /\ depth[p] > 1 /\ idxCurrentStack >= 1
      /\ why = "error" => p = TopFrame /\ (Cardinality(OpenFrames) > 1 \/ depth[p] > 1)
  BY PoppedIsKnown DEF OpenLevels, FramesTyped, frame
<1>2. /\ depth'[p] = depth[p] - 1
      /\ \A f \in Frames : f # p => depth'[f] = depth[f]
  BY <1>1 DEF FramesTyped
<1>3. ClosedVars'
  BY <1>1, <1>2, LeavingKeepsClosed
<1>4. FramesTyped'
  BY <1>1, <1>2 DEF FramesTyped
<1>5. /\ \A f \in Frames : depth[f] = 0 => depth'[f] = 0
      /\ depth'[p] >= 0
  <2> HIDE DEF p
  <2> QED  BY <1>1, <1>2
<1>6. OpenFrames' # {} /\ VisitedVars'
  <2>1. CASE depth[p] > 1
    <3>1. OpenFrames' = OpenFrames
      <4> HIDE DEF p
      <4> QED  BY <2>1, <1>1, <1>2 DEF OpenFrames, FramesTyped
    <3>2. TopFrame' = TopFrame
      BY <3>1 DEF TopFrame
    <3>3. PoppedFrame' = p
      BY <1>1, <3>2 DEF PoppedFrame
    <3>4. popping' = ScopeVars(p, depth'[p])
      BY <2>1, <1>2
    <3>5. p \in OpenFrames'
      BY <1>1, <1>2, <2>1 DEF OpenFrames
    <3>6. ScopeVars(p, depth'[p]) = ScopeVars(PoppedFrame, depth[PoppedFrame])'
      BY <3>3 DEF ScopeVars, ScopeOf, BodyDepth
    <3> QED  BY <3>4, <3>5, <3>6 DEF VisitedVars
  <2>2. CASE ~(depth[p] > 1)
    <3>0. why = "error" /\ p = TopFrame /\ depth[p] = 1
      BY <2>2, <1>1
    <3>1. OpenFrames' = OpenFrames \ {p}
      <4> HIDE DEF p
      <4> QED  BY <3>0, <1>1, <1>2 DEF OpenFrames, FramesTyped
    <3>2. OpenFrames' # {}
      <4>1. Cardinality(OpenFrames) > 1
        BY <3>0, <1>1
      <4>2. OpenFrames # {p}
        <5>1. Cardinality({p}) = 1
          BY FS_Singleton
        <5> QED  BY <4>1, <5>1
      <4>3. OpenFrames # {}
        BY <4>1, FS_EmptySet
      <4> QED  BY <3>1, <4>2, <4>3
    <3>3. TopFrame' = CHOOSE g \in OpenFrames \ {p} : \A h \in OpenFrames \ {p} : h <= g
      BY <3>1 DEF TopFrame
    <3>4. TopFrame' \in OpenFrames \ {p}
      <4>1. \E f \in OpenFrames \ {p} : \A g \in OpenFrames \ {p} : g <= f
        BY <3>1, <3>2, Topmost DEF OpenFrames
      <4> QED  BY <3>3, <4>1
    <3>5. popping' = ScopeVars(TopFrame', depth'[TopFrame'])
      <4>1. depth'[TopFrame'] = depth[TopFrame']
        BY <3>4, <1>2 DEF OpenFrames
      <4> QED  BY <3>0, <3>3, <3>4, <4>1
    <3>6. PoppedFrame' = TopFrame'
      BY <3>0 DEF PoppedFrame
    <3>7. ScopeVars(TopFrame', depth'[TopFrame']) = ScopeVars(PoppedFrame, depth[PoppedFrame])'
      BY <3>6 DEF ScopeVars, ScopeOf, BodyDepth
    <3> QED  BY <3>2, <3>5, <3>7 DEF VisitedVars
  <2> QED  BY <2>1, <2>2
<1>7. OpenLevels'
  BY <1>1, <1>5, <1>6 DEF OpenLevels
<1> QED  BY <1>3, <1>4, <1>6, <1>7

LEMMA LeaveFunctionKeepsVars ==
    ASSUME VarInv, LeaveFunction
    PROVE  VarInv'
<1> USE DEF VarInv, LeaveFunction, Swept
<1>1. /\ why = "return" /\ mode = "sweep" /\ popping' = {} /\ value' = value /\ cells' = cells
      /\ PoppedFrame = frame /\ frame \in Frames /\ depth[frame] = 1
      /\ frame = idxCurrentStack /\ idxCurrentStack >= 1 /\ idxCurrentStack \in Levels
      /\ idxCurrentStack' = idxCurrentStack - 1 /\ mode' \in {"idle", "run", "result"}
      /\ mode' = "idle" <=> idxCurrentStack = 1
      /\ entry' = entry \/ (entry' = "none" /\ idxCurrentStack' = 0)
  BY FrameIsKnown DEF OpenLevels, PoppedFrame, FramesTyped
<1>2. /\ depth'[frame] = depth[frame] - 1 /\ depth'[frame] = 0
      /\ \A f \in Frames : f # frame => depth'[f] = depth[f]
  BY <1>1 DEF FramesTyped
<1>3. ClosedVars'
  BY <1>1, <1>2, LeavingKeepsClosed
<1>4. FramesTyped'
  <2>1. depth' \in [Frames -> 0..2]
    <3>1. depth' = [depth EXCEPT ![frame] = 0] /\ depth \in [Frames -> 0..2] /\ 0 \in 0..2
      BY DEF FramesTyped
    <3> QED  BY <3>1
  <2>2. idxCurrentStack' \in Levels
    BY <1>1, BoundAssumption DEF Levels
  <2> QED  BY <1>1, <2>1, <2>2 DEF FramesTyped
<1>5. \A f \in Frames : (f > idxCurrentStack' => depth'[f] = 0) /\ (depth[f] = 0 => depth'[f] = 0)
  <2> SUFFICES ASSUME NEW f \in Frames, f # frame
               PROVE  (f > idxCurrentStack' => depth'[f] = 0) /\ (depth[f] = 0 => depth'[f] = 0)
    BY <1>2
  <2>1. f > idxCurrentStack' => f > idxCurrentStack
    BY <1>1, FrameIsKnown
  <2> QED  BY <1>2, <2>1 DEF OpenLevels
<1>6. /\ idxCurrentStack \in Nat /\ 0 \in Frames /\ 1 \in Frames
      /\ idxCurrentStack = 1 => entry # "main" /\ entry' = "none"
  BY <1>1, FrameIsKnown DEF frame
<1>7. OpenLevels'
  BY <1>1, <1>5, <1>6 DEF OpenLevels
<1>8. VisitedVars'
  BY <1>1 DEF VisitedVars
<1> QED  BY <1>3, <1>4, <1>7, <1>8

LEMMA LeaveMachineKeepsVars ==
    ASSUME VarInv, LeaveMachine
    PROVE  VarInv'
<1> USE DEF VarInv, LeaveMachine, Swept
<1>1. /\ why \in {"error", "main", "clear"} /\ mode = "sweep" /\ popping' = {} /\ mode' = "idle"
      /\ depth' = [f \in Frames |-> 0] /\ idxCurrentStack' = 0 /\ entry' = "none"
      /\ value' = [s \in Slot |-> value'[s]]
      /\ why # "clear" => value' = value /\ cells' = cells
      /\ why = "clear" => cells' = {} /\ \A f \in Frames, v \in Var : IsUndefined(f, v)'
  BY VariableSlots DEF OpenLevels, Undefined, FramesTyped, IsUndefined
<1>2. FramesTyped' /\ OpenLevels' /\ VisitedVars'
  BY <1>1, BoundAssumption, FrameIsKnown DEF FramesTyped, OpenLevels, VisitedVars, Levels
<1>3. ClosedVars'
  <2>0. CASE why = "clear"
    BY <1>1, <2>0 DEF ClosedVars, BeginsWell
  <2> SUFFICES ASSUME why # "clear", NEW f \in Frames, NEW v \in Var, 0 < ScopeOf(f, v)
               PROVE  BeginsWell(f, v)
    BY <1>1, <2>0 DEF ClosedVars, BeginsWell, IsUndefined, ScopeOf, BodyDepth
  <2>1. f \in Nat /\ ScopeOf(f, v) >= 1
    BY FrameIsKnown DEF ScopeOf, BodyDepth
  <2>c. depth[f] = 0 => BeginsWell(f, v)
    BY <2>1 DEF ClosedVars, ScopeOf, BodyDepth
  <2>2. SUFFICES ASSUME depth[f] # 0 PROVE BeginsWell(f, v)
    BY <2>c
  <2>3. CASE why = "error"
    <3>1. OpenFrames = {TopFrame} /\ depth[TopFrame] = 1
      <4>1. Cardinality(OpenFrames) = 1 /\ depth[TopFrame] = 1
        BY <2>3
      <4>2. \E x : OpenFrames = {x}
        BY <4>1, OpenFramesFinite, FS_Singleton
      <4>3. TopFrame \in OpenFrames
        BY <4>2, TopFrameIsOpen
      <4> QED  BY <4>1, <4>2, <4>3
    <3>2. f \in OpenFrames
      BY <2>2 DEF OpenFrames, FramesTyped
    <3>3. f = PoppedFrame
      BY <2>3, <3>1, <3>2 DEF PoppedFrame
    <3>4. depth[PoppedFrame] <= ScopeOf(PoppedFrame, v)
      BY <2>1, <2>3, <3>1, <3>2, <3>3 DEF ScopeOf, BodyDepth
    <3> QED  BY <2>3, <3>3, <3>4, LeftScopeIsClosed
  <2>4. CASE why = "main"
    <3>1. frame = 0 /\ idxCurrentStack >= 1 /\ idxCurrentStack \in Nat
      BY <1>1, <2>4, FrameIsKnown DEF OpenLevels
    <3>2. entry = "main" /\ idxCurrentStack = 1
      BY <3>1 DEF frame
    <3>3. depth[1] = 0
      BY <3>2 DEF OpenLevels
    <3>4. f # 0 /\ f > idxCurrentStack
      BY <1>1, <2>1, <2>2, <2>4, <3>2, <3>3 DEF OpenLevels
    <3> QED  BY <2>2, <3>4 DEF OpenLevels
  <2> QED  BY <1>1, <2>3, <2>4
<1> QED  BY <1>2, <1>3

-----------------------------------------------------------------------------
LEMMA VarInitial == Init => VarInv
<1> SUFFICES ASSUME Init PROVE VarInv
  OBVIOUS
<1> USE DEF Init, ManagerInit
<1>1. FramesTyped /\ OpenLevels
  BY BoundAssumption DEF FramesTyped, OpenLevels, Levels, Frames
<1>2. ClosedVars
  BY VariableSlots DEF ClosedVars, BeginsWell, IsUndefined, Undefined
<1>3. VisitedVars
  BY DEF VisitedVars
<1> QED  BY <1>1, <1>2, <1>3 DEF VarInv

LEMMA VarInductive == VarInv /\ [Next]_vars => VarInv'
<1> SUFFICES ASSUME VarInv, [Next]_vars PROVE VarInv'
  OBVIOUS
<1>1. CASE NewObject \/ StoreObject \/ StorePrimitive \/ EndStatement \/ TakeResult
  BY <1>1, ScriptKeepsVars
<1>2. CASE \/ Call \/ PushScope \/ PopScope \/ Return \/ ReturnObject \/ MainReturnsObject
           \/ MainExit \/ stackDumped \/ Execute \/ clearGlobals
  BY <1>2, ControlKeepsVars
<1>3. CASE \/ UnrefElement \/ PopLocal \/ BeginSweep \/ SweepVisit \/ ReleaseMember \/ SweepFree
           \/ UNCHANGED vars
  BY <1>3, UnwindingKeepsVars
<1>4. CASE EndBlock \/ EndScope \/ LeaveFunction \/ LeaveMachine
  BY <1>4, EndBlockKeepsVars, EndScopeKeepsVars, LeaveFunctionKeepsVars, LeaveMachineKeepsVars
<1> QED  BY <1>1, <1>2, <1>3, <1>4 DEF Next, Script, Machine

\* The frame that a step opens.
FrameOpens(f) == f # 0 /\ depth[f] = 0 /\ depth'[f] = 1

LEMMA OpenedBeginsWell ==
    ASSUME VarInv, [Next]_vars, NEW f \in Frames, FrameOpens(f), NEW v \in Var
    PROVE  value'[<<f, v>>].type = "undefined" \/ (f = 1 /\ value'[<<f, v>>].ref \in cells)
<1> USE DEF VarInv
<1>1. BeginsWell(f, v)
  BY DEF ClosedVars, FrameOpens, ScopeOf, BodyDepth
<1>2. CASE Call
  <2>1. value' = [s \in Slot |-> IF s \in {idxCurrentStack + 1} \X Var THEN Undefined ELSE value[s]]
    BY <1>2 DEF Call
  <2> QED  BY <1>1, <2>1, VariableSlots DEF Undefined, BeginsWell, IsUndefined
<1>3. CASE PushScope
  BY <1>1, <1>3 DEF PushScope, BeginsWell, IsUndefined
<1>e. CASE Execute
  <2>1. \/ value' = value
        \/ \E left \in [Var -> cells \cup {Null}] :
              value' = [s \in Slot |-> IF s \in {1} \X Var /\ left[s[2]] # Null
                                     THEN [type |-> "object", ref |-> left[s[2]]] ELSE value[s]]
    BY <1>e DEF Execute
  <2>2. value'[<<f, v>>] = value[<<f, v>>] \/ (f = 1 /\ value'[<<f, v>>].ref \in cells)
    BY <2>1, LeftInCells
  <2> QED  BY <1>1, <2>2 DEF BeginsWell, IsUndefined
<1>4. CASE EndBlock \/ EndScope \/ LeaveFunction \/ LeaveMachine
  <2>1. \A g \in Frames : depth'[g] <= depth[g]
    <3> USE DEF FramesTyped
    <3>1. CASE EndBlock
      <4>1. depth' = [depth EXCEPT ![frame] = depth[frame] - 1]
        BY <3>1 DEF EndBlock
      <4> QED  BY <4>1
    <3>2. CASE EndScope
      <4> DEFINE p == PoppedFrame
      <4> HIDE DEF p
      <4>1. depth' = [depth EXCEPT ![p] = depth[p] - 1]
        BY <3>2 DEF EndScope, p
      <4> QED  BY <4>1
    <3>3. CASE LeaveFunction \/ LeaveMachine
      BY <3>3 DEF LeaveFunction, LeaveMachine
    <3> QED  BY <1>4, <3>1, <3>2, <3>3
  <2> QED  BY <2>1 DEF FrameOpens
<1>5. CASE UNCHANGED depth
  BY <1>5 DEF FrameOpens
<1>6. UNCHANGED depth \/ Call \/ PushScope \/ Execute \/ EndBlock \/ EndScope
         \/ LeaveFunction \/ LeaveMachine
  BY DEF Next, Script, Machine, vars, objectVars, NewObject, StoreObject, StorePrimitive,
         EndStatement, PopScope, Return, ReturnObject, MainReturnsObject, MainExit, stackDumped,
         clearGlobals, TakeResult, UnrefElement, PopLocal, BeginSweep, SweepVisit, ReleaseMember, SweepFree
<1> QED  BY <1>2, <1>3, <1>e, <1>4, <1>5, <1>6

\* Whatever scripts do and however calls end, no function begins with what a
\* variable of an earlier call held: POP_SCOPE and stackDumped leave none behind.
\* Operands are another matter where C++ calls functions, as the property says.
THEOREM FunctionsStartAfresh == Spec => NoVariableOutlivesItsCall
<1>1. VarInv /\ [Next]_vars =>
          [\A f \in Frames \ {0} :
              depth[f] = 0 /\ depth'[f] = 1 =>
                  \A v \in Var : \/ value'[<<f, v>>].type = "undefined"
                                 \/ f = 1 /\ value'[<<f, v>>].ref \in cells]_vars
  BY OpenedBeginsWell DEF FrameOpens
<1>2. VarInv /\ [Next]_vars => VarInv'
  BY VarInductive
<1> QED  BY <1>1, <1>2, VarInitial, PTL DEF Spec, NoVariableOutlivesItsCall
=============================================================================
