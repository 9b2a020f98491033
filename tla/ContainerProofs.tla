--------------------------- MODULE ContainerProofs ---------------------------
(***************************************************************************)
(* Containers release their elements each time they are released           *)
(* themselves, and again when they are destroyed.  For scripts that store  *)
(* every object once this still never lets a script reach an object that   *)
(* is gone, whatever vectors, structs and class objects contain each other.*)
(***************************************************************************)
EXTENDS ObjectLifetimeProofs

\* Scripts that store an object in one place only, keep it there until the
\* place goes out of use, return from a function only what nothing outside it
\* refers to, and do not store an operand of a caller.  C++ may call one
\* function of theirs, with as many arguments each time.
StoredOnce ==
    /\ "single" \in Features
    /\ Features \cap {"overwrite", "escape", "operandArgument", "leftovers"} = {}

-----------------------------------------------------------------------------
(* The inductive invariant.                                                 *)

Holds(s, o) == value[s].type = "object" /\ value[s].ref = o

\* Such a script has no stale references, and one slot for each object.
PlainValues ==
    \A s \in Slot : \/ value[s].type = "object" /\ value[s].ref \in Object
                    \/ value[s].type = "undefined" /\ value[s].ref = Null
OneHolder ==
    \A s, t \in Slot : \A o \in Object : Holds(s, o) /\ Holds(t, o) => s = t
AtMostOneShare == \A o \in Object : nodeOf[o] # Null => n_shares[nodeOf[o]] \in {0, 1}

\* An object has a share; is in the list that is being swept or will be next;
\* or was in a list that the sweep emptied, and exists for ever.
Owned(o)     == state[o] = "alive" /\ nodeOf[o] # Null /\ n_shares[nodeOf[o]] = 1
Dying(o)     == /\ mode \in {"pop", "sweep"} /\ state[o] = "alive" /\ nodeOf[o] # Null
                /\ nodeOf[o] \in zero_shares[idxCurrentStack]
Forgotten(o) == /\ state[o] = "alive" /\ nodeOf[o] # Null
                /\ n_shares[nodeOf[o]] = 0 /\ ~Listed(o)

\* Members of objects that do not exist hold none.
DeadMembers ==
    \A o \in Object, m \in Member : state[o] # "alive" => value[<<o, m>>].type # "object"

\* A variable's object has its share, unless it is being returned.
VariablesHold ==
    \A f \in Frames, v \in Var, o \in Object : Holds(<<f, v>>, o) =>
        Owned(o) \/ (o = ret /\ mode # "result" /\ f = frame)

\* So has a member's, unless its owner is released: then it may be released,
\* or gone before its owner.
MembersHold ==
    \A c \in Object, m \in Member, o \in Object : Holds(<<c, m>>, o) =>
        \/ Owned(o)
        \/ Dying(c) /\ (Dying(o) \/ state[o] = "deleted")
        \/ Forgotten(c) /\ Forgotten(o)

\* When the sweep has visited its last candidate, what has been put into the
\* list since will stay, and so must what it holds.
LastVisit ==
    finish /\ current # Null =>
        \A c \in Object, m \in Member, o \in Object :
            Holds(<<c, m>>, o) /\ Dying(c) /\ nodeOf[c] # current =>
                state[o] = "alive" /\ nodeOf[o] # current

\* The releases that are to come are those of elements of dying containers.
CascadeOfDying == \A i \in 1..Len(cascade) : Dying(cascade[i][1])

\* Operands without a share wait at their own level.
OperandsWait ==
    \A l \in Levels : \A o \in temps[l] :
        /\ 1 <= l /\ l <= idxCurrentStack
        /\ nodeOf[o] # Null
        /\ \/ n_shares[nodeOf[o]] = 0 /\ nodeOf[o] \in zero_shares[l]
           \/ /\ n_shares[nodeOf[o]] = 1 /\ l = idxCurrentStack /\ mode = "run"
              /\ \E s \in Slot : Holds(s, o)
        /\ mode \in {"run", "result"} \/ l # idxCurrentStack

\* What the machine does, and which object is being deleted.
Phases ==
    /\ sweeping => mode = "sweep"
    /\ mode = "result" => ret # Null
    /\ finish => current # Null
    /\ pending # {} => current # Null /\ shared_ptr[current] # ret
    /\ mode = "sweep" /\ cascade # <<>> => current # Null
    /\ mode \in {"pop", "sweep"} /\ why = "error" => \A l \in Levels : temps[l] = {}

\* Nodes, values and objects.
Heap ==
    /\ OwnNode
    /\ CandidateNodes
    /\ PlainValues
    /\ OneHolder
    /\ AtMostOneShare
    /\ DeadMembers
    /\ VariablesHold
    /\ MembersHold
    /\ LastVisit

ContainerInv ==
    /\ IManager
    /\ ObjectTypeOK
    /\ VarInv
    /\ Heap
    /\ CascadeOfDying
    /\ OperandsWait
    /\ Result
    /\ Phases
    /\ cells = {}

-----------------------------------------------------------------------------
(* Facts about the states of the invariant.                                 *)

LEMMA SlotKinds ==
    /\ \A f \in Frames, v \in Var : <<f, v>> \in Slot /\ <<f, v>> \in FrameSlot
    /\ \A c \in Object, m \in Member : <<c, m>> \in Slot /\ <<c, m>> \in MemberSlot
    /\ \A s \in Slot : \/ \E f \in Frames, v \in Var : s = <<f, v>>
                       \/ \E c \in Object, m \in Member : s = <<c, m>>
    /\ \A f \in Frames, v \in Var, c \in Object, m \in Member : <<f, v>> # <<c, m>>
<1>1. /\ \A f \in Frames, v \in Var : <<f, v>> \in Slot /\ <<f, v>> \in FrameSlot
      /\ \A c \in Object, m \in Member : <<c, m>> \in Slot /\ <<c, m>> \in MemberSlot
  BY DEF Slot, FrameSlot, MemberSlot
<1>2. \A s \in Slot : \/ \E f \in Frames, v \in Var : s = <<f, v>>
                     \/ \E c \in Object, m \in Member : s = <<c, m>>
  BY DEF Slot, FrameSlot, MemberSlot
<1>3. ASSUME NEW f \in Frames, NEW v \in Var, NEW c \in Object, NEW m \in Member
      PROVE  <<f, v>> # <<c, m>>
  <2>1. <<f, v>> \notin MemberSlot /\ <<c, m>> \in MemberSlot
    BY <1>1, DistinctAssumption
  <2> QED  BY <2>1
<1> QED  BY <1>1, <1>2, <1>3

\* The types that the proofs need over and over.
LEMMA Typed ==
    ASSUME ContainerInv
    PROVE  /\ idxCurrentStack \in Levels /\ MaxLevel \in Nat
           /\ value \in [Slot -> Value] /\ nodeOf \in [Object -> Node \cup {Null}]
           /\ n_shares \in [Node -> 0..MaxShares]
           /\ zero_shares \in [Levels -> SUBSET Node]
           /\ nodes \subseteq Node
           /\ \A l \in Levels : temps[l] \subseteq Object
           /\ ListsMatchCounts /\ SweptNodeIsCandidate
BY BoundAssumption DEF ContainerInv, IManager, ManagerInv, ManagerTypeOK, ObjectTypeOK

\* The node of an object is its own.
LEMMA NodeOfObject ==
    ASSUME ContainerInv, NEW o \in Object, nodeOf[o] # Null
    PROVE  /\ nodeOf[o] \in Node /\ nodeOf[o] \in nodes /\ shared_ptr[nodeOf[o]] = o
           /\ state[o] = "alive" /\ n_shares[nodeOf[o]] \in {0, 1}
           /\ \A p \in Object : nodeOf[p] = nodeOf[o] => p = o
BY Typed DEF ContainerInv, Heap, OwnNode, AtMostOneShare

\* ... and the only one it is a candidate with.
LEMMA CandidateOfObject ==
    ASSUME ContainerInv, NEW o \in Object, nodeOf[o] # Null,
           NEW l \in Levels, NEW x \in zero_shares[l], shared_ptr[x] = o
    PROVE  x = nodeOf[o]
BY NullAssumption DEF ContainerInv, Heap, CandidateNodes, LostByMain, Result

\* A node waits in one list only, and has no share.
LEMMA WaitingNode ==
    ASSUME ContainerInv, NEW l \in Levels, NEW nd \in zero_shares[l]
    PROVE  /\ nd \in Node /\ nd \in nodes /\ n_shares[nd] = 0
           /\ \A k \in Levels : nd \in zero_shares[k] => k = l
BY Typed DEF ListsMatchCounts

\* A slot that holds an object is one the script could name.
LEMMA HolderIsLive ==
    ASSUME ContainerInv, NEW s \in Slot, NEW o \in Object, Holds(s, o)
    PROVE  s \in Refs(o)
<1> USE DEF ContainerInv, Heap, Holds
<1>1. CASE \E f \in Frames, v \in Var : s = <<f, v>>
  <2> PICK f \in Frames, v \in Var : s = <<f, v>>
    BY <1>1
  <2>1. ~(depth[f] < ScopeOf(f, v))
    BY SlotKinds, NullAssumption DEF VarInv, ClosedVars, BeginsWell, IsUndefined
  <2>2. depth[f] >= ScopeOf(f, v)
    BY <2>1 DEF VarInv, FramesTyped, ScopeOf, BodyDepth
  <2> QED  BY <2>2, SlotKinds DEF Refs, LiveSlots
<1>2. CASE \E c \in Object, m \in Member : s = <<c, m>>
  BY <1>2, SlotKinds DEF Refs, LiveSlots, DeadMembers
<1> QED  BY <1>1, <1>2, SlotKinds

\* Outside popping and sweeping, what a slot holds has a share or is forgotten.
LEMMA NoneIsDying ==
    ASSUME ContainerInv, mode \notin {"pop", "sweep"} \/ zero_shares[idxCurrentStack] = {}
    PROVE  /\ \A o \in Object : ~Dying(o)
           /\ \A c \in Object, m \in Member, o \in Object : Holds(<<c, m>>, o) =>
                 Owned(o) \/ (Forgotten(c) /\ Forgotten(o))
           /\ cascade = <<>>
<1>1. \A o \in Object : ~Dying(o)
  BY DEF Dying
<1>2. cascade = <<>>
  <2> SUFFICES ASSUME cascade # <<>> PROVE FALSE
    OBVIOUS
  <2>1. cascade \in Seq(MemberSlot) /\ 1 \in 1..Len(cascade)
    BY DEF ContainerInv, ObjectTypeOK
  <2>2. cascade[1][1] \in Object
    BY <2>1 DEF MemberSlot
  <2> QED  BY <1>1, <2>1, <2>2 DEF ContainerInv, CascadeOfDying
<1> QED  BY <1>1, <1>2 DEF ContainerInv, Heap, MembersHold

\* Between two statements no sweep is under way.
LEMMA NoSweep ==
    ASSUME ContainerInv, mode # "sweep" \/ Swept
    PROVE  ~sweeping /\ ~finish /\ current = Null
BY DEF ContainerInv, Phases, IManager, SweptNodeIsCandidate, MoreToSweep, Swept

\* What an instruction can load is an operand or has a holder.
LEMMA LoadedStates ==
    ASSUME StoredOnce, ContainerInv, Running, NEW o \in Loadable
    PROVE  /\ o \in Object /\ ret = Null
           /\ nodeOf[o] # Null
           /\ o \in temps[idxCurrentStack] \/ \E s \in Slot : Holds(s, o)
<1> USE DEF Running
<1>1. ret = Null
  BY DEF ContainerInv, Result
<1>2. CASE o \in temps[idxCurrentStack]
  BY <1>1, <1>2, Typed DEF ContainerInv, OperandsWait
<1>3. CASE o \notin temps[idxCurrentStack]
  <2>1. PICK s \in LiveSlots : value[s].type = "object" /\ value[s].ref = o
    BY <1>3 DEF Loadable, StoredOnce
  <2>2. s \in Slot /\ o \in Object
    BY <2>1 DEF LiveSlots, Slot, ContainerInv, Heap, PlainValues
  <2>3. Holds(s, o)
    BY <2>1 DEF Holds
  <2>4. CASE \E f \in Frames, v \in Var : s = <<f, v>>
    <3>1. Owned(o)
      BY <1>1, <2>2, <2>3, <2>4, NullAssumption DEF ContainerInv, Heap, VariablesHold
    <3> QED  BY <1>1, <2>2, <2>3, <3>1 DEF Owned
  <2>5. CASE \E c \in Object, m \in Member : s = <<c, m>>
    <3>1. Owned(o) \/ Forgotten(o)
      BY <2>2, <2>3, <2>5, NoneIsDying
    <3> QED  BY <1>1, <2>2, <2>3, <3>1 DEF Owned, Forgotten
  <2> QED  BY <2>2, <2>4, <2>5, SlotKinds
<1> QED  BY <1>2, <1>3

-----------------------------------------------------------------------------
(* What the steps have in common.                                           *)

\* Slots are at most cleared.
OnlyClears == \A s \in Slot : value'[s] = value[s] \/ value'[s] = Undefined

\* The object being returned stays so, or is in no variable any more.
ResultKept ==
    \/ ret = Null
    \/ UNCHANGED <<ret, idxCurrentStack, entry>> /\ mode' # "result"
    \/ /\ zero_shares[idxCurrentStack] = {}
       /\ \A f \in Frames, v \in Var : ~Holds(<<f, v>>, ret)

\* The list that is being swept stays so, or there is nothing in it.
SweepKept ==
    \/ mode \in {"pop", "sweep"} /\ idxCurrentStack' = idxCurrentStack
       /\ (finish' /\ current' # Null => finish /\ current' = current)
       /\ (mode = "sweep" /\ why = "main" => UNCHANGED <<mode, why>>)
    \/ mode \notin {"pop", "sweep"} /\ ~finish'
    \/ zero_shares[idxCurrentStack] = {} /\ ~finish'

\* Steps that only move between modes, scopes and levels, and clear slots.
LEMMA CalmSteps ==
    ASSUME ContainerInv, UNCHANGED <<nodeVars, state, nodeOf>>,
           OnlyClears, ResultKept, SweepKept,
           mode' \in {"pop", "sweep"} \/ mode \notin {"pop", "sweep"}
               \/ zero_shares[idxCurrentStack] = {}
    PROVE  Heap'
<1> USE DEF ContainerInv, Heap, nodeVars
<1>h. \A s \in Slot, o \in Object : Holds(s, o)' => Holds(s, o)
  BY DEF Holds, OnlyClears, Undefined
<1>1. OwnNode' /\ AtMostOneShare'
  BY DEF OwnNode, AtMostOneShare
<1>2. CandidateNodes'
  <2>1. \A l \in Levels : \A x \in zero_shares[l] :
           /\ shared_ptr[x] \in Object
           /\ state[shared_ptr[x]] = "alive"
           /\ \/ nodeOf[shared_ptr[x]] = x
              \/ (shared_ptr[x] = ret /\ l = idxCurrentStack /\ mode # "result")'
              \/ (LostByMain(x) /\ l = idxCurrentStack)'
    BY Typed, NullAssumption DEF CandidateNodes, LostByMain, ResultKept, SweepKept
  <2> QED  BY <2>1 DEF CandidateNodes, DistinctCandidates
<1>3. PlainValues'
  BY DEF PlainValues, OnlyClears, Undefined
<1>4. OneHolder'
  BY <1>h DEF OneHolder
<1>5. DeadMembers'
  BY SlotKinds DEF DeadMembers, OnlyClears, Undefined
<1>s. \A o \in Object : (Owned(o)' <=> Owned(o)) /\ (Forgotten(o)' <=> Forgotten(o))
  BY DEF Owned, Forgotten, Listed
<1>6. VariablesHold'
  <2> SUFFICES ASSUME NEW f \in Frames, NEW v \in Var, NEW o \in Object, Holds(<<f, v>>, o)'
               PROVE  (Owned(o) \/ (o = ret /\ mode # "result" /\ f = frame))'
    BY DEF VariablesHold
  <2>1. Holds(<<f, v>>, o)
    BY <1>h, SlotKinds
  <2>2. CASE Owned(o)
    BY <2>2, <1>s
  <2>3. CASE o = ret /\ mode # "result" /\ f = frame
    BY <2>1, <2>3, NullAssumption DEF ResultKept, frame
  <2> QED  BY <2>1, <2>2, <2>3 DEF VariablesHold
<1>d. \A o \in Object : Dying(o) => Dying(o)'
  BY DEF SweepKept, Dying
<1>7. MembersHold'
  <2> SUFFICES ASSUME NEW c \in Object, NEW m \in Member, NEW o \in Object, Holds(<<c, m>>, o)'
               PROVE  (\/ Owned(o)
                       \/ Dying(c) /\ (Dying(o) \/ state[o] = "deleted")
                       \/ Forgotten(c) /\ Forgotten(o))'
    BY DEF MembersHold
  <2>1. Holds(<<c, m>>, o)
    BY <1>h, SlotKinds
  <2>2. Owned(o) \/ (Dying(c) /\ (Dying(o) \/ state[o] = "deleted"))
            \/ (Forgotten(c) /\ Forgotten(o))
    BY <2>1 DEF MembersHold
  <2>3. CASE Owned(o)
    BY <2>3, <1>s
  <2>4. CASE Dying(c) /\ Dying(o)
    BY <2>4, <1>d
  <2>5. CASE Dying(c) /\ state[o] = "deleted"
    <3>1. Dying(c)' /\ (state[o] = "deleted")'
      BY <2>5, <1>d
    <3> QED  BY <3>1
  <2>6. CASE Forgotten(c) /\ Forgotten(o)
    BY <2>6, <1>s
  <2> QED  BY <2>2, <2>3, <2>4, <2>5, <2>6
<1>8. LastVisit'
  <2> SUFFICES ASSUME finish', current' # Null, NEW c \in Object, NEW m \in Member,
                      NEW o \in Object, Holds(<<c, m>>, o)', Dying(c)', nodeOf[c] # current'
               PROVE  state[o] = "alive" /\ nodeOf[o] # current'
    BY DEF LastVisit
  <2>1. Holds(<<c, m>>, o)
    BY <1>h, SlotKinds
  <2>2. finish /\ current' = current /\ mode \in {"pop", "sweep"}
        /\ idxCurrentStack' = idxCurrentStack
    BY DEF SweepKept
  <2>3. Dying(c)
    BY <2>2 DEF Dying
  <2> QED  BY <2>1, <2>2, <2>3 DEF LastVisit
<1> QED  BY <1>1, <1>2, <1>3, <1>4, <1>5, <1>6, <1>7, <1>8

\* What has no share lies in the list that is swept: the release of an element
\* of a dying container, or of what a slot held that is now undefined.
LEMMA ReleaseFacts ==
    ASSUME ContainerInv, NEW q \in Object, nodeOf[q] # Null, Owned(q) \/ Dying(q),
           unrefSharedScriptVar(nodeOf[q])
    PROVE  /\ n_shares' = [n_shares EXCEPT ![nodeOf[q]] = 0]
           /\ zero_shares' = [zero_shares EXCEPT ![idxCurrentStack] = @ \cup {nodeOf[q]}]
           /\ UNCHANGED <<nodes, shared_ptr>>
<1> DEFINE nd == nodeOf[q]
<1>1. /\ nd \in Node /\ n_shares[nd] \in {0, 1} /\ n_shares \in [Node -> 0..MaxShares]
      /\ idxCurrentStack \in Levels /\ zero_shares \in [Levels -> SUBSET Node]
  BY NodeOfObject, Typed
<1>2. n_shares[nd] = 1 \/ (n_shares[nd] = 0 /\ nd \in zero_shares[idxCurrentStack])
  BY <1>1, Typed DEF Owned, Dying, ListsMatchCounts
<1>3. /\ n_shares' = [n_shares EXCEPT ![nd] = IF n_shares[nd] > 0 THEN n_shares[nd] - 1 ELSE 0]
      /\ n_shares[nd] = 1 =>
            zero_shares' = [zero_shares EXCEPT ![idxCurrentStack] = @ \cup {nd}]
      /\ n_shares[nd] # 1 => zero_shares' = zero_shares
      /\ UNCHANGED <<nodes, shared_ptr>>
  BY DEF unrefSharedScriptVar
<1> HIDE DEF nd
<1>4. n_shares' = [n_shares EXCEPT ![nd] = 0]
  <2>1. (IF n_shares[nd] > 0 THEN n_shares[nd] - 1 ELSE 0) = 0
    BY <1>1
  <2> QED  BY <1>3, <2>1
<1>5. zero_shares' = [zero_shares EXCEPT ![idxCurrentStack] = @ \cup {nd}]
  <2>1. CASE n_shares[nd] = 1
    BY <2>1, <1>3
  <2>2. CASE n_shares[nd] = 0 /\ nd \in zero_shares[idxCurrentStack]
    <3>1. zero_shares[idxCurrentStack] \cup {nd} = zero_shares[idxCurrentStack]
      BY <2>2
    <3> QED  BY <1>1, <1>3, <2>2, <3>1
  <2> QED  BY <1>2, <2>1, <2>2
<1> QED  BY <1>3, <1>4, <1>5 DEF nd

\* The slot that held the object is cleared, or is one of a dying container.
ClearedOrDying(s) ==
    \/ value' = [value EXCEPT ![s] = Undefined]
    \/ value' = value /\ \E c \in Object, m \in Member : s = <<c, m>> /\ Dying(c)

\* The release of what a slot holds, while scopes are popped and objects swept.
LEMMA Release ==
    ASSUME ContainerInv, mode \in {"pop", "sweep"}, NEW s \in Slot, NEW q \in Object, Holds(s, q),
           nodeOf[q] # Null, Owned(q) \/ Dying(q), unrefSharedScriptVar(nodeOf[q]),
           ClearedOrDying(s),
           UNCHANGED <<idxCurrentStack, state, nodeOf, temps, entry, mode, why, ret, current, finish>>
    PROVE  /\ Heap' /\ OperandsWait' /\ Result'
           /\ Dying(q)' /\ \A o \in Object : Dying(o) => Dying(o)'
<1> USE DEF ContainerInv, Heap
<1> DEFINE nd == nodeOf[q]
<1>n. /\ nd \in Node /\ nd \in nodes /\ shared_ptr[nd] = q /\ state[q] = "alive"
      /\ \A p \in Object : nodeOf[p] = nd => p = q
      /\ idxCurrentStack \in Levels
  BY NodeOfObject, Typed
<1>1. /\ n_shares'[nd] = 0 /\ \A x \in Node : x # nd => n_shares'[x] = n_shares[x]
      /\ zero_shares'[idxCurrentStack] = zero_shares[idxCurrentStack] \cup {nd}
      /\ \A l \in Levels : l # idxCurrentStack => zero_shares'[l] = zero_shares[l]
      /\ nodes' = nodes /\ shared_ptr' = shared_ptr
  <2> HIDE DEF ContainerInv, Heap
  <2> QED  BY <1>n, ReleaseFacts, Typed
<1>h. /\ \A t \in Slot, o \in Object : Holds(t, o)' => Holds(t, o)
      /\ \A t \in Slot : value'[t] = value[t] \/ value'[t] = Undefined
  BY Typed DEF Holds, ClearedOrDying, Undefined
<1>s. /\ \A p \in Object : p # q => (Owned(p)' <=> Owned(p))
      /\ \A p \in Object : Dying(p) => Dying(p)'
      /\ \A p \in Object : Dying(p)' => Dying(p) \/ p = q
      /\ Dying(q)' /\ ~Forgotten(q)
      /\ \A p \in Object : p # q /\ Forgotten(p) => Forgotten(p)'
  <2> HIDE DEF ContainerInv, Heap
  <2>1. \A p \in Object : p # q /\ nodeOf[p] # Null => nodeOf[p] # nd /\ nodeOf[p] \in Node
    BY <1>n, NodeOfObject
  <2>2. \A p \in Object : p # q => (Owned(p)' <=> Owned(p))
    BY <1>1, <2>1 DEF Owned
  <2>3. \A p \in Object : Dying(p) => Dying(p)'
    BY <1>1, <1>n DEF Dying
  <2>4. Dying(q)'
    BY <1>1, <1>n DEF Dying
  <2>5. \A p \in Object : Dying(p)' => Dying(p) \/ p = q
    BY <1>1, <1>n DEF Dying
  <2>6. ~Forgotten(q)
    BY <1>n DEF Forgotten, Listed, Owned, Dying
  <2>7. \A p \in Object : p # q /\ Forgotten(p) => Forgotten(p)'
    BY <1>1, <2>1 DEF Forgotten, Listed
  <2> QED  BY <2>2, <2>3, <2>4, <2>5, <2>6, <2>7
<1>2. OwnNode'
  BY <1>1 DEF OwnNode
<1>3. CandidateNodes'
  <2> SUFFICES ASSUME NEW l \in Levels, NEW x \in zero_shares'[l]
               PROVE  /\ shared_ptr[x] \in Object
                      /\ state[shared_ptr[x]] = "alive"
                      /\ \/ nodeOf[shared_ptr[x]] = x
                         \/ shared_ptr[x] = ret /\ l = idxCurrentStack /\ mode # "result"
                         \/ LostByMain(x) /\ l = idxCurrentStack
                      /\ \A k \in Levels : \A y \in zero_shares'[k] :
                            shared_ptr[x] = shared_ptr[y] => x = y
    BY <1>1 DEF CandidateNodes, DistinctCandidates, LostByMain
  <2>0. \A k \in Levels : \A y \in zero_shares'[k] : y = nd \/ y \in zero_shares[k]
    BY <1>1
  <2>3. \A k \in Levels : \A y \in zero_shares[k] : shared_ptr[y] = q => y = nd
    BY CandidateOfObject
  <2>1. CASE x = nd
    BY <2>0, <2>1, <2>3, <1>n, <1>1 DEF CandidateNodes
  <2>2. CASE x \in zero_shares[l]
    BY <2>0, <2>2, <2>3, <1>n DEF CandidateNodes, DistinctCandidates
  <2> QED  BY <1>1, <2>1, <2>2
<1>4. PlainValues' /\ OneHolder'
  <2>1. PlainValues'
    BY <1>h DEF PlainValues, Undefined
  <2> QED  BY <1>h, <2>1 DEF OneHolder
<1>5. AtMostOneShare'
  <2> SUFFICES ASSUME NEW p \in Object, nodeOf[p] # Null
               PROVE  n_shares'[nodeOf[p]] \in {0, 1}
    BY DEF AtMostOneShare
  <2>1. nodeOf[p] \in Node /\ n_shares[nodeOf[p]] \in {0, 1}
    BY NodeOfObject DEF AtMostOneShare
  <2> QED  BY <1>1, <2>1
<1>6. DeadMembers'
  BY <1>h, SlotKinds DEF DeadMembers, Undefined
<1>q. \A t \in Slot : Holds(t, q)' =>
          t = s /\ \E c \in Object, m \in Member : s = <<c, m>> /\ Dying(c)
  <2> SUFFICES ASSUME NEW t \in Slot, Holds(t, q)'
               PROVE  t = s /\ \E c \in Object, m \in Member : s = <<c, m>> /\ Dying(c)
    OBVIOUS
  <2>1. t = s
    BY <1>h DEF OneHolder
  <2>2. value' # [value EXCEPT ![s] = Undefined]
    BY <2>1, Typed DEF Holds, Undefined
  <2> QED  BY <2>1, <2>2 DEF ClearedOrDying
<1>7. VariablesHold'
  <2> SUFFICES ASSUME NEW f \in Frames, NEW v \in Var, NEW o \in Object, Holds(<<f, v>>, o)'
               PROVE  (Owned(o) \/ (o = ret /\ mode # "result" /\ f = frame))'
    BY DEF VariablesHold
  <2>1. Holds(<<f, v>>, o) /\ o # q /\ frame' = frame
    BY <1>h, <1>q, SlotKinds DEF frame
  <2>2. Owned(o) \/ (o = ret /\ mode # "result" /\ f = frame)
    BY <2>1 DEF VariablesHold
  <2> QED  BY <2>1, <2>2, <1>s
<1>8. MembersHold'
  <2> SUFFICES ASSUME NEW c \in Object, NEW m \in Member, NEW o \in Object, Holds(<<c, m>>, o)'
               PROVE  (\/ Owned(o)
                       \/ Dying(c) /\ (Dying(o) \/ state[o] = "deleted")
                       \/ Forgotten(c) /\ Forgotten(o))'
    BY DEF MembersHold
  <2>0. state' = state
    OBVIOUS
  <2>1. CASE o = q
    <3>1. <<c, m>> = s /\ \E d \in Object, k \in Member : s = <<d, k>> /\ Dying(d)
      BY <2>1, <1>q, SlotKinds
    <3> QED  BY <2>1, <3>1, <1>s
  <2>2. CASE o # q
    <3>1. Owned(o) \/ (Dying(c) /\ (Dying(o) \/ state[o] = "deleted"))
              \/ (Forgotten(c) /\ Forgotten(o))
      BY <1>h, SlotKinds DEF MembersHold
    <3>2. CASE Owned(o)
      BY <2>2, <3>2, <1>s
    <3>3. CASE Dying(c) /\ Dying(o)
      BY <3>3, <1>s
    <3>4. CASE Dying(c) /\ state[o] = "deleted"
      <4>1. Dying(c)' /\ (state[o] = "deleted")'
        BY <2>0, <3>4, <1>s
      <4> QED  BY <4>1
    <3>5. CASE Forgotten(c) /\ Forgotten(o)
      BY <2>2, <3>5, <1>s
    <3> QED  BY <3>1, <3>2, <3>3, <3>4, <3>5
  <2> QED  BY <2>1, <2>2
<1>9. LastVisit'
  <2> SUFFICES ASSUME finish, current # Null, NEW c \in Object, NEW m \in Member,
                      NEW o \in Object, Holds(<<c, m>>, o)', Dying(c)', nodeOf[c] # current
               PROVE  state[o] = "alive" /\ nodeOf[o] # current
    BY DEF LastVisit
  <2>1. Holds(<<c, m>>, o)
    BY <1>h, SlotKinds
  <2>2. CASE Dying(c)
    BY <2>1, <2>2 DEF LastVisit
  <2>3. CASE ~Dying(c)
    <3>1. Owned(o)
      BY <2>1, <2>3, <1>s DEF MembersHold
    <3>2. n_shares[current] = 0
      BY Typed, WaitingNode DEF SweptNodeIsCandidate
    <3> QED  BY <3>1, <3>2 DEF Owned
  <2> QED  BY <2>2, <2>3
<1>10. OperandsWait'
  <2> SUFFICES ASSUME NEW l \in Levels, NEW o \in temps[l]
               PROVE  /\ 1 <= l /\ l <= idxCurrentStack /\ nodeOf[o] # Null
                      /\ n_shares'[nodeOf[o]] = 0 /\ nodeOf[o] \in zero_shares'[l]
                      /\ l # idxCurrentStack
    BY DEF OperandsWait
  <2>1. /\ 1 <= l /\ l <= idxCurrentStack /\ nodeOf[o] # Null
        /\ n_shares[nodeOf[o]] = 0 /\ nodeOf[o] \in zero_shares[l] /\ l # idxCurrentStack
        /\ o \in Object
    BY Typed DEF OperandsWait
  <2>2. nodeOf[o] \in Node
    BY <2>1, NodeOfObject
  <2> QED  BY <1>1, <2>1, <2>2
<1>11. Result'
  BY DEF Result
<1> QED
  BY <1>s, <1>2, <1>3, <1>4, <1>5, <1>6, <1>7, <1>8, <1>9, <1>10, <1>11

-----------------------------------------------------------------------------
(* Types.                                                                   *)

LEMMA MembersFinite ==
    ASSUME NEW o \in Object
    PROVE  IsFiniteSet(Member)
<1> DEFINE f == [m \in Member |-> <<o, m>>]
<1>1. f \in Injection(Member, Slot)
  <2>1. f \in [Member -> Slot]
    BY SlotKinds
  <2>2. \A x, y \in Member : f[x] = f[y] => x = y
    OBVIOUS
  <2> QED  BY <2>1, <2>2 DEF Injection, IsInjective
<1> QED  BY <1>1, FiniteAssumption, FS_Injection

\* The loop over the elements of a container visits members of the container.
LEMMA MemberSequence ==
    ASSUME NEW o \in Object
    PROVE  /\ Cardinality(Member) \in Nat
           /\ MemberSlots(o) \in Seq(MemberSlot) /\ Len(MemberSlots(o)) = Cardinality(Member)
           /\ \A i \in 1..Cardinality(Member) : MemberSlots(o)[i][1] = o
<1> DEFINE n == Cardinality(Member)
           IsOrder(q) == \A i, j \in 1..n : q[i] = q[j] => i = j
<1>1. n \in Nat /\ ExistsBijection(1..n, Member)
  BY MembersFinite, FS_CardinalityType
<1>2. \E q \in [1..n -> Member] : IsOrder(q)
  BY <1>1 DEF ExistsBijection, Bijection, Injection, IsInjective
<1>3. MemberOrder = CHOOSE q \in [1..n -> Member] : IsOrder(q)
  BY DEF MemberOrder
<1>4. MemberOrder \in [1..n -> Member]
  <2> HIDE DEF IsOrder
  <2> QED  BY <1>2, <1>3
<1>5. MemberSlots(o) = [i \in 1..n |-> <<o, MemberOrder[i]>>]
  BY DEF MemberSlots
<1> HIDE DEF n, IsOrder
<1>6. \A i \in 1..n : MemberSlots(o)[i] = <<o, MemberOrder[i]>> /\ MemberOrder[i] \in Member
  BY <1>4, <1>5
<1>7. MemberSlots(o) \in [1..n -> MemberSlot]
  BY <1>4, <1>5 DEF MemberSlot
<1>8. MemberSlots(o) \in Seq(MemberSlot)
  BY <1>1, <1>7
<1>9. Len(MemberSlots(o)) = n
  BY <1>1, <1>7
<1>10. \A i \in 1..n : MemberSlots(o)[i][1] = o
  BY <1>6
<1> QED  BY <1>1, <1>8, <1>9, <1>10 DEF n

\* Such scripts have no use for a store of a primitive: no slot holds one that
\* could be replaced.
LEMMA NoPrimitives == ASSUME StoredOnce, ContainerInv PROVE ~StorePrimitive
<1> SUFFICES ASSUME StorePrimitive PROVE FALSE
  OBVIOUS
<1> PICK dst \in Targets : value[dst].type # "undefined" /\ value[dst].type # "object"
  BY DEF StorePrimitive, StoredOnce
<1>1. dst \in Slot
  BY DEF Targets, LiveSlots, Slot
<1> QED  BY <1>1 DEF ContainerInv, Heap, PlainValues

\* What operands leave is in no variable.
LEMMA CellsStayEmpty ==
    ASSUME StoredOnce, ContainerInv, [Next]_vars
    PROVE  cells' = {}
BY VarInductive DEF ContainerInv, VarInv, FramesTyped, StoredOnce

LEMMA CallsFromCStoreNothing ==
    ASSUME ContainerInv, Execute
    PROVE  value' = value
<1>1. cells = {} /\ value \in [Slot -> Value]
  BY Typed DEF ContainerInv
<1>2. ASSUME NEW left \in [Var -> cells \cup {Null}],
             value' = [s \in Slot |->
                          IF s \in {1} \X Var /\ left[s[2]] # Null
                          THEN [type |-> "object", ref |-> left[s[2]]] ELSE value[s]]
      PROVE  value' = value
  <2>1. \A s \in {1} \X Var : left[s[2]] = Null
    BY <1>1
  <2>2. value' = [s \in Slot |-> value[s]]
    BY <1>2, <2>1
  <2> QED  BY <1>1, <2>2
<1> QED  BY <1>2 DEF Execute

\* The object a slot holds.
LEMMA HeldObject ==
    ASSUME ContainerInv, NEW s \in Slot, value[s].type = "object" \/ value[s].ref # Null
    PROVE  /\ value[s].ref \in Object /\ value[s].type = "object" /\ value[s].ref # Null
           /\ Holds(s, value[s].ref)
BY NullAssumption DEF ContainerInv, Heap, PlainValues, Holds

LEMMA UnrefIsTyped ==
    ASSUME NEW o \in Object, NEW rest \in Seq(MemberSlot), NEW failing \in BOOLEAN,
           unrefSharedPtr(o, rest, failing)
    PROVE  cascade' \in Seq(MemberSlot)
<1>1. MemberSlots(o) \o rest \in Seq(MemberSlot)
  BY MemberSequence
<1>2. <<>> \in Seq(MemberSlot)
  OBVIOUS
<1> QED  BY <1>1, <1>2 DEF unrefSharedPtr

LEMMA TypesStay ==
    ASSUME StoredOnce, ContainerInv, [Next]_vars
    PROVE  ObjectTypeOK'
<1> USE DEF ObjectTypeOK, Running
<1>c. cells' \in SUBSET Object
  BY CellsStayEmpty
<1>t. /\ ObjectTypeOK /\ frame \in Frames /\ idxCurrentStack \in Levels /\ MaxLevel \in Nat
      /\ Undefined \in Value
  BY Typed, FrameIsKnown DEF ContainerInv, VarInv, Undefined, Value
<1>1. CASE NewObject
  BY <1>1, <1>t, KindAssumption DEF NewObject, controlVars
<1>2. CASE StoreObject
  <2> PICK dst \in Targets, o \in Loadable : StoreObject!(dst, o)
    BY <1>2 DEF StoreObject
  <2>1. dst \in Slot /\ o \in Object
    BY LoadedStates DEF Targets, LiveSlots, Slot
  <2>2. [type |-> "object", ref |-> o] \in Value
    BY <2>1 DEF Value
  <2>3. value' = [value EXCEPT ![dst] = [type |-> "object", ref |-> o]]
    OBVIOUS
  <2>4. value' \in [Slot -> Value]
    <3> DEFINE x == [type |-> "object", ref |-> o]
    <3> HIDE DEF x
    <3>1. value' = [value EXCEPT ![dst] = x] /\ x \in Value
      BY <2>2, <2>3 DEF x
    <3> QED  BY <3>1, <1>t
  <2>5. temps' \in [Levels -> SUBSET Object]
    BY <2>1, <1>t
  <2>6. UNCHANGED <<state, kind, nodeOf, depth, entry, controlVars>>
    OBVIOUS
  <2> QED  BY <2>4, <2>5, <2>6, <1>t DEF controlVars
<1>3. CASE EndStatement
  BY <1>3, <1>c, <1>t DEF EndStatement, controlVars
<1>4. CASE Call
  <2>1. value' \in [Slot -> Value]
    BY <1>4, <1>t DEF Call
  <2>2. depth' \in [Frames -> 0..2]
    <3>1. depth' = [depth EXCEPT ![idxCurrentStack + 1] = 1] /\ 1 \in 0..2
      BY <1>4 DEF Call
    <3> QED  BY <3>1, <1>t
  <2> QED  BY <1>4, <2>1, <2>2, <1>t DEF Call, controlVars
<1>5. CASE PushScope
  <2>1. depth[frame] + 1 \in 0..2
    BY <1>5, <1>t, BlockAssumption DEF PushScope, BodyDepth
  <2>2. depth' = [depth EXCEPT ![frame] = depth[frame] + 1]
    BY <1>5 DEF PushScope
  <2>3. depth' \in [Frames -> 0..2]
    BY <2>1, <2>2, <1>t
  <2> QED  BY <1>5, <2>3, <1>t DEF PushScope, controlVars
<1>6. CASE PopScope \/ Return \/ MainExit \/ clearGlobals
  BY <1>6, <1>c, <1>t DEF PopScope, Return, MainExit, clearGlobals, objectVars, ScopeVars
<1>7. CASE ReturnObject
  <2> PICK o \in Loadable : ReturnObject!(o)
    BY <1>7 DEF ReturnObject
  <2>1. o \in Object
    BY LoadedStates
  <2>2. nodeOf' \in [Object -> Node \cup {Null}]
    BY <2>1, <1>t
  <2>3. temps' \in [Levels -> SUBSET Object]
    BY <1>t
  <2> QED  BY <2>1, <2>2, <2>3, <1>c, <1>t DEF ScopeVars
<1>20. CASE MainReturnsObject
  <2> PICK o \in Loadable : MainReturnsObject!(o)
    BY <1>20 DEF MainReturnsObject
  <2>1. nodeOf' \in [Object -> Node \cup {Null}]
    BY LoadedStates, <1>t
  <2>2. temps' \in [Levels -> SUBSET Object]
    BY <1>t
  <2> QED  BY <2>1, <2>2, <1>c, <1>t
<1>8. CASE stackDumped
  <2>1. temps' \in [Levels -> SUBSET Object]
    BY <1>8 DEF stackDumped
  <2>2. UNCHANGED <<state, kind, nodeOf, value, depth, pending, cascade, ret>>
    BY <1>8 DEF stackDumped
  <2>3. CASE OpenFrames = {}
    BY <2>1, <2>2, <2>3, <1>8, <1>c, <1>t DEF stackDumped
  <2>4. CASE OpenFrames # {}
    BY <2>1, <2>2, <2>4, <1>8, <1>c, <1>t DEF stackDumped, ScopeVars
  <2> QED  BY <2>3, <2>4
<1>9. CASE Execute
  <2>1. depth' \in [Frames -> 0..2]
    BY <1>9, <1>t DEF Execute
  <2>2. value' = value
    BY <1>9, CallsFromCStoreNothing
  <2> QED  BY <1>9, <2>1, <2>2, <1>t DEF Execute
<1>10. CASE TakeResult
  <2> PICK nd \in Node : TakeResult!(nd)
    BY <1>10 DEF TakeResult
  <2>1. ret \in Object
    BY <1>t DEF ContainerInv, Phases
  <2>2. temps' \in [Levels -> SUBSET Object]
    <3>1. CASE temps' = temps
      BY <3>1, <1>t
    <3>2. CASE temps' = [temps EXCEPT ![idxCurrentStack] = @ \cup {ret}]
      BY <3>2, <2>1, <1>t
    <3> QED  BY <3>1, <3>2
  <2> QED  BY <2>1, <2>2, <1>t
<1>11. CASE UnrefElement
  <2> DEFINE s == Head(cascade)
             held == IF kind[s[1]] = "vector" THEN value[s].ref # Null ELSE HoldsObject(s)
  <2>1. /\ cascade \in Seq(MemberSlot) /\ cascade # <<>>
        /\ IF held THEN unrefSharedPtr(value[s].ref, Tail(cascade), TRUE)
                   ELSE cascade' = Tail(cascade)
        /\ UNCHANGED <<objectVars, mode, why, popping, pending, ret>>
    BY <1>11, <1>t DEF UnrefElement
  <2>2. s \in Slot /\ Tail(cascade) \in Seq(MemberSlot)
    BY <2>1 DEF Slot
  <2>3. held => value[s].ref \in Object
    BY <2>2, <1>t DEF HoldsObject, Value
  <2> HIDE DEF s, held
  <2>4. cascade' \in Seq(MemberSlot)
    BY <2>1, <2>2, <2>3, UnrefIsTyped
  <2> QED  BY <2>1, <2>4, <1>t DEF objectVars
<1>12. CASE PopLocal
  <2> PICK v \in popping : PopLocal!(v)
    BY <1>12 DEF PopLocal
  <2> DEFINE s == <<PoppedFrame, v>>
  <2>1. /\ mode = "pop" /\ cascade = <<>>
        /\ IF HoldsObject(s) THEN unrefSharedPtr(value[s].ref, <<>>, FALSE)
                             ELSE UNCHANGED cascade
        /\ value' = [value EXCEPT ![s] = Undefined] /\ popping' = popping \ {v}
        /\ UNCHANGED <<state, kind, nodeOf, depth, temps, cells, entry, mode, why, pending, ret>>
    OBVIOUS
  <2>2. s \in Slot
    BY <2>1, <1>t, PoppedIsKnown, SlotKinds DEF ContainerInv
  <2> HIDE DEF s
  <2>3. HoldsObject(s) => value[s].ref \in Object
    BY <2>2, <1>t DEF HoldsObject, Value
  <2>4. cascade' \in Seq(MemberSlot)
    <3>1. <<>> \in Seq(MemberSlot) /\ FALSE \in BOOLEAN
      OBVIOUS
    <3>2. CASE HoldsObject(s)
      BY <2>1, <2>3, <3>1, <3>2, UnrefIsTyped
    <3> QED  BY <2>1, <3>1, <3>2
  <2>5. value' \in [Slot -> Value]
    BY <2>1, <1>t
  <2> QED  BY <2>1, <2>4, <2>5, <1>t
<1>13. CASE ReleaseMember
  <2> PICK m \in pending : ReleaseMember!(m)
    BY <1>13 DEF ReleaseMember
  <2> DEFINE s == <<shared_ptr[current], m>>
  <2>1. /\ cascade = <<>> /\ current # Null
        /\ IF HoldsObject(s) THEN unrefSharedPtr(value[s].ref, <<>>, FALSE)
                             ELSE UNCHANGED cascade
        /\ value' = [value EXCEPT ![s] = Undefined] /\ pending' = pending \ {m}
        /\ UNCHANGED <<state, kind, nodeOf, depth, temps, cells, entry, mode, why, popping, ret>>
    OBVIOUS
  <2>2. s \in Slot
    <3>1. shared_ptr[current] \in Object
      BY <2>1, Typed DEF SweptNodeIsCandidate, ContainerInv, Heap, CandidateNodes
    <3> QED  BY <3>1, <1>t, SlotKinds
  <2> HIDE DEF s
  <2>3. HoldsObject(s) => value[s].ref \in Object
    BY <2>2, <1>t DEF HoldsObject, Value
  <2>4. cascade' \in Seq(MemberSlot)
    <3>1. <<>> \in Seq(MemberSlot) /\ FALSE \in BOOLEAN
      OBVIOUS
    <3>2. CASE HoldsObject(s)
      BY <2>1, <2>3, <3>1, <3>2, UnrefIsTyped
    <3> QED  BY <2>1, <3>1, <3>2
  <2>5. value' \in [Slot -> Value]
    BY <2>1, <1>t
  <2> QED  BY <2>1, <2>4, <2>5, <1>t
<1>14. CASE BeginSweep \/ SweepVisit
  BY <1>14, <1>t DEF BeginSweep, SweepVisit, objectVars
<1>15. CASE SweepFree
  <2>1. UNCHANGED <<kind, depth, temps, cells, entry, controlVars>>
    BY <1>15 DEF SweepFree
  <2>2. state' \in [Object -> {"unused", "alive", "deleted"}]
    BY <1>15, <1>t DEF SweepFree
  <2>3. nodeOf' \in [Object -> Node \cup {Null}]
    BY <1>15, <1>t DEF SweepFree
  <2>4. value' \in [Slot -> Value]
    BY <1>15, <1>t DEF SweepFree
  <2> QED  BY <2>1, <2>2, <2>3, <2>4, <1>t DEF controlVars
<1>16. CASE EndBlock \/ EndScope
  <2>1. PoppedFrame \in Frames /\ depth[PoppedFrame] \in 1..2
    BY <1>16, <1>t, PoppedIsKnown DEF EndBlock, EndScope, Swept, ContainerInv
  <2>2. depth' = [depth EXCEPT ![PoppedFrame] = depth[PoppedFrame] - 1]
    BY <1>16, <2>1, PoppedIsKnown DEF EndBlock, EndScope, Swept, ContainerInv
  <2>3. depth' \in [Frames -> 0..2]
    BY <2>1, <2>2, <1>t
  <2>4. UNCHANGED <<state, kind, nodeOf, value, temps, cells, entry, pending, cascade, ret>>
        /\ mode' \in {"run", "pop"} /\ why' \in {"none", why}
    BY <1>16 DEF EndBlock, EndScope
  <2>5. popping' \subseteq Var
    BY <1>16, <1>t DEF EndBlock, EndScope, ScopeVars
  <2> QED  BY <2>3, <2>4, <2>5, <1>t
<1>17. CASE LeaveFunction
  BY <1>17, <1>t DEF LeaveFunction
<1>18. CASE LeaveMachine
  <2>1. value' \in [Slot -> Value] /\ depth' \in [Frames -> 0..2]
    BY <1>18, <1>t DEF LeaveMachine
  <2> QED  BY <1>18, <2>1, <1>c, <1>t DEF LeaveMachine
<1>19. CASE UNCHANGED vars
  BY <1>19, <1>t DEF vars, objectVars, controlVars
<1> QED
  BY <1>1, <1>2, <1>3, <1>4, <1>5, <1>6, <1>7, <1>8, <1>9, <1>10, <1>11, <1>12, <1>13,
     <1>14, <1>15, <1>16, <1>17, <1>18, <1>19, <1>20, NoPrimitives DEF Next, Script, Machine

-----------------------------------------------------------------------------
(* The machine is a client of the pointer manager.                          *)

\* What is stored is an operand that no slot holds and that waits at the
\* running level.
LEMMA StoredOperand ==
    ASSUME StoredOnce, ContainerInv, Running, NEW o \in Loadable, Refs(o) = {}
    PROVE  /\ o \in Object /\ nodeOf[o] # Null /\ o \in temps[idxCurrentStack]
           /\ n_shares[nodeOf[o]] = 0 /\ nodeOf[o] \in zero_shares[idxCurrentStack]
           /\ \A s \in Slot : ~Holds(s, o)
<1>1. o \in Object /\ nodeOf[o] # Null
  BY LoadedStates
<1>2. \A s \in Slot : ~Holds(s, o)
  BY <1>1, HolderIsLive
<1>3. o \in temps[idxCurrentStack]
  BY <1>2, LoadedStates
<1> QED  BY <1>1, <1>2, <1>3, Typed DEF ContainerInv, OperandsWait

LEMMA ContainersUseManager ==
    ASSUME StoredOnce, ContainerInv, [Next]_vars
    PROVE  [ManagerNext]_managerVars
<1> USE DEF managerVars, ManagerNext, sweepVars, Running
<1>t. /\ idxCurrentStack \in Levels /\ nodes \subseteq Node
      /\ sweeping => mode = "sweep"
      /\ \A s \in Slot : HoldsObject(s) =>
            value[s].ref \in Object /\ (nodeOf[value[s].ref] # Null => nodeOf[value[s].ref] \in nodes)
  <2>1. \A s \in Slot : HoldsObject(s) =>
            value[s].ref \in Object /\ (nodeOf[value[s].ref] # Null => nodeOf[value[s].ref] \in nodes)
    BY HeldObject DEF HoldsObject, ContainerInv, Heap, OwnNode
  <2> QED  BY <2>1, Typed DEF ContainerInv, Phases
<1>u. ASSUME NEW nd \in nodes, sweeping => current # Null, unrefSharedScriptVar(nd),
             UNCHANGED <<idxCurrentStack, sweepVars>>
      PROVE  ManagerNext
  BY <1>u DEF Unref
<1>r. ASSUME NEW s \in Slot, HoldsObject(s), NEW rest, NEW failing,
             unrefSharedPtr(value[s].ref, rest, failing),
             sweeping => current # Null, UNCHANGED <<idxCurrentStack, sweepVars>>
      PROVE  [ManagerNext]_managerVars
  <2>1. CASE nodeOf[value[s].ref] = Null
    BY <1>r, <2>1 DEF unrefSharedPtr, nodeVars
  <2>2. CASE nodeOf[value[s].ref] # Null
    <3>1. unrefSharedScriptVar(nodeOf[value[s].ref]) /\ nodeOf[value[s].ref] \in nodes
      BY <1>r, <1>t, <2>2 DEF unrefSharedPtr
    <3> QED  BY <1>r, <1>u, <3>1
  <2> QED  BY <2>1, <2>2
<1>1. CASE NewObject
  BY <1>1, <1>t DEF NewObject, New
<1>2. CASE StoreObject
  <2> PICK dst \in Targets, o \in Loadable : StoreObject!(dst, o)
    BY <1>2 DEF StoreObject
  <2>1. /\ o \in Object /\ nodeOf[o] \in nodes
        /\ nodeOf[o] \in zero_shares[idxCurrentStack]
    BY StoredOperand, NodeOfObject DEF StoredOnce
  <2>2. nodeOf[o] \in zero_shares[currentStack[nodeOf[o]]]
    BY <2>1, Typed DEF ListsMatchCounts
  <2> QED  BY <2>1, <2>2, <1>t DEF Share
<1>3. CASE Call
  BY <1>3, <1>t DEF Call, EnterLevel
<1>4. CASE EndStatement \/ PushScope \/ PopScope \/ Return \/ MainExit \/ clearGlobals
  BY <1>4 DEF EndStatement, PushScope, PopScope, Return, MainExit, clearGlobals
<1>5. CASE ReturnObject \/ MainReturnsObject
  BY <1>5 DEF ReturnObject, MainReturnsObject
<1>6. CASE stackDumped
  BY <1>6, <1>t, Typed DEF stackDumped, LeaveLevel, nodeVars, Levels
<1>7. CASE Execute
  BY <1>7, <1>t, BoundAssumption DEF Execute, EnterLevel, ContainerInv, VarInv, OpenLevels
<1>8. CASE TakeResult
  <2>1. ret \in Object
    BY <1>8, Typed DEF TakeResult, ContainerInv, Phases, ObjectTypeOK
  <2> QED  BY <1>8, <2>1, <1>t DEF TakeResult, New
<1>9. CASE UnrefElement
  <2> DEFINE s == Head(cascade)
  <2>1. s \in Slot
    BY <1>9 DEF UnrefElement, ContainerInv, ObjectTypeOK, Slot
  <2>2. /\ UNCHANGED <<idxCurrentStack, sweepVars>> /\ (sweeping => current # Null)
        /\ \/ UNCHANGED nodeVars
           \/ value[s].ref # Null /\ unrefSharedPtr(value[s].ref, Tail(cascade), TRUE)
           \/ HoldsObject(s) /\ unrefSharedPtr(value[s].ref, Tail(cascade), TRUE)
    BY <1>9, <1>t DEF UnrefElement, ContainerInv, Phases
  <2> HIDE DEF s
  <2>3. CASE UNCHANGED nodeVars
    BY <2>2, <2>3 DEF nodeVars
  <2>4. CASE unrefSharedPtr(value[s].ref, Tail(cascade), TRUE) /\ ~UNCHANGED nodeVars
    <3>1. HoldsObject(s)
      BY <2>1, <2>2, <2>4, HeldObject DEF HoldsObject
    <3> QED  BY <1>r, <2>1, <2>2, <2>4, <3>1
  <2> QED  BY <2>2, <2>3, <2>4
<1>10. CASE PopLocal
  <2> PICK v \in popping : PopLocal!(v)
    BY <1>10 DEF PopLocal
  <2> DEFINE s == <<PoppedFrame, v>>
  <2>1. /\ mode = "pop" /\ UNCHANGED <<idxCurrentStack, sweepVars>>
        /\ IF HoldsObject(s) THEN unrefSharedPtr(value[s].ref, <<>>, FALSE)
                             ELSE UNCHANGED nodeVars
    OBVIOUS
  <2>2. s \in Slot /\ ~sweeping
    BY <2>1, <1>t, Typed, PoppedIsKnown, SlotKinds DEF ContainerInv, ObjectTypeOK
  <2> HIDE DEF s
  <2> QED  BY <1>r, <2>1, <2>2 DEF nodeVars
<1>11. CASE BeginSweep \/ EndBlock \/ EndScope
  BY <1>11 DEF BeginSweep, EndBlock, EndScope
<1>12. CASE SweepVisit
  BY <1>12 DEF SweepVisit, Sweep
<1>13. CASE ReleaseMember
  <2> PICK m \in pending : ReleaseMember!(m)
    BY <1>13 DEF ReleaseMember
  <2> DEFINE s == <<shared_ptr[current], m>>
  <2>1. /\ current # Null /\ UNCHANGED <<idxCurrentStack, sweepVars>>
        /\ IF HoldsObject(s) THEN unrefSharedPtr(value[s].ref, <<>>, FALSE)
                             ELSE UNCHANGED nodeVars
    OBVIOUS
  <2>2. s \in Slot
    <3>1. shared_ptr[current] \in Object
      BY <2>1, Typed DEF SweptNodeIsCandidate, ContainerInv, Heap, CandidateNodes
    <3> QED  BY <3>1, SlotKinds DEF ContainerInv, ObjectTypeOK
  <2> HIDE DEF s
  <2> QED  BY <1>r, <2>1, <2>2 DEF nodeVars
<1>14. CASE SweepFree
  BY <1>14 DEF SweepFree, Sweep
<1>15. CASE LeaveFunction
  <2>1. ~sweeping /\ idxCurrentStack >= 1
    BY <1>15, NoSweep DEF LeaveFunction, Swept, ContainerInv, VarInv, OpenLevels
  <2> QED  BY <1>15, <2>1, <1>t, Typed DEF LeaveFunction, LeaveLevel, Levels, nodeVars
<1>16. CASE LeaveMachine
  <2>1. ~sweeping
    BY <1>16, NoSweep DEF LeaveMachine
  <2> QED  BY <1>16, <2>1, <1>t, Typed DEF LeaveMachine, LeaveLevel, Levels, nodeVars
<1>17. CASE UNCHANGED vars
  BY <1>17 DEF vars
<1> QED
  BY <1>1, <1>2, <1>3, <1>4, <1>5, <1>6, <1>7, <1>8, <1>9, <1>10, <1>11, <1>12, <1>13,
     <1>14, <1>15, <1>16, <1>17, NoPrimitives DEF Next, Script, Machine

-----------------------------------------------------------------------------
(* What the machine does, and the object being returned.                    *)

\* A release moves nodes between lists.
LEMMA ReleaseMoves ==
    ASSUME UnrefElement \/ PopLocal \/ ReleaseMember
    PROVE  /\ UNCHANGED <<idxCurrentStack, sweepVars, shared_ptr, nodes>>
           /\ UNCHANGED <<state, kind, nodeOf, depth, temps, entry, mode, why, ret>>
           /\ pending' \subseteq pending
           /\ mode = "sweep" => current # Null \/ UnrefElement
<1>0. ASSUME NEW o, NEW rest, NEW failing, unrefSharedPtr(o, rest, failing)
      PROVE  UNCHANGED <<shared_ptr, nodes>>
  BY <1>0 DEF unrefSharedPtr, unrefSharedScriptVar, nodeVars
<1>1. CASE UnrefElement
  <2>1. UNCHANGED <<shared_ptr, nodes>>
    BY <1>0, <1>1 DEF UnrefElement, nodeVars
  <2> QED  BY <1>1, <2>1 DEF UnrefElement, objectVars
<1>2. CASE PopLocal
  <2>1. PICK v \in popping : PopLocal!(v)
    BY <1>2 DEF PopLocal
  <2>2. UNCHANGED <<shared_ptr, nodes>>
    BY <1>0, <2>1 DEF nodeVars
  <2> QED  BY <2>1, <2>2
<1>3. CASE ReleaseMember
  <2>1. PICK m \in pending : ReleaseMember!(m)
    BY <1>3 DEF ReleaseMember
  <2>2. UNCHANGED <<shared_ptr, nodes>>
    BY <1>0, <2>1 DEF nodeVars
  <2>3. /\ UNCHANGED <<idxCurrentStack, sweepVars>> /\ mode = "sweep" /\ current # Null
        /\ UNCHANGED <<state, kind, nodeOf, depth, temps, entry, mode, why, ret>>
        /\ pending' = pending \ {m}
    BY <2>1
  <2> QED  BY <2>2, <2>3
<1> QED  BY <1>1, <1>2, <1>3

LEMMA PhasesStay ==
    ASSUME StoredOnce, ContainerInv, [Next]_vars
    PROVE  Phases' /\ Result'
<1> USE DEF Running, managerVars, objectVars, controlVars, sweepVars
<1>t. /\ sweeping => mode = "sweep"
      /\ mode = "result" => ret # Null
      /\ finish => current # Null
      /\ current # Null => sweeping
      /\ pending # {} => current # Null /\ shared_ptr[current] # ret
      /\ mode = "sweep" /\ cascade # <<>> => current # Null
      /\ mode \in {"pop", "sweep"} /\ why = "error" => \A l \in Levels : temps[l] = {}
      /\ mode \in {"run", "idle"} => ret = Null /\ cascade = <<>>
      /\ ret # Null => /\ mode = "result" \/ (mode \in {"pop", "sweep"} /\ why = "return")
                       /\ state[ret] = "alive" /\ nodeOf[ret] = Null
  BY Typed, NoneIsDying DEF ContainerInv, Phases, Result, SweptNodeIsCandidate
<1>1. CASE NewObject \/ StoreObject \/ EndStatement \/ Call \/ PushScope \/ Execute
  <2>1. /\ mode \in {"run", "idle"} /\ mode' = "run"
        /\ UNCHANGED <<sweepVars, pending, cascade, ret>>
    BY <1>1 DEF NewObject, StoreObject, EndStatement, Call, PushScope, Execute
  <2> QED  BY <1>t, <2>1 DEF Phases, Result
<1>2. CASE PopScope \/ Return \/ MainExit \/ clearGlobals
  <2>1. /\ mode \in {"run", "idle"} /\ mode' \in {"pop", "sweep"} /\ why' # "error"
        /\ UNCHANGED <<sweepVars, pending, cascade, ret>>
    BY <1>2 DEF PopScope, Return, MainExit, clearGlobals
  <2> QED  BY <1>t, <2>1 DEF Phases, Result
<1>3. CASE ReturnObject
  <2> PICK o \in Loadable : ReturnObject!(o)
    BY <1>3 DEF ReturnObject
  <2>1. o \in Object /\ state[o] = "alive" /\ nodeOf'[o] = Null /\ o # Null
    BY LoadedStates, NodeOfObject, Typed, NullAssumption
  <2> QED  BY <1>t, <2>1 DEF Phases, Result
<1>13. CASE MainReturnsObject
  <2>1. /\ mode = "run" /\ mode' = "sweep" /\ why' = "main"
        /\ UNCHANGED <<sweepVars, pending, cascade, ret>>
    BY <1>13 DEF MainReturnsObject
  <2> QED  BY <1>t, <2>1 DEF Phases, Result
<1>4. CASE stackDumped
  <2>1. /\ mode = "run" /\ mode' \in {"pop", "idle"}
        /\ UNCHANGED <<sweepVars, pending, cascade, ret>> /\ \A l \in Levels : temps'[l] = {}
    BY <1>4 DEF stackDumped
  <2> QED  BY <1>t, <2>1 DEF Phases, Result
<1>5. CASE TakeResult
  <2>1. /\ mode = "result" /\ mode' = "run" /\ ret' = Null
        /\ UNCHANGED <<sweepVars, pending, cascade>>
    BY <1>5 DEF TakeResult
  <2> QED  BY <1>t, <2>1 DEF Phases, Result
<1>6. CASE UnrefElement \/ PopLocal \/ ReleaseMember
  <2>1. /\ UNCHANGED <<sweepVars, shared_ptr, state, nodeOf, temps, mode, why, ret>>
        /\ pending' \subseteq pending
    BY <1>6, ReleaseMoves
  <2>2. mode = "sweep" => current # Null
    BY <1>6, <1>t, ReleaseMoves DEF UnrefElement
  <2> QED  BY <1>t, <2>1, <2>2 DEF Phases, Result
<1>7. CASE BeginSweep
  BY <1>7, <1>t DEF BeginSweep, Phases, Result
<1>8. CASE SweepVisit
  <2> PICK nd \in Node : SweepVisit!(nd)
    BY <1>8 DEF SweepVisit
  <2>1. /\ mode = "sweep" /\ current' = nd /\ current' # Null /\ nd \in Node
        /\ pending' # {} => shared_ptr'[nd] # ret'
        /\ UNCHANGED <<mode, why, ret, state, nodeOf, temps>>
    BY NullAssumption DEF RemoveVisit, nodeVars
  <2> QED  BY <1>t, <2>1 DEF Phases, Result
<1>9. CASE SweepFree
  <2>1. /\ mode = "sweep" /\ pending' = {} /\ cascade' = <<>> /\ finish' = FALSE
        /\ UNCHANGED <<mode, why, ret, temps>>
    BY <1>9 DEF SweepFree, RemoveFree
  <2>2. ret # Null => state'[ret] = "alive" /\ nodeOf'[ret] = Null
    <3> SUFFICES ASSUME ret # Null PROVE state'[ret] = "alive" /\ nodeOf'[ret] = Null
      OBVIOUS
    <3>1. ret \in Object /\ state[ret] = "alive" /\ nodeOf[ret] = Null
      BY <1>t DEF ContainerInv, ObjectTypeOK
    <3>2. \/ UNCHANGED <<state, nodeOf>>
          \/ shared_ptr[current] # ret
               /\ state' = [state EXCEPT ![shared_ptr[current]] = "deleted"]
               /\ nodeOf' = [nodeOf EXCEPT ![shared_ptr[current]] = Null]
      BY <1>9 DEF SweepFree
    <3> QED  BY <3>1, <3>2 DEF ContainerInv, ObjectTypeOK
  <2> QED  BY <1>t, <2>1, <2>2 DEF Phases, Result
<1>10. CASE EndBlock \/ EndScope \/ LeaveMachine
  <2>1. /\ mode = "sweep" /\ current = Null /\ mode' \in {"run", "pop", "idle"}
        /\ mode' = "pop" <=> EndScope
        /\ UNCHANGED <<sweepVars, pending, cascade, ret, state, nodeOf, temps>>
    BY <1>10 DEF EndBlock, EndScope, LeaveMachine, Swept
  <2>2. ~sweeping
    BY <1>10, NoSweep DEF EndBlock, EndScope, LeaveMachine
  <2>3. mode' = "pop" => why' = why
    BY <2>1 DEF EndScope
  <2>4. ~EndScope => why # "return"
    BY <1>10 DEF EndBlock, LeaveMachine
  <2> QED  BY <1>t, <2>1, <2>2, <2>3, <2>4 DEF Phases, Result
<1>11. CASE LeaveFunction
  <2>1. ~sweeping
    BY <1>11, NoSweep DEF LeaveFunction
  <2>2. mode = "sweep" /\ current = Null /\ mode' \in {"idle", "run", "result"}
    BY <1>11 DEF LeaveFunction, Swept
  <2>3. /\ ret' # Null => mode' = "result" /\ ret' = ret
        /\ mode' = "result" => ret' # Null
        /\ UNCHANGED <<sweepVars, pending, cascade, state, nodeOf>>
    BY <1>11 DEF LeaveFunction
  <2> QED  BY <1>t, <2>1, <2>2, <2>3 DEF Phases, Result
<1>12. CASE UNCHANGED vars
  BY <1>12, <1>t DEF vars, Phases, Result
<1> QED
  BY <1>1, <1>2, <1>3, <1>4, <1>5, <1>6, <1>7, <1>8, <1>9, <1>10, <1>11, <1>12, <1>13,
     NoPrimitives DEF Next, Script, Machine

-----------------------------------------------------------------------------
(* The instructions of a running script.                                    *)

\* While a script runs nothing is being released.
LEMMA Calm ==
    ASSUME ContainerInv, mode \notin {"pop", "sweep"}
    PROVE  /\ ~finish /\ cascade = <<>>
           /\ \A o \in Object : ~Dying(o)
           /\ \A s \in Slot, o \in Object : Holds(s, o) =>
                  (state[o] = "alive" /\ nodeOf[o] # Null) \/ (o = ret /\ mode # "result")
           /\ mode # "result" => ret = Null
<1>1. ~finish /\ cascade = <<>> /\ \A o \in Object : ~Dying(o)
  BY NoSweep, NoneIsDying
<1>2. mode # "result" => ret = Null
  BY DEF ContainerInv, Result
<1>3. ASSUME NEW s \in Slot, NEW o \in Object, Holds(s, o)
      PROVE  \/ state[o] = "alive" /\ nodeOf[o] # Null
             \/ o = ret /\ mode # "result"
  <2>1. CASE \E f \in Frames, v \in Var : s = <<f, v>>
    BY <1>3, <2>1 DEF ContainerInv, Heap, VariablesHold, Owned
  <2>2. CASE \E c \in Object, m \in Member : s = <<c, m>>
    BY <1>3, <2>2, NoneIsDying DEF Owned, Forgotten
  <2> QED  BY <2>1, <2>2, SlotKinds
<1> QED  BY <1>1, <1>2, <1>3

\* A node is made for an object that has none and that nothing holds.
LEMMA NewNode ==
    ASSUME ContainerInv, mode \in {"run", "result"}, mode' = "run",
           NEW o \in Object, NEW nd \in Node, nodeOf[o] = Null, \A s \in Slot : ~Holds(s, o),
           newSharedPointer(nd, o), nodeOf' = [nodeOf EXCEPT ![o] = nd],
           state' = [state EXCEPT ![o] = "alive"],
           UNCHANGED <<idxCurrentStack, sweepVars, value, cascade>>,
           temps' \in {temps, [temps EXCEPT ![idxCurrentStack] = @ \cup {o}]}
    PROVE  Heap' /\ CascadeOfDying' /\ OperandsWait'
<1> USE DEF ContainerInv, Heap, sweepVars
<1>t. /\ idxCurrentStack \in Levels /\ idxCurrentStack >= 1
      /\ state' \in [Object -> {"unused", "alive", "deleted"}]
      /\ \A p \in Object : p # o => state'[p] = state[p] /\ nodeOf'[p] = nodeOf[p]
      /\ state'[o] = "alive" /\ nodeOf'[o] = nd /\ nd # Null
  BY Typed, NullAssumption DEF ObjectTypeOK, VarInv, OpenLevels
<1>n. /\ nd \notin nodes /\ nodes' = nodes \cup {nd}
      /\ n_shares'[nd] = 0 /\ shared_ptr'[nd] = o
      /\ \A x \in Node : x # nd => n_shares'[x] = n_shares[x] /\ shared_ptr'[x] = shared_ptr[x]
      /\ zero_shares'[idxCurrentStack] = zero_shares[idxCurrentStack] \cup {nd}
      /\ \A l \in Levels : l # idxCurrentStack => zero_shares'[l] = zero_shares[l]
  BY Typed DEF newSharedPointer, IManager, ManagerInv, ManagerTypeOK
<1>o. \A p \in Object : p # o /\ nodeOf[p] # Null =>
          nodeOf[p] # nd /\ nodeOf[p] \in Node /\ nodeOf[p] \in nodes
  BY <1>n, NodeOfObject
<1>w. \A l \in Levels : \A x \in zero_shares[l] : x \in Node /\ x # nd
  BY <1>n, WaitingNode
<1>h. \A s \in Slot, p \in Object : Holds(s, p)' => Holds(s, p) /\ p # o
  BY DEF Holds
<1>1. OwnNode'
  BY <1>t, <1>n, <1>o DEF OwnNode
<1>2. CandidateNodes'
  <2> SUFFICES ASSUME NEW l \in Levels, NEW x \in zero_shares'[l]
               PROVE  /\ shared_ptr'[x] \in Object /\ state'[shared_ptr'[x]] = "alive"
                      /\ nodeOf'[shared_ptr'[x]] = x
    BY DEF CandidateNodes, DistinctCandidates
  <2>1. CASE x = nd
    BY <2>1, <1>t, <1>n
  <2>2. CASE x # nd
    <3>1. x \in zero_shares[l] /\ x \in Node
      BY <2>2, <1>n, <1>w
    <3>2. /\ shared_ptr[x] \in Object /\ state[shared_ptr[x]] = "alive"
          /\ nodeOf[shared_ptr[x]] = x
      BY <3>1, Calm, NullAssumption DEF CandidateNodes, LostByMain
    <3>3. shared_ptr[x] # o
      BY <3>1, <3>2, NullAssumption
    <3> QED  BY <2>2, <3>1, <3>2, <3>3, <1>t, <1>n
  <2> QED  BY <2>1, <2>2
<1>3. PlainValues' /\ OneHolder'
  BY <1>h DEF PlainValues, OneHolder
<1>4. AtMostOneShare'
  <2> SUFFICES ASSUME NEW p \in Object, nodeOf'[p] # Null
               PROVE  n_shares'[nodeOf'[p]] \in {0, 1}
    BY DEF AtMostOneShare
  <2>1. CASE p = o
    BY <2>1, <1>t, <1>n
  <2>2. CASE p # o
    BY <2>2, <1>t, <1>n, <1>o DEF AtMostOneShare
  <2> QED  BY <2>1, <2>2
<1>5. DeadMembers'
  BY <1>t DEF DeadMembers
<1>s. \A p \in Object : p # o => (Owned(p) => Owned(p)') /\ (Forgotten(p) => Forgotten(p)')
  <2> SUFFICES ASSUME NEW p \in Object, p # o, nodeOf[p] # Null
               PROVE  (Owned(p) => Owned(p)') /\ (Forgotten(p) => Forgotten(p)')
    BY DEF Owned, Forgotten
  <2>1. /\ nodeOf'[p] = nodeOf[p] /\ state'[p] = state[p]
        /\ n_shares'[nodeOf[p]] = n_shares[nodeOf[p]]
        /\ \A l \in Levels : nodeOf[p] \in zero_shares'[l] => nodeOf[p] \in zero_shares[l]
    BY <1>t, <1>n, <1>o
  <2> QED  BY <2>1 DEF Owned, Forgotten, Listed
<1>6. VariablesHold'
  <2> SUFFICES ASSUME NEW f \in Frames, NEW v \in Var, NEW p \in Object, Holds(<<f, v>>, p)'
               PROVE  Owned(p)'
    BY DEF VariablesHold
  <2>1. Holds(<<f, v>>, p) /\ p # o
    BY <1>h, SlotKinds
  <2>2. p # ret \/ mode = "result"
    BY <2>1, Calm, NullAssumption
  <2> QED  BY <2>1, <2>2, <1>s DEF VariablesHold
<1>7. MembersHold'
  <2> SUFFICES ASSUME NEW c \in Object, NEW m \in Member, NEW p \in Object, Holds(<<c, m>>, p)'
               PROVE  Owned(p)' \/ (Forgotten(c)' /\ Forgotten(p)')
    BY DEF MembersHold
  <2>1. Holds(<<c, m>>, p) /\ p # o
    BY <1>h, SlotKinds
  <2>2. Owned(p) \/ (Forgotten(c) /\ Forgotten(p))
    <3> HIDE DEF ContainerInv, Heap
    <3> QED  BY <2>1, NoneIsDying
  <2>3. Forgotten(c) => c # o
    BY DEF Forgotten
  <2> QED  BY <2>1, <2>2, <2>3, <1>s
<1>8. LastVisit' /\ CascadeOfDying'
  <2>1. ~finish' /\ cascade' = <<>>
    BY Calm
  <2> QED  BY <2>1 DEF LastVisit, CascadeOfDying
<1>9. OperandsWait'
  <2> SUFFICES ASSUME NEW l \in Levels, NEW p \in temps'[l]
               PROVE  /\ 1 <= l /\ l <= idxCurrentStack
                      /\ nodeOf'[p] # Null
                      /\ \/ n_shares'[nodeOf'[p]] = 0 /\ nodeOf'[p] \in zero_shares'[l]
                         \/ /\ n_shares'[nodeOf'[p]] = 1 /\ l = idxCurrentStack
                            /\ \E s \in Slot : Holds(s, p)'
    BY DEF OperandsWait
  <2>1. CASE p \in temps[l]
    <3>1. p \in Object /\ nodeOf[p] # Null /\ p # o
      BY <2>1, Typed DEF OperandsWait
    <3>2. /\ nodeOf'[p] = nodeOf[p] /\ n_shares'[nodeOf[p]] = n_shares[nodeOf[p]]
          /\ nodeOf[p] \in zero_shares[l] => nodeOf[p] \in zero_shares'[l]
      BY <3>1, <1>t, <1>n, <1>o
    <3>3. \A s \in Slot : Holds(s, p) => Holds(s, p)'
      BY DEF Holds
    <3> QED  BY <2>1, <3>1, <3>2, <3>3 DEF OperandsWait
  <2>2. CASE p \notin temps[l]
    <3>1. p = o /\ l = idxCurrentStack
      BY <2>2, <1>t DEF ObjectTypeOK
    <3>2. nd \in zero_shares'[idxCurrentStack] /\ n_shares'[nd] = 0
      BY <1>n
    <3> QED  BY <3>1, <3>2, <1>t DEF Levels
  <2> QED  BY <2>1, <2>2
<1> QED  BY <1>1, <1>2, <1>3, <1>4, <1>5, <1>6, <1>7, <1>8, <1>9

LEMMA NewObjectKeeps ==
    ASSUME ContainerInv, NewObject \/ TakeResult
    PROVE  Heap' /\ CascadeOfDying' /\ OperandsWait'
<1>1. CASE NewObject
  <2> PICK o \in Object, nd \in Node, k \in Kinds : NewObject!(o, nd, k)
    BY <1>1 DEF NewObject
  <2>1. nodeOf[o] = Null /\ \A s \in Slot : ~Holds(s, o)
    BY Calm, NullAssumption DEF Running, ContainerInv, Heap, OwnNode
  <2> QED  BY <2>1, NewNode DEF Running, controlVars
<1>2. CASE TakeResult
  <2> PICK nd \in Node : TakeResult!(nd)
    BY <1>2 DEF TakeResult
  <2>1. ret \in Object /\ state[ret] = "alive" /\ nodeOf[ret] = Null
    BY Typed DEF ContainerInv, Phases, Result, ObjectTypeOK
  <2>2. \A s \in Slot : ~Holds(s, ret)
    BY <2>1, Calm
  <2>3. state' = [state EXCEPT ![ret] = "alive"]
    BY <2>1 DEF ContainerInv, ObjectTypeOK
  <2> QED  BY <2>1, <2>2, <2>3, NewNode
<1> QED  BY <1>1, <1>2

\* A stored operand gets its share and leaves its list.
LEMMA StoreObjectKeeps ==
    ASSUME StoredOnce, ContainerInv, StoreObject
    PROVE  Heap' /\ CascadeOfDying' /\ OperandsWait'
<1> PICK dst \in Targets, o \in Loadable : StoreObject!(dst, o)
  BY DEF StoreObject
<1> DEFINE nd == nodeOf[o]
           held == [type |-> "object", ref |-> o]
<1>a. /\ Refs(o) = {} /\ value[dst].type # "object" /\ mode = "run" /\ mode' = "run"
      /\ sharePointer(nd) /\ value' = [value EXCEPT ![dst] = held]
      /\ temps' = [temps EXCEPT ![idxCurrentStack] = @ \cup {o}]
      /\ UNCHANGED <<idxCurrentStack, finish, current, state, nodeOf, cascade, ret, entry>>
  BY DEF StoredOnce, controlVars, sweepVars, Running
<1>o. /\ o \in Object /\ nd \in Node /\ nd # Null /\ n_shares[nd] = 0 /\ state[o] = "alive"
      /\ nd \in zero_shares[idxCurrentStack]
      /\ \A p \in Object : nodeOf[p] = nd => p = o
      /\ \A s \in Slot : ~Holds(s, o)
      /\ idxCurrentStack \in Levels
  BY <1>a, StoredOperand, NodeOfObject, Typed DEF Running
<1>d. dst \in Slot /\ dst \in LiveSlots
  BY DEF Targets, LiveSlots, Slot
<1>v. value'[dst] = held /\ \A s \in Slot : s # dst => value'[s] = value[s]
  BY <1>a, <1>d, Typed
<1>c. currentStack[nd] = idxCurrentStack /\ nodes' = nodes /\ shared_ptr' = shared_ptr
  BY <1>a, <1>o, Typed DEF ListsMatchCounts, sharePointer
<1>n. /\ n_shares'[nd] = 1 /\ \A x \in Node : x # nd => n_shares'[x] = n_shares[x]
      /\ \A l \in Levels : zero_shares'[l] = zero_shares[l] \ {nd}
  <2>1. /\ n_shares' = [n_shares EXCEPT ![nd] = n_shares[nd] + 1]
        /\ zero_shares' = [zero_shares EXCEPT ![idxCurrentStack] = @ \ {nd}]
    BY <1>a, <1>o, <1>c DEF sharePointer
  <2>2. \A l \in Levels : l # idxCurrentStack => nd \notin zero_shares[l]
    BY <1>o, WaitingNode
  <2> HIDE DEF nd
  <2>3. \A l \in Levels : zero_shares'[l] = zero_shares[l] \ {nd}
    BY <1>o, <2>1, <2>2, Typed
  <2> QED  BY <1>o, <2>1, <2>3, Typed
<1>h. /\ \A s \in Slot, p \in Object : p # o => (Holds(s, p)' <=> Holds(s, p))
      /\ \A s \in Slot : Holds(s, o)' <=> s = dst
  <2>1. \A p \in Object : ~Holds(dst, p)
    BY <1>a DEF Holds
  <2>2. \A p \in Object : Holds(dst, p)' <=> p = o
    BY <1>v DEF Holds
  <2>3. \A s \in Slot, p \in Object : s # dst => (Holds(s, p)' <=> Holds(s, p))
    BY <1>v DEF Holds
  <2> QED  BY <1>o, <1>d, <2>1, <2>2, <2>3
<1> HIDE DEF nd, held
<1>p. \A p \in Object : p # o /\ nodeOf[p] # Null =>
          /\ nodeOf[p] # nd /\ nodeOf[p] \in Node
          /\ n_shares'[nodeOf[p]] = n_shares[nodeOf[p]]
          /\ \A l \in Levels : nodeOf[p] \in zero_shares'[l] <=> nodeOf[p] \in zero_shares[l]
  <2>1. \A p \in Object : p # o /\ nodeOf[p] # Null => nodeOf[p] # nd /\ nodeOf[p] \in Node
    BY <1>o, NodeOfObject
  <2> QED  BY <1>n, <2>1
<1>1. OwnNode'
  BY <1>a, <1>c DEF ContainerInv, Heap, OwnNode
<1>2. CandidateNodes'
  BY <1>a, <1>c, <1>n DEF ContainerInv, Heap, CandidateNodes, DistinctCandidates, LostByMain
<1>3. PlainValues'
  <2> SUFFICES ASSUME NEW s \in Slot
               PROVE  \/ value'[s].type = "object" /\ value'[s].ref \in Object
                      \/ value'[s].type = "undefined" /\ value'[s].ref = Null
    BY DEF PlainValues
  <2>1. CASE s = dst
    BY <2>1, <1>v, <1>o DEF held
  <2>2. CASE s # dst
    BY <2>2, <1>v DEF ContainerInv, Heap, PlainValues
  <2> QED  BY <2>1, <2>2
<1>4. OneHolder'
  BY <1>h DEF ContainerInv, Heap, OneHolder
<1>5. AtMostOneShare'
  <2> SUFFICES ASSUME NEW p \in Object, nodeOf[p] # Null
               PROVE  n_shares'[nodeOf[p]] \in {0, 1}
    BY <1>a DEF AtMostOneShare
  <2>1. CASE p = o
    BY <2>1, <1>n DEF nd
  <2>2. CASE p # o
    BY <2>2, <1>p DEF ContainerInv, Heap, AtMostOneShare
  <2> QED  BY <2>1, <2>2
<1>6. DeadMembers'
  <2> SUFFICES ASSUME NEW c \in Object, NEW m \in Member, state[c] # "alive"
               PROVE  value'[<<c, m>>].type # "object"
    BY <1>a DEF DeadMembers
  <2>1. <<c, m>> # dst
    BY <1>d, SlotKinds, DistinctAssumption DEF LiveSlots
  <2> QED  BY <2>1, <1>v, SlotKinds DEF ContainerInv, Heap, DeadMembers
<1>s. /\ Owned(o)' /\ ~Forgotten(o)
      /\ \A p \in Object : p # o => (Owned(p) => Owned(p)') /\ (Forgotten(p) => Forgotten(p)')
  <2>1. Owned(o)'
    BY <1>a, <1>o, <1>n DEF Owned, nd
  <2>2. ~Forgotten(o)
    BY <1>o DEF Forgotten, Listed, nd
  <2>3. \A p \in Object : p # o => (Owned(p) => Owned(p)') /\ (Forgotten(p) => Forgotten(p)')
    BY <1>a, <1>p DEF Owned, Forgotten, Listed
  <2> QED  BY <2>1, <2>2, <2>3
<1>k. \A p \in Object : p # ret
  BY <1>a, Calm, NullAssumption
<1>7. VariablesHold'
  <2> SUFFICES ASSUME NEW f \in Frames, NEW v \in Var, NEW p \in Object, Holds(<<f, v>>, p)'
               PROVE  Owned(p)'
    BY DEF VariablesHold
  <2>1. CASE p # o
    <3>1. Holds(<<f, v>>, p)
      BY <2>1, <1>h, SlotKinds
    <3>2. Owned(p)
      BY <3>1, <1>k DEF ContainerInv, Heap, VariablesHold
    <3> QED  BY <2>1, <3>2, <1>s
  <2> QED  BY <2>1, <1>s
<1>8. MembersHold'
  <2> SUFFICES ASSUME NEW c \in Object, NEW m \in Member, NEW p \in Object, Holds(<<c, m>>, p)'
               PROVE  Owned(p)' \/ (Forgotten(c)' /\ Forgotten(p)')
    BY DEF MembersHold
  <2>1. CASE p # o
    <3>1. Holds(<<c, m>>, p)
      BY <2>1, <1>h, SlotKinds
    <3>2. Owned(p) \/ (Forgotten(c) /\ Forgotten(p))
      BY <3>1, <1>a, NoneIsDying
    <3>3. Forgotten(c) => c # o
      BY <1>s
    <3> QED  BY <2>1, <3>2, <3>3, <1>s
  <2> QED  BY <2>1, <1>s
<1>9. LastVisit' /\ CascadeOfDying'
  <2>1. ~finish' /\ cascade' = <<>>
    BY <1>a, Calm
  <2> QED  BY <2>1 DEF LastVisit, CascadeOfDying
<1>10. OperandsWait'
  <2> SUFFICES ASSUME NEW l \in Levels, NEW p \in temps'[l]
               PROVE  /\ 1 <= l /\ l <= idxCurrentStack
                      /\ nodeOf[p] # Null
                      /\ \/ n_shares'[nodeOf[p]] = 0 /\ nodeOf[p] \in zero_shares'[l]
                         \/ /\ n_shares'[nodeOf[p]] = 1 /\ l = idxCurrentStack
                            /\ \E s \in Slot : Holds(s, p)'
    BY <1>a DEF OperandsWait
  <2>0. o \in temps[idxCurrentStack]
    BY <1>a, StoredOperand DEF Running
  <2>1. p \in temps[l]
    BY <2>0, <1>a, Typed DEF ContainerInv, ObjectTypeOK
  <2>2. /\ p \in Object /\ 1 <= l /\ l <= idxCurrentStack /\ nodeOf[p] # Null
        /\ \/ n_shares[nodeOf[p]] = 0 /\ nodeOf[p] \in zero_shares[l]
           \/ /\ n_shares[nodeOf[p]] = 1 /\ l = idxCurrentStack
              /\ \E s \in Slot : Holds(s, p)
    BY <2>1, Typed DEF ContainerInv, OperandsWait
  <2>3. CASE p # o
    BY <2>2, <2>3, <1>p, <1>h
  <2>4. CASE p = o
    <3>1. nodeOf[p] = nd /\ nd \in zero_shares[l]
      BY <2>2, <2>4, <1>o DEF nd
    <3>2. l = idxCurrentStack
      BY <3>1, <1>o, WaitingNode
    <3> QED  BY <2>2, <2>4, <3>1, <3>2, <1>n, <1>h, <1>d
  <2> QED  BY <2>3, <2>4
<1> QED  BY <1>1, <1>2, <1>3, <1>4, <1>5, <1>6, <1>7, <1>8, <1>9, <1>10 DEF Heap

\* The returned object gives up its node; only variables of the function that
\* returns it hold it.
LEMMA ReturnObjectKeeps ==
    ASSUME StoredOnce, ContainerInv, ReturnObject
    PROVE  Heap' /\ CascadeOfDying' /\ OperandsWait'
<1> PICK o \in Loadable : ReturnObject!(o)
  BY DEF ReturnObject
<1>a. /\ Refs(o) \subseteq {frame} \X Var /\ mode = "run" /\ mode' = "pop"
      /\ ret' = o /\ nodeOf' = [nodeOf EXCEPT ![o] = Null]
      /\ temps' = [temps EXCEPT ![idxCurrentStack] = {}]
      /\ UNCHANGED <<idxCurrentStack, nodes, n_shares, shared_ptr, zero_shares, finish, current,
                     state, value, cascade, entry>>
      /\ frame' = frame
  BY DEF StoredOnce, managerVars, Running, frame
<1>o. /\ o \in Object /\ nodeOf[o] # Null /\ nodeOf[o] \in Node /\ idxCurrentStack \in Levels
      /\ o \in temps[idxCurrentStack] \/ \E s \in Slot : Holds(s, o)
  BY <1>a, LoadedStates, NodeOfObject, Typed DEF Running
<1>p. nodeOf'[o] = Null /\ \A p \in Object : p # o => nodeOf'[p] = nodeOf[p]
  BY <1>a, <1>o, Typed
<1>r. \A p \in Object : p # ret
  BY <1>a, Calm, NullAssumption
<1>h. /\ \A c \in Object, m \in Member : ~Holds(<<c, m>>, o)
      /\ \A f \in Frames, v \in Var : Holds(<<f, v>>, o) => f = frame /\ Owned(o)
  <2>1. \A s \in Slot : Holds(s, o) => s \in {frame} \X Var
    BY <1>a, <1>o, HolderIsLive
  <2>2. frame \in Frames
    BY FrameIsKnown DEF ContainerInv, VarInv
  <2>3. \A f \in Frames, v \in Var : Holds(<<f, v>>, o) => Owned(o)
    BY <1>o, <1>r DEF ContainerInv, Heap, VariablesHold
  <2>4. \A c \in Object, m \in Member : <<c, m>> \notin {frame} \X Var
    BY <2>2, SlotKinds
  <2>5. \A c \in Object, m \in Member : ~Holds(<<c, m>>, o)
    BY <2>1, <2>4, SlotKinds
  <2>6. \A f \in Frames, v \in Var : Holds(<<f, v>>, o) => f = frame
    BY <2>1, SlotKinds
  <2> QED  BY <2>3, <2>5, <2>6
<1>w. /\ n_shares[nodeOf[o]] = 0 =>
            o \in temps[idxCurrentStack] /\ nodeOf[o] \in zero_shares[idxCurrentStack]
      /\ ~Forgotten(o)
  <2>1. (\E s \in Slot : Holds(s, o)) => n_shares[nodeOf[o]] = 1
    BY <1>h, SlotKinds DEF Owned
  <2>2. n_shares[nodeOf[o]] = 0 =>
            o \in temps[idxCurrentStack] /\ nodeOf[o] \in zero_shares[idxCurrentStack]
    BY <2>1, <1>o DEF ContainerInv, OperandsWait
  <2> QED  BY <2>2, <1>o DEF Forgotten, Listed
<1>l. \A l \in Levels : nodeOf[o] \in zero_shares[l] => l = idxCurrentStack
  BY <1>o, <1>w, WaitingNode
<1>1. OwnNode' /\ AtMostOneShare'
  BY <1>a, <1>p DEF ContainerInv, Heap, OwnNode, AtMostOneShare
<1>2. CandidateNodes'
  <2> SUFFICES ASSUME NEW l \in Levels, NEW x \in zero_shares[l]
               PROVE  /\ shared_ptr[x] \in Object /\ state[shared_ptr[x]] = "alive"
                      /\ \/ nodeOf'[shared_ptr[x]] = x
                         \/ shared_ptr[x] = o /\ l = idxCurrentStack
    BY <1>a DEF CandidateNodes, DistinctCandidates, ContainerInv, Heap
  <2>1. /\ shared_ptr[x] \in Object /\ state[shared_ptr[x]] = "alive"
        /\ nodeOf[shared_ptr[x]] = x
    BY <1>a, <1>r DEF ContainerInv, Heap, CandidateNodes, LostByMain
  <2> QED  BY <2>1, <1>p, <1>l
<1>3. PlainValues' /\ OneHolder' /\ DeadMembers'
  BY <1>a DEF ContainerInv, Heap, PlainValues, OneHolder, DeadMembers, Holds
<1>s. \A p \in Object : p # o => (Owned(p) => Owned(p)') /\ (Forgotten(p) => Forgotten(p)')
  BY <1>a, <1>p DEF Owned, Forgotten, Listed
<1>4. VariablesHold'
  <2> SUFFICES ASSUME NEW f \in Frames, NEW v \in Var, NEW p \in Object, Holds(<<f, v>>, p)
               PROVE  Owned(p)' \/ (p = o /\ f = frame)
    BY <1>a DEF VariablesHold, Holds
  <2>1. CASE p # o
    <3>1. Owned(p)
      BY <1>r DEF ContainerInv, Heap, VariablesHold
    <3> QED  BY <2>1, <3>1, <1>s
  <2> QED  BY <2>1, <1>h
<1>5. MembersHold'
  <2> SUFFICES ASSUME NEW c \in Object, NEW m \in Member, NEW p \in Object, Holds(<<c, m>>, p)
               PROVE  Owned(p)' \/ (Forgotten(c)' /\ Forgotten(p)')
    BY <1>a DEF MembersHold, Holds
  <2>1. p # o
    BY <1>h
  <2>2. Owned(p) \/ (Forgotten(c) /\ Forgotten(p))
    BY <1>a, NoneIsDying
  <2>3. Forgotten(c) => c # o
    BY <1>w
  <2> QED  BY <2>1, <2>2, <2>3, <1>s
<1>6. LastVisit' /\ CascadeOfDying'
  <2>1. ~finish' /\ cascade' = <<>>
    BY <1>a, Calm
  <2> QED  BY <2>1 DEF LastVisit, CascadeOfDying
<1>7. OperandsWait'
  <2> SUFFICES ASSUME NEW l \in Levels, NEW p \in temps'[l]
               PROVE  /\ 1 <= l /\ l <= idxCurrentStack /\ nodeOf'[p] # Null
                      /\ n_shares[nodeOf'[p]] = 0 /\ nodeOf'[p] \in zero_shares[l]
                      /\ l # idxCurrentStack
    BY <1>a DEF OperandsWait
  <2>1. l # idxCurrentStack /\ p \in temps[l]
    BY <1>a, <1>o, Typed DEF ContainerInv, ObjectTypeOK
  <2>2. /\ p \in Object /\ 1 <= l /\ l <= idxCurrentStack /\ nodeOf[p] # Null
        /\ n_shares[nodeOf[p]] = 0 /\ nodeOf[p] \in zero_shares[l]
    BY <2>1, Typed DEF ContainerInv, OperandsWait
  <2>3. p # o
    BY <2>1, <2>2, <1>l
  <2> QED  BY <2>1, <2>2, <2>3, <1>p
<1> QED  BY <1>1, <1>2, <1>3, <1>4, <1>5, <1>6, <1>7 DEF Heap

\* What main returns nothing holds, and its node waits at main's level.
LEMMA MainReturnsObjectKeeps ==
    ASSUME StoredOnce, ContainerInv, MainReturnsObject
    PROVE  Heap' /\ CascadeOfDying' /\ OperandsWait'
<1> PICK o \in Loadable : MainReturnsObject!(o)
  BY DEF MainReturnsObject
<1>a. /\ Refs(o) = {} /\ mode = "run" /\ mode' = "sweep" /\ why' = "main"
      /\ nodeOf' = [nodeOf EXCEPT ![o] = Null]
      /\ temps' = [temps EXCEPT ![idxCurrentStack] = {}]
      /\ UNCHANGED <<idxCurrentStack, nodes, n_shares, shared_ptr, zero_shares, finish, current,
                     state, value, cascade, entry, ret>>
      /\ frame' = frame
  BY DEF StoredOnce, managerVars, Running, frame
<1>o. /\ o \in Object /\ nodeOf[o] # Null /\ nodeOf[o] \in Node /\ idxCurrentStack \in Levels
      /\ nodeOf[o] \in zero_shares[idxCurrentStack]
      /\ \A s \in Slot : ~Holds(s, o)
  BY <1>a, StoredOperand, NodeOfObject, Typed DEF Running
<1>p. nodeOf'[o] = Null /\ \A p \in Object : p # o => nodeOf'[p] = nodeOf[p]
  BY <1>a, <1>o, Typed
<1>r. \A p \in Object : p # ret
  BY <1>a, Calm, NullAssumption
<1>l. \A l \in Levels : nodeOf[o] \in zero_shares[l] => l = idxCurrentStack
  BY <1>o, WaitingNode
<1>1. OwnNode' /\ AtMostOneShare'
  BY <1>a, <1>p DEF ContainerInv, Heap, OwnNode, AtMostOneShare
<1>2. CandidateNodes'
  <2> SUFFICES ASSUME NEW l \in Levels, NEW x \in zero_shares[l]
               PROVE  /\ shared_ptr[x] \in Object /\ state[shared_ptr[x]] = "alive"
                      /\ \/ nodeOf'[shared_ptr[x]] = x
                         \/ nodeOf'[shared_ptr[x]] = Null /\ l = idxCurrentStack
    BY <1>a DEF CandidateNodes, DistinctCandidates, LostByMain, ContainerInv, Heap
  <2>1. /\ shared_ptr[x] \in Object /\ state[shared_ptr[x]] = "alive"
        /\ nodeOf[shared_ptr[x]] = x
    BY <1>a, <1>r DEF ContainerInv, Heap, CandidateNodes, LostByMain
  <2> QED  BY <2>1, <1>p, <1>l
<1>3. PlainValues' /\ OneHolder' /\ DeadMembers'
  BY <1>a DEF ContainerInv, Heap, PlainValues, OneHolder, DeadMembers, Holds
<1>s. /\ \A p \in Object : p # o => (Owned(p) => Owned(p)') /\ (Forgotten(p) => Forgotten(p)')
      /\ ~Forgotten(o)
  BY <1>a, <1>o, <1>p DEF Owned, Forgotten, Listed
<1>4. VariablesHold'
  <2> SUFFICES ASSUME NEW f \in Frames, NEW v \in Var, NEW p \in Object, Holds(<<f, v>>, p)
               PROVE  Owned(p)'
    BY <1>a DEF VariablesHold, Holds
  <2>1. Owned(p) /\ p # o
    BY <1>o, <1>r, SlotKinds DEF ContainerInv, Heap, VariablesHold
  <2> QED  BY <2>1, <1>s
<1>5. MembersHold'
  <2> SUFFICES ASSUME NEW c \in Object, NEW m \in Member, NEW p \in Object, Holds(<<c, m>>, p)
               PROVE  Owned(p)' \/ (Forgotten(c)' /\ Forgotten(p)')
    BY <1>a DEF MembersHold, Holds
  <2>1. p # o
    BY <1>o, SlotKinds
  <2>2. Owned(p) \/ (Forgotten(c) /\ Forgotten(p))
    BY <1>a, NoneIsDying
  <2> QED  BY <2>1, <2>2, <1>s
<1>6. LastVisit' /\ CascadeOfDying'
  <2>1. ~finish' /\ cascade' = <<>>
    BY <1>a, Calm
  <2> QED  BY <2>1 DEF LastVisit, CascadeOfDying
<1>7. OperandsWait'
  <2> SUFFICES ASSUME NEW l \in Levels, NEW p \in temps'[l]
               PROVE  /\ 1 <= l /\ l <= idxCurrentStack /\ nodeOf'[p] # Null
                      /\ n_shares[nodeOf'[p]] = 0 /\ nodeOf'[p] \in zero_shares[l]
                      /\ l # idxCurrentStack
    BY <1>a DEF OperandsWait
  <2>1. l # idxCurrentStack /\ p \in temps[l]
    BY <1>a, <1>o, Typed DEF ContainerInv, ObjectTypeOK
  <2>2. /\ p \in Object /\ 1 <= l /\ l <= idxCurrentStack /\ nodeOf[p] # Null
        /\ n_shares[nodeOf[p]] = 0 /\ nodeOf[p] \in zero_shares[l]
    BY <2>1, Typed DEF ContainerInv, OperandsWait
  <2>3. p # o
    BY <2>1, <2>2, <1>l
  <2> QED  BY <2>1, <2>2, <2>3, <1>p
<1> QED  BY <1>1, <1>2, <1>3, <1>4, <1>5, <1>6, <1>7 DEF Heap

\* The other instructions, and what C++ starts.
LEMMA OthersKeep ==
    ASSUME StoredOnce, ContainerInv,
           \/ EndStatement \/ Call \/ PushScope \/ PopScope \/ Return \/ MainExit
           \/ stackDumped \/ Execute \/ clearGlobals
    PROVE  Heap' /\ CascadeOfDying' /\ OperandsWait'
<1> USE DEF Running
<1>t. /\ idxCurrentStack \in Levels /\ mode \in {"run", "idle"} /\ idxCurrentStack \in Nat
      /\ mode = "idle" => idxCurrentStack = 0
      /\ \A l \in Levels : \A p \in temps[l] :
           /\ p \in Object /\ 1 <= l /\ l <= idxCurrentStack /\ nodeOf[p] # Null
           /\ \/ n_shares[nodeOf[p]] = 0 /\ nodeOf[p] \in zero_shares[l]
              \/ /\ n_shares[nodeOf[p]] = 1 /\ l = idxCurrentStack /\ mode = "run"
                 /\ \E s \in Slot : Holds(s, p)
      /\ \A l \in Levels : l \in Nat
  BY Typed DEF EndStatement, Call, PushScope, PopScope, Return, MainExit, stackDumped, Execute,
         clearGlobals, ContainerInv, OperandsWait, VarInv, OpenLevels, Levels
<1>c. ret = Null /\ ~finish /\ cascade = <<>>
  BY <1>t, Calm
<1>a. UNCHANGED <<nodeVars, sweepVars, state, nodeOf, cascade>>
  BY NoPrimitives DEF EndStatement, Call, PushScope, PopScope, Return, MainExit, stackDumped,
         Execute, clearGlobals, managerVars, objectVars, controlVars, nodeVars, sweepVars
<1>v. OnlyClears
  <2>1. CASE EndStatement
    BY <2>1 DEF EndStatement, OnlyClears
  <2>2. CASE Call
    BY <2>2 DEF Call, OnlyClears
  <2>3. CASE PushScope \/ PopScope \/ Return \/ MainExit \/ stackDumped \/ clearGlobals
    BY <2>3 DEF PushScope, PopScope, Return, MainExit, stackDumped, clearGlobals,
                objectVars, OnlyClears
  <2>4. CASE Execute
    BY <2>4, CallsFromCStoreNothing DEF OnlyClears
  <2> QED  BY <2>1, <2>2, <2>3, <2>4
<1>1. Heap'
  <2>1. ResultKept /\ SweepKept
    BY <1>t, <1>c, <1>a DEF ResultKept, SweepKept, sweepVars
  <2> QED  BY <1>t, <1>a, <1>v, <2>1, CalmSteps
<1>2. CascadeOfDying'
  BY <1>c, <1>a DEF CascadeOfDying
<1>n. UNCHANGED <<nodeOf, n_shares, zero_shares>>
  BY <1>a DEF nodeVars
<1>3. OperandsWait'
  <2>1. CASE EndStatement
    <3>1. UNCHANGED <<value, mode, idxCurrentStack>> /\ mode = "run"
          /\ temps' = [temps EXCEPT ![idxCurrentStack] = {}]
      BY <2>1 DEF EndStatement, managerVars, controlVars
    <3>2. \A l \in Levels : temps'[l] \subseteq temps[l]
      BY <3>1, <1>t, Typed DEF ContainerInv, ObjectTypeOK
    <3>3. \A s \in Slot, p \in Object : Holds(s, p)' <=> Holds(s, p)
      BY <3>1 DEF Holds
    <3> QED  BY <3>1, <3>2, <3>3, <1>t, <1>n DEF OperandsWait
  <2>2. CASE Call
    <3>1. /\ idxCurrentStack' = idxCurrentStack + 1 /\ temps' = temps /\ mode' = "run"
          /\ \A p \in temps[idxCurrentStack] : n_shares[nodeOf[p]] = 0
      BY <2>2, <1>t DEF Call, controlVars, StoredOnce
    <3>2. \A l \in Levels : \A p \in temps[l] :
             n_shares[nodeOf[p]] = 0 /\ nodeOf[p] \in zero_shares[l]
      BY <3>1, <1>t
    <3> QED  BY <3>1, <3>2, <1>t, <1>n DEF OperandsWait
  <2>3. CASE PushScope
    <3>1. UNCHANGED <<value, mode, idxCurrentStack, temps>> /\ mode = "run"
      BY <2>3 DEF PushScope, managerVars, controlVars
    <3>2. \A s \in Slot, p \in Object : Holds(s, p)' <=> Holds(s, p)
      BY <3>1 DEF Holds
    <3> QED  BY <3>1, <3>2, <1>t, <1>n DEF OperandsWait
  <2>4. CASE PopScope \/ MainExit \/ Return
    <3>1. /\ UNCHANGED idxCurrentStack
          /\ \/ temps' = [temps EXCEPT ![idxCurrentStack] = {}]
             \/ temps' = temps /\ temps[idxCurrentStack] = {}
      BY <2>4 DEF PopScope, MainExit, Return, managerVars, objectVars
    <3>2. temps'[idxCurrentStack] = {} /\ \A l \in Levels : temps'[l] \subseteq temps[l]
      BY <3>1, <1>t, Typed DEF ContainerInv, ObjectTypeOK
    <3> QED  BY <3>1, <3>2, <1>t, <1>n DEF OperandsWait
  <2>5. CASE stackDumped
    BY <2>5 DEF stackDumped, OperandsWait
  <2>6. CASE Execute \/ clearGlobals
    <3>1. mode = "idle" /\ temps' = temps
      BY <2>6 DEF Execute, clearGlobals, objectVars
    <3>2. ASSUME NEW l \in Levels, NEW p \in temps[l] PROVE FALSE
      <4>1. idxCurrentStack = 0 /\ 1 <= l /\ l <= idxCurrentStack /\ l \in Nat
        BY <3>1, <1>t
      <4> QED  BY <4>1
    <3> QED  BY <3>1, <3>2 DEF OperandsWait
  <2> QED  BY <2>1, <2>2, <2>3, <2>4, <2>5, <2>6
<1> QED  BY <1>1, <1>2, <1>3

-----------------------------------------------------------------------------
(* Popping and sweeping.                                                    *)

\* While scopes are popped, operands wait in the levels below.
LEMMA WaitingBelow ==
    ASSUME ContainerInv, mode \in {"pop", "sweep"}, NEW l \in Levels, NEW p \in temps[l]
    PROVE  /\ p \in Object /\ 1 <= l /\ l < idxCurrentStack /\ nodeOf[p] # Null
           /\ n_shares[nodeOf[p]] = 0 /\ nodeOf[p] \in zero_shares[l]
           /\ why # "error" /\ why # "main" /\ why # "clear"
<1>1. /\ p \in Object /\ 1 <= l /\ l <= idxCurrentStack /\ l # idxCurrentStack /\ nodeOf[p] # Null
      /\ n_shares[nodeOf[p]] = 0 /\ nodeOf[p] \in zero_shares[l]
      /\ l \in Nat /\ idxCurrentStack \in Nat
  BY Typed DEF ContainerInv, OperandsWait, Levels
<1>2. why # "error"
  BY DEF ContainerInv, Phases
<1>3. why # "main" /\ why # "clear"
  BY <1>1 DEF ContainerInv, VarInv, OpenLevels, frame
<1> QED  BY <1>1, <1>2, <1>3

\* A function is left when no variable of its frame holds anything, its
\* result included.
LEMMA ResultIsInNoVariable ==
    ASSUME ContainerInv, LeaveFunction, ret # Null
    PROVE  \A f \in Frames, v \in Var : ~Holds(<<f, v>>, ret)
<1> SUFFICES ASSUME NEW f \in Frames, NEW v \in Var, Holds(<<f, v>>, ret) PROVE FALSE
  OBVIOUS
<1>1. ret \in Object /\ nodeOf[ret] = Null
  BY DEF ContainerInv, Result, ObjectTypeOK
<1>2. f = frame
  BY <1>1 DEF ContainerInv, Heap, VariablesHold, Owned
<1>3. /\ mode = "sweep" /\ why = "return" /\ depth[frame] = 1
      /\ PoppedFrame = frame /\ frame # 0
  BY DEF LeaveFunction, Swept, PoppedFrame, ContainerInv, VarInv, OpenLevels
<1>4. depth[PoppedFrame] <= ScopeOf(PoppedFrame, v)
  BY <1>3 DEF ScopeOf, BodyDepth
<1>5. IsUndefined(PoppedFrame, v)
  BY <1>3, <1>4, LeftScopeIsClosed DEF LeaveFunction, ContainerInv, BeginsWell
<1> QED  BY <1>2, <1>3, <1>5 DEF IsUndefined, Holds

\* The steps between two sweeps.
LEMMA EndsKeep ==
    ASSUME StoredOnce, ContainerInv,
           BeginSweep \/ EndBlock \/ EndScope \/ LeaveFunction \/ LeaveMachine
    PROVE  Heap' /\ CascadeOfDying' /\ OperandsWait'
<1>a. /\ UNCHANGED <<nodeVars, sweepVars, state, nodeOf, cascade, temps>>
      /\ mode \in {"pop", "sweep"}
  BY DEF BeginSweep, EndBlock, EndScope, LeaveFunction, LeaveMachine, Swept, managerVars,
         objectVars, nodeVars, sweepVars
<1>n. UNCHANGED <<nodeOf, n_shares, zero_shares>>
  BY <1>a DEF nodeVars
<1>t. idxCurrentStack \in Levels /\ idxCurrentStack \in Nat
  BY Typed DEF Levels
<1>c. cascade = <<>>
  <2>1. CASE BeginSweep
    BY <2>1 DEF BeginSweep
  <2>2. CASE Swept
    BY <2>2, NoneIsDying DEF Swept
  <2> QED  BY <2>1, <2>2 DEF EndBlock, EndScope, LeaveFunction, LeaveMachine
<1>2. CascadeOfDying'
  BY <1>a, <1>c DEF CascadeOfDying
<1>v. OnlyClears
  BY DEF BeginSweep, EndBlock, EndScope, LeaveFunction, LeaveMachine, objectVars, OnlyClears
<1>3. CASE BeginSweep \/ EndScope
  <2>1. /\ UNCHANGED <<idxCurrentStack, entry, ret>> /\ mode' \in {"pop", "sweep"}
    BY <1>3 DEF BeginSweep, EndScope, managerVars, objectVars
  <2>2. ResultKept /\ SweepKept
    <3>1. ~(mode = "sweep" /\ why = "main")
      BY <1>3 DEF BeginSweep, EndScope
    <3> QED  BY <1>a, <2>1, <3>1 DEF ResultKept, SweepKept, sweepVars
  <2>3. Heap'
    BY <1>a, <1>v, <2>1, <2>2, CalmSteps
  <2>4. OperandsWait'
    BY <1>a, <1>n, <1>t, <2>1, WaitingBelow DEF OperandsWait, Levels
  <2> QED  BY <1>2, <2>3, <2>4
<1>4. CASE EndBlock \/ LeaveFunction \/ LeaveMachine
  <2>1. Swept /\ zero_shares[idxCurrentStack] = {} /\ ~finish
    BY <1>4, NoSweep DEF EndBlock, LeaveFunction, LeaveMachine, Swept
  <2>2. SweepKept
    BY <1>a, <2>1 DEF SweepKept, sweepVars
  <2>3. ResultKept
    <3>1. CASE LeaveFunction
      BY <3>1, <2>1, ResultIsInNoVariable DEF ResultKept
    <3>2. CASE EndBlock \/ LeaveMachine
      <4>1. why # "return" /\ mode = "sweep"
        BY <3>2, <2>1 DEF EndBlock, LeaveMachine, Swept
      <4> QED  BY <4>1 DEF ResultKept, ContainerInv, Result
    <3> QED  BY <1>4, <3>1, <3>2
  <2>4. Heap'
    BY <1>a, <1>v, <2>1, <2>2, <2>3, CalmSteps
  <2>5. OperandsWait'
    <3>1. CASE EndBlock
      <4>1. idxCurrentStack' = idxCurrentStack /\ mode' = "run"
        BY <3>1 DEF EndBlock, managerVars
      <4> QED  BY <1>a, <1>n, <1>t, <4>1, WaitingBelow DEF OperandsWait, Levels
    <3>2. CASE LeaveFunction
      <4>1. /\ idxCurrentStack' = idxCurrentStack - 1
            /\ mode' \in {"run", "result"} \/ idxCurrentStack = 1
        BY <3>2 DEF LeaveFunction
      <4> QED  BY <1>a, <1>n, <1>t, <4>1, WaitingBelow DEF OperandsWait, Levels
    <3>3. CASE LeaveMachine
      <4>1. why \in {"error", "main", "clear"}
        BY <3>3 DEF LeaveMachine
      <4>2. \A l \in Levels : temps[l] = {}
        BY <1>a, <4>1, WaitingBelow
      <4> QED  BY <1>a, <4>2 DEF OperandsWait
    <3> QED  BY <1>4, <3>1, <3>2, <3>3
  <2> QED  BY <1>2, <2>4, <2>5
<1> QED  BY <1>3, <1>4

\* Clearing slots and moving no node keeps everything.
LEMMA ClearingKeeps ==
    ASSUME ContainerInv, mode \in {"pop", "sweep"}, OnlyClears,
           UNCHANGED <<nodeVars, sweepVars, idxCurrentStack, state, nodeOf, temps, entry, mode,
                       why, ret>>
    PROVE  Heap' /\ OperandsWait' /\ \A o \in Object : Dying(o) => Dying(o)'
<1>1. ResultKept /\ SweepKept
  BY DEF ResultKept, SweepKept, sweepVars
<1>2. Heap'
  BY <1>1, CalmSteps
<1>3. OperandsWait'
  BY WaitingBelow, Typed DEF OperandsWait, nodeVars, Levels
<1>4. \A o \in Object : Dying(o) => Dying(o)'
  BY DEF Dying, nodeVars
<1> QED  BY <1>2, <1>3, <1>4

\* The releases to come after that of q are those of q's elements and the rest.
LEMMA ReleasesToCome ==
    ASSUME NEW q \in Object, NEW rest \in Seq(MemberSlot), Dying(q)',
           \A i \in 1..Len(rest) : Dying(rest[i][1])',
           cascade' \in {<<>>, rest, MemberSlots(q) \o rest}
    PROVE  CascadeOfDying'
<1> DEFINE ms == MemberSlots(q)
<1>1. ms \in Seq(MemberSlot) /\ \A i \in 1..Len(ms) : ms[i][1] = q
  BY MemberSequence
<1> HIDE DEF ms
<1>2. CASE cascade' = <<>>
  BY <1>2 DEF CascadeOfDying
<1>3. CASE cascade' = rest
  BY <1>3 DEF CascadeOfDying
<1>4. CASE cascade' = ms \o rest
  <2> SUFFICES ASSUME NEW i \in 1..Len(cascade') PROVE Dying(cascade[i][1])'
    BY DEF CascadeOfDying
  <2>1. \/ i \in 1..Len(ms) /\ cascade'[i] = ms[i]
        \/ i - Len(ms) \in 1..Len(rest) /\ cascade'[i] = rest[i - Len(ms)]
    BY <1>1, <1>4
  <2>2. CASE i \in 1..Len(ms) /\ cascade'[i] = ms[i]
    <3>1. cascade'[i][1] = q
      BY <2>2, <1>1
    <3> QED  BY <3>1
  <2>3. CASE i - Len(ms) \in 1..Len(rest) /\ cascade'[i] = rest[i - Len(ms)]
    BY <2>3
  <2> QED  BY <2>1, <2>2, <2>3
<1> QED  BY <1>2, <1>3, <1>4 DEF ms

\* The release of what a slot holds, and of its elements afterwards.
LEMMA UnrefKeeps ==
    ASSUME ContainerInv, mode \in {"pop", "sweep"},
           NEW s \in Slot, NEW q \in Object, Holds(s, q),
           nodeOf[q] # Null => Owned(q) \/ Dying(q),
           NEW rest \in Seq(MemberSlot), NEW failing \in BOOLEAN,
           \A i \in 1..Len(rest) : rest[i][1] \in Object /\ Dying(rest[i][1]),
           unrefSharedPtr(q, rest, failing), ClearedOrDying(s),
           UNCHANGED <<sweepVars, idxCurrentStack, state, nodeOf, temps, entry, mode, why, ret>>
    PROVE  Heap' /\ CascadeOfDying' /\ OperandsWait'
<1>1. CASE nodeOf[q] = Null
  <2>1. UNCHANGED nodeVars /\ cascade' \in {<<>>, rest}
    BY <1>1 DEF unrefSharedPtr
  <2>2. OnlyClears
    BY Typed DEF ClearedOrDying, OnlyClears
  <2>3. Heap' /\ OperandsWait' /\ \A o \in Object : Dying(o) => Dying(o)'
    BY <2>1, <2>2, ClearingKeeps
  <2>4. CascadeOfDying'
    <3>1. CASE cascade' = <<>>
      BY <3>1 DEF CascadeOfDying
    <3>2. CASE cascade' = rest
      BY <3>2, <2>3 DEF CascadeOfDying
    <3> QED  BY <2>1, <3>1, <3>2
  <2> QED  BY <2>3, <2>4
<1>2. CASE nodeOf[q] # Null
  <2>1. /\ unrefSharedScriptVar(nodeOf[q]) /\ cascade' \in {rest, MemberSlots(q) \o rest}
        /\ UNCHANGED <<idxCurrentStack, state, nodeOf, temps, entry, mode, why, ret, current,
                       finish>>
    BY <1>2 DEF unrefSharedPtr, sweepVars
  <2>2. Heap' /\ OperandsWait' /\ Dying(q)' /\ \A o \in Object : Dying(o) => Dying(o)'
    BY <1>2, <2>1, Release
  <2>3. \A i \in 1..Len(rest) : Dying(rest[i][1])'
    BY <2>2
  <2>4. CascadeOfDying'
    BY <2>1, <2>2, <2>3, ReleasesToCome
  <2> QED  BY <2>2, <2>4
<1> QED  BY <1>1, <1>2

LEMMA PopLocalKeeps ==
    ASSUME ContainerInv, PopLocal
    PROVE  Heap' /\ CascadeOfDying' /\ OperandsWait'
<1> PICK v \in popping : PopLocal!(v)
  BY DEF PopLocal
<1> DEFINE s == <<PoppedFrame, v>>
           q == value[s].ref
<1>1. /\ mode = "pop" /\ cascade = <<>>
      /\ IF HoldsObject(s) THEN unrefSharedPtr(q, <<>>, FALSE)
                           ELSE UNCHANGED <<nodeVars, cascade>>
      /\ value' = [value EXCEPT ![s] = Undefined]
      /\ UNCHANGED <<sweepVars, idxCurrentStack, state, nodeOf, temps, entry, mode, why, ret>>
  OBVIOUS
<1>2. PoppedFrame \in Frames /\ v \in Var /\ s \in Slot
  BY <1>1, PoppedIsKnown, SlotKinds DEF ContainerInv, ObjectTypeOK
<1>3. CASE HoldsObject(s)
  <2>1. q \in Object /\ Holds(s, q)
    BY <1>2, <1>3, HeldObject DEF HoldsObject
  <2>2. nodeOf[q] # Null => Owned(q)
    BY <1>2, <2>1, NullAssumption DEF ContainerInv, Heap, VariablesHold, Result
  <2>3. <<>> \in Seq(MemberSlot) /\ FALSE \in BOOLEAN /\ Len(<<>>) = 0 /\ 1..0 = {}
    OBVIOUS
  <2>4. unrefSharedPtr(q, <<>>, FALSE) /\ ClearedOrDying(s)
    BY <1>1, <1>3 DEF ClearedOrDying
  <2> HIDE DEF s, q
  <2> QED  BY <1>1, <1>2, <2>1, <2>2, <2>3, <2>4, UnrefKeeps
<1>4. CASE ~HoldsObject(s)
  <2> HIDE DEF s, q
  <2>1. OnlyClears /\ UNCHANGED <<nodeVars, cascade>>
    BY <1>1, <1>2, <1>4, Typed DEF OnlyClears
  <2>2. Heap' /\ OperandsWait'
    BY <1>1, <2>1, ClearingKeeps
  <2> QED  BY <1>1, <2>1, <2>2 DEF CascadeOfDying
<1> QED  BY <1>3, <1>4

\* The object whose members are released waits to be freed, also when main
\* returns it and it has no node any more.
LEMMA ReleasingIsDying ==
    ASSUME ContainerInv, pending # {}
    PROVE  /\ shared_ptr[current] \in Object
           /\ \/ Dying(shared_ptr[current])
              \/ nodeOf[shared_ptr[current]] = Null
           /\ ~Forgotten(shared_ptr[current])
<1>1. /\ current # Null /\ shared_ptr[current] # ret /\ mode = "sweep"
      /\ current \in zero_shares[idxCurrentStack] /\ idxCurrentStack \in Levels
  BY Typed DEF ContainerInv, Phases, SweptNodeIsCandidate
<1>2. /\ shared_ptr[current] \in Object /\ state[shared_ptr[current]] = "alive"
      /\ nodeOf[shared_ptr[current]] \in {current, Null}
  BY <1>1 DEF ContainerInv, Heap, CandidateNodes, LostByMain
<1> QED  BY <1>1, <1>2 DEF Dying, Forgotten, Listed

LEMMA ReleaseMemberKeeps ==
    ASSUME ContainerInv, ReleaseMember
    PROVE  Heap' /\ CascadeOfDying' /\ OperandsWait'
<1> PICK m \in pending : ReleaseMember!(m)
  BY DEF ReleaseMember
<1> DEFINE c == shared_ptr[current]
           s == <<c, m>>
           q == value[s].ref
<1>1. /\ mode = "sweep" /\ cascade = <<>>
      /\ IF HoldsObject(s) THEN unrefSharedPtr(q, <<>>, FALSE)
                           ELSE UNCHANGED <<nodeVars, cascade>>
      /\ value' = [value EXCEPT ![s] = Undefined]
      /\ UNCHANGED <<sweepVars, idxCurrentStack, state, nodeOf, temps, entry, mode, why, ret>>
  OBVIOUS
<1>2. c \in Object /\ ~Forgotten(c) /\ m \in Member /\ s \in Slot
  BY ReleasingIsDying, SlotKinds DEF ContainerInv, ObjectTypeOK
<1>3. CASE HoldsObject(s)
  <2>1. q \in Object /\ Holds(s, q)
    BY <1>2, <1>3, HeldObject DEF HoldsObject
  <2>2. nodeOf[q] # Null => Owned(q) \/ Dying(q)
    BY <1>2, <2>1 DEF ContainerInv, Heap, MembersHold, OwnNode
  <2>3. <<>> \in Seq(MemberSlot) /\ FALSE \in BOOLEAN /\ Len(<<>>) = 0 /\ 1..0 = {}
    OBVIOUS
  <2>4. unrefSharedPtr(q, <<>>, FALSE) /\ ClearedOrDying(s)
    BY <1>1, <1>3 DEF ClearedOrDying
  <2> HIDE DEF s, q
  <2> QED  BY <1>1, <1>2, <2>1, <2>2, <2>3, <2>4, UnrefKeeps
<1>4. CASE ~HoldsObject(s)
  <2> HIDE DEF s, q
  <2>1. OnlyClears /\ UNCHANGED <<nodeVars, cascade>>
    BY <1>1, <1>2, <1>4, Typed DEF OnlyClears
  <2>2. Heap' /\ OperandsWait'
    BY <1>1, <2>1, ClearingKeeps
  <2> QED  BY <1>1, <2>1, <2>2 DEF CascadeOfDying
<1> QED  BY <1>3, <1>4

LEMMA UnrefElementKeeps ==
    ASSUME ContainerInv, UnrefElement
    PROVE  Heap' /\ CascadeOfDying' /\ OperandsWait'
<1> DEFINE s == Head(cascade)
           q == value[s].ref
           held == IF kind[s[1]] = "vector" THEN value[s].ref # Null ELSE HoldsObject(s)
<1>1. /\ cascade # <<>> /\ cascade \in Seq(MemberSlot)
      /\ IF held THEN unrefSharedPtr(q, Tail(cascade), TRUE)
                 ELSE cascade' = Tail(cascade) /\ UNCHANGED nodeVars
      /\ UNCHANGED <<sweepVars, idxCurrentStack, state, nodeOf, temps, entry, mode, why, ret,
                     value>>
  BY DEF UnrefElement, ContainerInv, ObjectTypeOK, objectVars
<1>2. mode \in {"pop", "sweep"}
  BY <1>1, NoneIsDying
<1>3. /\ Tail(cascade) \in Seq(MemberSlot) /\ s \in MemberSlot /\ s = cascade[1]
      /\ 1 \in 1..Len(cascade)
      /\ \A i \in 1..Len(Tail(cascade)) :
            Tail(cascade)[i] = cascade[i + 1] /\ i + 1 \in 1..Len(cascade)
  BY <1>1
<1>4. \A i \in 1..Len(cascade) : cascade[i][1] \in Object /\ Dying(cascade[i][1])
  <2>1. \A i \in 1..Len(cascade) : cascade[i] \in MemberSlot
    BY <1>1
  <2> QED  BY <2>1 DEF MemberSlot, ContainerInv, CascadeOfDying
<1>5. PICK c \in Object, m \in Member : s = <<c, m>> /\ Dying(c) /\ s \in Slot
  BY <1>3, <1>4 DEF MemberSlot, Slot
<1>6. \A i \in 1..Len(Tail(cascade)) :
         Tail(cascade)[i][1] \in Object /\ Dying(Tail(cascade)[i][1])
  BY <1>3, <1>4
<1>7. CASE held
  <2>1. q \in Object /\ Holds(s, q)
    BY <1>5, <1>7, HeldObject DEF HoldsObject
  <2>2. ~Forgotten(c)
    BY <1>5, Typed DEF Forgotten, Listed, Dying
  <2>3. nodeOf[q] # Null => Owned(q) \/ Dying(q)
    BY <1>5, <2>1, <2>2 DEF ContainerInv, Heap, MembersHold, OwnNode
  <2>4. unrefSharedPtr(q, Tail(cascade), TRUE) /\ ClearedOrDying(s) /\ TRUE \in BOOLEAN
    BY <1>1, <1>5, <1>7 DEF ClearedOrDying
  <2> HIDE DEF s, q
  <2> QED  BY <1>1, <1>2, <1>3, <1>5, <1>6, <2>1, <2>3, <2>4, UnrefKeeps
<1>8. CASE ~held
  <2>1. OnlyClears /\ UNCHANGED nodeVars /\ cascade' = Tail(cascade)
    BY <1>1, <1>8 DEF OnlyClears
  <2>2. Heap' /\ OperandsWait' /\ \A o \in Object : Dying(o) => Dying(o)'
    BY <1>1, <1>2, <2>1, ClearingKeeps
  <2> QED  BY <1>6, <2>1, <2>2 DEF CascadeOfDying
<1> QED  BY <1>7, <1>8

-----------------------------------------------------------------------------
(* The sweep.                                                               *)

\* If the list has one candidate only, no other object is dying.
LEMMA SweepVisitKeeps ==
    ASSUME ContainerInv, SweepVisit
    PROVE  Heap' /\ CascadeOfDying' /\ OperandsWait'
<1> PICK nd \in Node : SweepVisit!(nd)
  BY DEF SweepVisit
<1>1. /\ mode = "sweep" /\ current' = nd /\ finish' = (zero_shares[idxCurrentStack] = {nd})
      /\ UNCHANGED <<idxCurrentStack, nodes, n_shares, shared_ptr, zero_shares>>
      /\ UNCHANGED <<state, nodeOf, value, temps, entry, mode, why, cascade, ret>>
  BY DEF RemoveVisit, nodeVars, objectVars
<1>2. frame' = frame
  BY <1>1 DEF frame
<1>3. OwnNode' /\ CandidateNodes' /\ AtMostOneShare'
  BY <1>1 DEF ContainerInv, Heap, OwnNode, CandidateNodes, DistinctCandidates, LostByMain,
              AtMostOneShare
<1>4. PlainValues' /\ OneHolder' /\ DeadMembers'
  BY <1>1 DEF ContainerInv, Heap, PlainValues, OneHolder, DeadMembers, Holds
<1>5. /\ \A o \in Object : Owned(o)' <=> Owned(o)
      /\ \A o \in Object : Dying(o)' <=> Dying(o)
      /\ \A o \in Object : Forgotten(o)' <=> Forgotten(o)
      /\ \A s \in Slot, o \in Object : Holds(s, o)' <=> Holds(s, o)
  BY <1>1 DEF Owned, Dying, Forgotten, Listed, Holds
<1>6. VariablesHold'
  BY <1>1, <1>2, <1>5, SlotKinds DEF ContainerInv, Heap, VariablesHold
<1>7. MembersHold'
  <2> SUFFICES ASSUME NEW c \in Object, NEW m \in Member, NEW o \in Object, Holds(<<c, m>>, o)
               PROVE  \/ Owned(o)'
                      \/ Dying(c)' /\ (Dying(o)' \/ state[o] = "deleted")
                      \/ Forgotten(c)' /\ Forgotten(o)'
    BY <1>1, <1>5, SlotKinds DEF MembersHold
  <2>1. \/ Owned(o)
        \/ Dying(c) /\ (Dying(o) \/ state[o] = "deleted")
        \/ Forgotten(c) /\ Forgotten(o)
    BY DEF ContainerInv, Heap, MembersHold
  <2> QED  BY <2>1, <1>5
<1>8. LastVisit'
  <2> SUFFICES ASSUME finish', NEW c \in Object, Dying(c), nodeOf[c] # nd PROVE FALSE
    BY <1>1, <1>5 DEF LastVisit
  <2> QED  BY <1>1 DEF Dying
<1>9. CascadeOfDying'
  <2>1. \A i \in 1..Len(cascade) : cascade[i] \in MemberSlot
    BY DEF ContainerInv, ObjectTypeOK
  <2>2. \A i \in 1..Len(cascade) : cascade[i][1] \in Object
    BY <2>1 DEF MemberSlot
  <2> QED  BY <1>1, <1>5, <2>2 DEF ContainerInv, CascadeOfDying
<1>10. OperandsWait'
  BY <1>1, WaitingBelow, Typed DEF OperandsWait, Levels
<1> QED  BY <1>3, <1>4, <1>6, <1>7, <1>8, <1>9, <1>10 DEF Heap

\* An object goes while only dying objects hold it, and what a sweep forgets
\* it forgets with all that it holds.
LEMMA SweepFreeKeeps ==
    ASSUME ContainerInv, SweepFree
    PROVE  Heap' /\ CascadeOfDying' /\ OperandsWait'
<1> DEFINE o == shared_ptr[current]
<1>a. /\ mode = "sweep" /\ current # Null /\ cascade' = <<>> /\ finish' = FALSE
      /\ nodes' = nodes \ {current} /\ n_shares' = [n_shares EXCEPT ![current] = 0]
      /\ shared_ptr' = [shared_ptr EXCEPT ![current] = Null]
      /\ zero_shares' = [zero_shares EXCEPT ![idxCurrentStack] =
                            IF finish THEN {} ELSE @ \ {current}]
      /\ UNCHANGED <<idxCurrentStack, temps, entry, mode, why, ret>> /\ frame' = frame
  BY DEF SweepFree, RemoveFree, controlVars, frame
<1>b. \/ o = ret /\ UNCHANGED <<state, nodeOf, value>>
      \/ /\ o # ret
         /\ state' = [state EXCEPT ![o] = "deleted"]
         /\ nodeOf' = [nodeOf EXCEPT ![o] = Null]
         /\ value' = [s \in Slot |-> IF s \in {o} \X Member THEN Undefined ELSE value[s]]
  BY DEF SweepFree
<1>c. /\ current \in Node /\ current \in zero_shares[idxCurrentStack] /\ n_shares[current] = 0
      /\ o \in Object /\ state[o] = "alive" /\ nodeOf[o] \in {current, Null}
      /\ idxCurrentStack \in Levels
      /\ \A l \in Levels : current \in zero_shares[l] => l = idxCurrentStack
  <2>1. /\ current \in Node /\ current \in zero_shares[idxCurrentStack] /\ n_shares[current] = 0
        /\ idxCurrentStack \in Levels
        /\ \A l \in Levels : current \in zero_shares[l] => l = idxCurrentStack
    BY <1>a, Typed, WaitingNode DEF SweptNodeIsCandidate
  <2>2. /\ shared_ptr[current] \in Object /\ state[shared_ptr[current]] = "alive"
        /\ \/ nodeOf[shared_ptr[current]] = current
           \/ shared_ptr[current] = ret
           \/ nodeOf[shared_ptr[current]] = Null
    BY <2>1 DEF ContainerInv, Heap, CandidateNodes, LostByMain
  <2> QED  BY <2>1, <2>2, NullAssumption DEF ContainerInv, Result
<1>y. \A l \in Levels : \A x \in zero_shares[l] : shared_ptr[x] = o => x = current
  BY <1>c DEF ContainerInv, Heap, CandidateNodes, DistinctCandidates
<1>r. ret # Null => nodeOf[ret] = Null
  BY DEF ContainerInv, Result
<1> HIDE DEF o
<1>z. /\ \A x \in Node : x # current => n_shares'[x] = n_shares[x] /\ shared_ptr'[x] = shared_ptr[x]
      /\ \A l \in Levels : l # idxCurrentStack => zero_shares'[l] = zero_shares[l]
      /\ finish => zero_shares'[idxCurrentStack] = {}
      /\ ~finish => zero_shares'[idxCurrentStack] = zero_shares[idxCurrentStack] \ {current}
  BY <1>a, <1>c, Typed
<1>l. \A l \in Levels : \A x \in zero_shares'[l] : x \in zero_shares[l] /\ x # current /\ x \in Node
  BY <1>c, <1>z, Typed
\* The objects that keep a node.
<1>k. \A p \in Object : nodeOf'[p] # Null =>
          /\ nodeOf'[p] = nodeOf[p] /\ nodeOf[p] # current /\ nodeOf[p] \in Node
          /\ state'[p] = state[p]
  <2> SUFFICES ASSUME NEW p \in Object, nodeOf'[p] # Null
               PROVE  /\ nodeOf'[p] = nodeOf[p] /\ nodeOf[p] # current /\ nodeOf[p] \in Node
                      /\ state'[p] = state[p]
    OBVIOUS
  <2>1. nodeOf'[p] = nodeOf[p] /\ state'[p] = state[p] /\ (p # o \/ o = ret)
    BY <1>b, <1>c, Typed DEF ContainerInv, ObjectTypeOK
  <2>2. nodeOf[p] \in Node /\ shared_ptr[nodeOf[p]] = p
    BY <2>1, NodeOfObject
  <2>3. nodeOf[p] # current
    BY <2>1, <2>2, <1>c, <1>r, NullAssumption DEF o
  <2> QED  BY <2>1, <2>2, <2>3
\* And those that had one other than the candidate's.
<1>m. \A p \in Object : nodeOf[p] # Null /\ nodeOf[p] # current =>
          nodeOf'[p] = nodeOf[p] /\ state'[p] = state[p] /\ nodeOf[p] \in Node
  <2> SUFFICES ASSUME NEW p \in Object, nodeOf[p] # Null, nodeOf[p] # current
               PROVE  nodeOf'[p] = nodeOf[p] /\ state'[p] = state[p] /\ nodeOf[p] \in Node
    OBVIOUS
  <2>1. nodeOf[p] \in Node
    BY NodeOfObject
  <2>2. p # o
    BY <1>c
  <2> QED  BY <2>1, <2>2, <1>b, <1>c, Typed DEF ContainerInv, ObjectTypeOK
<1>d. /\ \A p \in Object : state[p] = "deleted" => state'[p] = "deleted"
      /\ o # ret => state'[o] = "deleted"
      /\ \A p \in Object : p # o => state'[p] = state[p]
  BY <1>b, <1>c, Typed DEF ContainerInv, ObjectTypeOK
<1>v. /\ \A s \in Slot : value'[s] = value[s] \/ value'[s] = Undefined
      /\ o # ret => \A m \in Member : value'[<<o, m>>] = Undefined
  BY <1>b, <1>c, SlotKinds
<1>h. /\ \A s \in Slot, p \in Object : Holds(s, p)' => Holds(s, p)
      /\ \A c \in Object, m \in Member, p \in Object :
            Holds(<<c, m>>, p)' => c # o \/ o = ret
  <2>1. \A s \in Slot, p \in Object : Holds(s, p)' => Holds(s, p)
    BY <1>v DEF Holds, Undefined
  <2>2. ASSUME NEW c \in Object, NEW m \in Member, NEW p \in Object, Holds(<<c, m>>, p)'
        PROVE  c # o \/ o = ret
    BY <2>2, <1>v DEF Holds, Undefined
  <2> QED  BY <2>1, <2>2
<1>1. OwnNode'
  BY <1>a, <1>k, <1>z DEF ContainerInv, Heap, OwnNode
<1>2. CandidateNodes'
  <2> SUFFICES ASSUME NEW l \in Levels, NEW x \in zero_shares'[l]
               PROVE  /\ shared_ptr'[x] \in Object /\ state'[shared_ptr'[x]] = "alive"
                      /\ \/ nodeOf'[shared_ptr'[x]] = x
                         \/ shared_ptr'[x] = ret /\ l = idxCurrentStack
                         \/ LostByMain(x)' /\ l = idxCurrentStack
                      /\ \A k \in Levels : \A y \in zero_shares'[k] :
                            shared_ptr'[x] = shared_ptr'[y] => x = y
    BY <1>a DEF CandidateNodes, DistinctCandidates
  <2>0. \A k \in Levels : \A y \in zero_shares'[k] : shared_ptr'[x] = shared_ptr'[y] => x = y
    BY <1>l, <1>z DEF ContainerInv, Heap, CandidateNodes, DistinctCandidates
  <2>1. x \in zero_shares[l] /\ x # current /\ x \in Node /\ shared_ptr'[x] = shared_ptr[x]
    BY <1>l, <1>z
  <2>2. /\ shared_ptr[x] \in Object /\ state[shared_ptr[x]] = "alive"
        /\ \/ nodeOf[shared_ptr[x]] = x
           \/ shared_ptr[x] = ret /\ l = idxCurrentStack
           \/ LostByMain(x) /\ l = idxCurrentStack
    BY <2>1 DEF ContainerInv, Heap, CandidateNodes
  <2>3. CASE nodeOf[shared_ptr[x]] = x
    <3>1. x # Null
      BY <2>1, NullAssumption
    <3> QED  BY <2>0, <2>1, <2>2, <2>3, <3>1, <1>m
  <2>5. CASE LostByMain(x) /\ l = idxCurrentStack
    <3>1. shared_ptr[x] # o
      BY <2>1, <1>y
    <3>2. state'[shared_ptr[x]] = "alive" /\ nodeOf'[shared_ptr[x]] = Null
      BY <2>2, <2>5, <3>1, <1>b, <1>c, Typed DEF ContainerInv, ObjectTypeOK, LostByMain
    <3> QED  BY <2>0, <2>1, <2>2, <2>5, <3>2, <1>a DEF LostByMain
  <2>4. CASE shared_ptr[x] = ret /\ l = idxCurrentStack
    <3>1. state'[ret] = "alive"
      BY <2>2, <2>4, <1>b, <1>c, Typed DEF ContainerInv, ObjectTypeOK
    <3> QED  BY <2>0, <2>1, <2>2, <2>4, <3>1
  <2> QED  BY <2>2, <2>3, <2>4, <2>5
<1>3. PlainValues' /\ OneHolder'
  <2>1. PlainValues'
    BY <1>v DEF ContainerInv, Heap, PlainValues, Undefined
  <2> QED  BY <1>h, <2>1 DEF ContainerInv, Heap, OneHolder
<1>4. AtMostOneShare'
  BY <1>k, <1>z DEF ContainerInv, Heap, AtMostOneShare
<1>5. DeadMembers'
  <2> SUFFICES ASSUME NEW c \in Object, NEW m \in Member, state'[c] # "alive"
               PROVE  value'[<<c, m>>].type # "object"
    BY DEF DeadMembers
  <2>1. CASE c = o
    <3>1. o # ret
      BY <2>1, <1>b, <1>c
    <3> QED  BY <2>1, <3>1, <1>v DEF Undefined
  <2>2. CASE c # o
    <3>1. value[<<c, m>>].type # "object"
      BY <2>2, <1>d DEF ContainerInv, Heap, DeadMembers
    <3>2. value'[<<c, m>>] = value[<<c, m>>] \/ value'[<<c, m>>] = Undefined
      BY <1>v, SlotKinds
    <3> QED  BY <3>1, <3>2 DEF Undefined
  <2> QED  BY <2>1, <2>2
<1>s. /\ \A p \in Object : Owned(p) => Owned(p)'
      /\ \A p \in Object : Forgotten(p) => Forgotten(p)'
      /\ \A p \in Object : Dying(p) /\ nodeOf[p] # current /\ ~finish => Dying(p)'
      /\ \A p \in Object : Dying(p) /\ nodeOf[p] # current /\ finish => Forgotten(p)'
  <2>1. ASSUME NEW p \in Object, Owned(p) PROVE Owned(p)'
    <3>1. nodeOf[p] # Null /\ nodeOf[p] # current /\ n_shares[nodeOf[p]] = 1 /\ state[p] = "alive"
      BY <2>1, <1>c DEF Owned
    <3>2. nodeOf'[p] = nodeOf[p] /\ state'[p] = state[p] /\ n_shares'[nodeOf[p]] = n_shares[nodeOf[p]]
      BY <3>1, <1>m, <1>z
    <3> QED  BY <3>1, <3>2 DEF Owned
  <2>2. ASSUME NEW p \in Object, Forgotten(p) PROVE Forgotten(p)'
    <3>1. /\ nodeOf[p] # Null /\ nodeOf[p] # current /\ n_shares[nodeOf[p]] = 0
          /\ state[p] = "alive" /\ \A l \in Levels : nodeOf[p] \notin zero_shares[l]
      BY <2>2, <1>c DEF Forgotten, Listed
    <3>2. nodeOf'[p] = nodeOf[p] /\ state'[p] = state[p] /\ n_shares'[nodeOf[p]] = n_shares[nodeOf[p]]
      BY <3>1, <1>m, <1>z
    <3>3. \A l \in Levels : nodeOf[p] \notin zero_shares'[l]
      BY <3>1, <1>l
    <3> QED  BY <3>1, <3>2, <3>3 DEF Forgotten, Listed
  <2>3. ASSUME NEW p \in Object, Dying(p), nodeOf[p] # current
        PROVE  (~finish => Dying(p)') /\ (finish => Forgotten(p)')
    <3>1. /\ nodeOf[p] # Null /\ state[p] = "alive" /\ nodeOf[p] \in zero_shares[idxCurrentStack]
          /\ n_shares[nodeOf[p]] = 0
      BY <2>3, <1>c, WaitingNode DEF Dying
    <3>2. nodeOf'[p] = nodeOf[p] /\ state'[p] = state[p] /\ n_shares'[nodeOf[p]] = n_shares[nodeOf[p]]
      BY <2>3, <3>1, <1>m, <1>z
    <3>3. CASE ~finish
      <4>1. nodeOf[p] \in zero_shares'[idxCurrentStack]
        BY <2>3, <3>1, <3>3, <1>z
      <4> QED  BY <3>1, <3>2, <3>3, <4>1, <1>a DEF Dying
    <3>4. CASE finish
      <4>1. \A l \in Levels : l # idxCurrentStack => nodeOf[p] \notin zero_shares[l]
        BY <3>1, <1>c, WaitingNode
      <4>2. \A l \in Levels : nodeOf[p] \notin zero_shares'[l]
        BY <3>4, <4>1, <1>z
      <4> QED  BY <3>1, <3>2, <3>4, <4>2 DEF Forgotten, Listed
    <3> QED  BY <3>3, <3>4
  <2> QED  BY <2>1, <2>2, <2>3
<1>6. VariablesHold'
  <2> SUFFICES ASSUME NEW f \in Frames, NEW v \in Var, NEW p \in Object, Holds(<<f, v>>, p)'
               PROVE  Owned(p)' \/ (p = ret /\ mode # "result" /\ f = frame)
    BY <1>a DEF VariablesHold
  <2>1. Owned(p) \/ (p = ret /\ mode # "result" /\ f = frame)
    BY <1>h, SlotKinds DEF ContainerInv, Heap, VariablesHold
  <2> QED  BY <2>1, <1>s
<1>7. MembersHold'
  <2> SUFFICES ASSUME NEW c \in Object, NEW m \in Member, NEW p \in Object, Holds(<<c, m>>, p)'
               PROVE  \/ Owned(p)'
                      \/ Dying(c)' /\ (Dying(p)' \/ state'[p] = "deleted")
                      \/ Forgotten(c)' /\ Forgotten(p)'
    BY DEF MembersHold
  <2>1. Holds(<<c, m>>, p)
    BY <1>h, SlotKinds
  <2>2. \/ Owned(p)
        \/ Dying(c) /\ (Dying(p) \/ state[p] = "deleted")
        \/ Forgotten(c) /\ Forgotten(p)
    BY <2>1 DEF ContainerInv, Heap, MembersHold
  <2>3. CASE Dying(c) /\ (Dying(p) \/ state[p] = "deleted")
    <3>1. nodeOf[c] # current
      <4>1. c # o \/ o = ret
        BY <1>h
      <4>2. nodeOf[c] # Null /\ shared_ptr[nodeOf[c]] = c
        BY <2>3, NodeOfObject DEF Dying
      <4> QED  BY <4>1, <4>2, <1>c, <1>r, NullAssumption DEF o
    <3>2. CASE ~finish
      <4>1. Dying(c)'
        BY <2>3, <3>1, <3>2, <1>s
      <4>2. CASE p = o /\ o # ret
        BY <4>1, <4>2, <1>d
      <4>3. CASE state[p] = "deleted"
        BY <4>1, <4>3, <1>d
      <4>4. CASE Dying(p) /\ (p # o \/ o = ret)
        <5>1. nodeOf[p] # Null /\ shared_ptr[nodeOf[p]] = p
          BY <4>4, NodeOfObject DEF Dying
        <5>2. nodeOf[p] # current
          BY <4>4, <5>1, <1>c, <1>r, NullAssumption DEF o
        <5> QED  BY <3>2, <4>1, <4>4, <5>2, <1>s
      <4> QED  BY <2>3, <4>2, <4>3, <4>4
    <3>3. CASE finish
      <4>1. state[p] = "alive" /\ nodeOf[p] # current
        BY <2>1, <2>3, <3>1, <3>3, <1>a DEF ContainerInv, Heap, LastVisit
      <4>2. Forgotten(c)' /\ Forgotten(p)'
        BY <2>3, <3>1, <3>3, <4>1, <1>s
      <4> QED  BY <4>2
    <3> QED  BY <3>2, <3>3
  <2> QED  BY <2>2, <2>3, <1>s
<1>8. LastVisit' /\ CascadeOfDying'
  BY <1>a DEF LastVisit, CascadeOfDying
<1>9. OperandsWait'
  <2> SUFFICES ASSUME NEW l \in Levels, NEW p \in temps[l]
               PROVE  /\ 1 <= l /\ l <= idxCurrentStack /\ nodeOf'[p] # Null
                      /\ n_shares'[nodeOf'[p]] = 0 /\ nodeOf'[p] \in zero_shares'[l]
                      /\ l # idxCurrentStack
    BY <1>a DEF OperandsWait
  <2>1. /\ p \in Object /\ 1 <= l /\ l < idxCurrentStack /\ nodeOf[p] # Null
        /\ n_shares[nodeOf[p]] = 0 /\ nodeOf[p] \in zero_shares[l]
        /\ l \in Nat /\ idxCurrentStack \in Nat
    BY <1>a, WaitingBelow, Typed DEF Levels
  <2>2. nodeOf[p] # current
    BY <2>1, <1>c
  <2> QED  BY <2>1, <2>2, <1>m, <1>z
<1> QED  BY <1>1, <1>2, <1>3, <1>4, <1>5, <1>6, <1>7, <1>8, <1>9 DEF Heap

-----------------------------------------------------------------------------
(* The theorems.                                                            *)

LEMMA ContainerInitial == Init => ContainerInv
<1> SUFFICES ASSUME Init PROVE ContainerInv
  OBVIOUS
<1> USE DEF Init
<1>1. IManager /\ VarInv
  BY ManagerInitial, VarInitial
<1>2. ObjectTypeOK
  BY DEF ObjectTypeOK, Undefined, Value
<1>3. /\ \A s \in Slot, o \in Object : ~Holds(s, o)
      /\ \A l \in Levels : zero_shares[l] = {}
      /\ ~finish /\ current = Null /\ ~sweeping
  BY DEF ManagerInit, Holds, Undefined
<1>4. Heap
  BY <1>3, SlotKinds, NullAssumption
     DEF Heap, OwnNode, CandidateNodes, DistinctCandidates, PlainValues, OneHolder, AtMostOneShare, DeadMembers,
         VariablesHold, MembersHold, LastVisit, Undefined
<1>5. CascadeOfDying /\ OperandsWait /\ Result /\ Phases
  BY <1>3 DEF CascadeOfDying, OperandsWait, Result, Phases
<1> QED  BY <1>1, <1>2, <1>4, <1>5 DEF ContainerInv

LEMMA ContainerInductive == StoredOnce /\ ContainerInv /\ [Next]_vars => ContainerInv'
<1> SUFFICES ASSUME StoredOnce, ContainerInv, [Next]_vars PROVE ContainerInv'
  OBVIOUS
<1>1. IManager'
  BY ContainersUseManager, ManagerInductive DEF ContainerInv
<1>2. ObjectTypeOK' /\ Phases' /\ Result'
  BY TypesStay, PhasesStay
<1>3. VarInv' /\ cells' = {}
  BY VarInductive, CellsStayEmpty DEF ContainerInv
<1>4. Heap' /\ CascadeOfDying' /\ OperandsWait'
  <2>1. CASE NewObject \/ TakeResult
    BY <2>1, NewObjectKeeps
  <2>2. CASE StoreObject
    BY <2>2, StoreObjectKeeps
  <2>3. CASE StorePrimitive
    BY <2>3, NoPrimitives
  <2>4. CASE ReturnObject \/ MainReturnsObject
    BY <2>4, ReturnObjectKeeps, MainReturnsObjectKeeps
  <2>5. CASE \/ EndStatement \/ Call \/ PushScope \/ PopScope \/ Return \/ MainExit
             \/ stackDumped \/ Execute \/ clearGlobals
    BY <2>5, OthersKeep
  <2>6. CASE BeginSweep \/ EndBlock \/ EndScope \/ LeaveFunction \/ LeaveMachine
    BY <2>6, EndsKeep
  <2>7. CASE UnrefElement
    BY <2>7, UnrefElementKeeps
  <2>8. CASE PopLocal
    BY <2>8, PopLocalKeeps
  <2>9. CASE ReleaseMember
    BY <2>9, ReleaseMemberKeeps
  <2>10. CASE SweepVisit
    BY <2>10, SweepVisitKeeps
  <2>11. CASE SweepFree
    BY <2>11, SweepFreeKeeps
  <2>12. CASE UNCHANGED vars
    <3>1. /\ UNCHANGED <<idxCurrentStack, nodes, n_shares, shared_ptr, zero_shares, current, finish>>
          /\ UNCHANGED <<state, nodeOf, value, temps, entry, mode, why, cascade, ret>>
      BY <2>12 DEF vars, managerVars, objectVars, controlVars
    <3>2. Heap'
      BY <3>1 DEF ContainerInv, Heap, OwnNode, CandidateNodes, DistinctCandidates, LostByMain, PlainValues, OneHolder,
                  AtMostOneShare, DeadMembers, VariablesHold, MembersHold, LastVisit,
                  Holds, Owned, Dying, Forgotten, Listed, frame
    <3>3. CascadeOfDying' /\ OperandsWait'
      BY <3>1 DEF ContainerInv, CascadeOfDying, OperandsWait, Dying, Holds
    <3> QED  BY <3>2, <3>3
  <2> QED
    BY <2>1, <2>2, <2>3, <2>4, <2>5, <2>6, <2>7, <2>8, <2>9, <2>10, <2>11, <2>12
       DEF Next, Script, Machine
<1> QED  BY <1>1, <1>2, <1>3, <1>4 DEF ContainerInv

LEMMA ContainerInvariant == ASSUME StoredOnce PROVE Spec => []ContainerInv
<1>1. ContainerInv /\ [Next]_vars => ContainerInv'
  BY ContainerInductive
<1> QED  BY <1>1, ContainerInitial, PTL DEF Spec

\* While a script runs, no variable in scope and no member of an object that
\* exists refers to an object that has been deleted: a release that reaches an
\* element of a container a second time finds its node gone, and what a sweep
\* forgets in its list it forgets with all that it holds.  C++ calls one
\* function at most: StoredOnce excludes what operands leave in cells.
THEOREM ScriptsSeeNoDeletedObject == ASSUME StoredOnce PROVE Spec => []ScriptSeesNoDeletedObject
<1>1. ContainerInv => ScriptSeesNoDeletedObject
  <2> SUFFICES ASSUME ContainerInv, mode = "run",
                      NEW s \in LiveSlots, value[s].type = "object"
               PROVE  state[value[s].ref] = "alive"
    BY DEF ScriptSeesNoDeletedObject
  <2>1. s \in Slot
    BY DEF LiveSlots, Slot
  <2>2. value[s].ref \in Object /\ Holds(s, value[s].ref)
    BY <2>1, HeldObject
  <2> QED  BY <2>1, <2>2, Calm, NullAssumption
<1> QED  BY <1>1, ContainerInvariant, PTL

\* Containers, too, use the pointer manager as ShareManager says.
THEOREM ContainersImplementManager == ASSUME StoredOnce PROVE Spec => ManagerSpec
<1>1. Init => ManagerInit
  BY DEF Init
<1>2. ContainerInv /\ [Next]_vars => [ManagerNext]_managerVars
  BY ContainersUseManager
<1> QED  BY <1>1, <1>2, ContainerInvariant, PTL DEF Spec, ManagerSpec

\* The operands of active statements and the result on its way to the caller,
\* or from a function to C++, exist, whatever containers the callee's sweeps
\* delete.  What main returns is no such result: its sweep deletes it.
THEOREM OperandsOutliveSweeps == ASSUME StoredOnce PROVE Spec => []OperandsAlive
<1>1. ContainerInv => OperandsAlive
  BY Typed DEF OperandsAlive, ContainerInv, Heap, OwnNode, OperandsWait, Result
<1> QED  BY <1>1, ContainerInvariant, PTL

\* Every candidate is an object that exists, and is a candidate once, although
\* the elements of a container are released again and again.
THEOREM ElementsAreDeletedOnce ==
    ASSUME StoredOnce PROVE Spec => []CandidatesAreDistinctObjects
<1>1. ContainerInv => CandidatesAreDistinctObjects
  BY NullAssumption
     DEF CandidatesAreDistinctObjects, ContainerInv, Heap, CandidateNodes, DistinctCandidates,
         LostByMain, Result
<1> QED  BY <1>1, ContainerInvariant, PTL
=============================================================================
