---------------------------- MODULE ShareManager ----------------------------
(***************************************************************************)
(* The reference counting of the virtual machine ("pointer manager" of     *)
(* core/vm/CVirtualMachine.cpp).                                           *)
(*                                                                         *)
(* Every script object that the machine manages owns a node.  A node       *)
(* counts the slots that share its object, and it is kept in one of two    *)
(* lists of the function level where its count last became, or stopped     *)
(* being, zero: zero_shares[level] holds the candidates for destruction,   *)
(* shared_var[level] the nodes in use.  A list is a set here; module       *)
(* ShareLists gives the linked rings of the code and implements this one.  *)
(*                                                                         *)
(* The sweep REMOVE_0_SHARED_POINTERS is a loop.  Deleting an object       *)
(* releases its members, and these releases put more nodes into the very   *)
(* list being walked, so an iteration is two steps, Visit and Free, with   *)
(* the releases between them.                                              *)
(***************************************************************************)
EXTENDS Integers, FiniteSets

CONSTANTS
    Node,       \* memory for tInfoSharedPointerNode
    Object,     \* the script objects (CScriptVariable *)
    Null,       \* the NULL pointer
    MaxLevel,   \* the last index of zero_shares and shared_var, MAX_FUNCTION_CALL - 1
    MaxShares   \* MAX_SHARES_VARIABLE, the bound of a count

ASSUME NullAssumption == Null \notin Node /\ Null \notin Object
ASSUME BoundAssumption == MaxLevel \in Nat \ {0} /\ MaxShares \in Nat \ {0}

\* The levels that have lists.
Levels == 0..MaxLevel

VARIABLES
    idxCurrentStack,  \* the level of the running function, 0 outside execution
    nodes,            \* the nodes that are allocated
    n_shares,         \* [Node -> count]
    shared_ptr,       \* [Node -> object]
    currentStack,     \* [Node -> the level of the list the node was put in]
    zero_shares,      \* [level -> nodes with no share, to be swept]
    shared_var,       \* [level -> nodes with shares]
    sweeping,         \* inside REMOVE_0_SHARED_POINTERS(idxCurrentStack)
    current,          \* the node the sweep is deleting, between two: Null
    finish            \* that node was the last one of the list when visited

managerVars == <<idxCurrentStack, nodes, n_shares, shared_ptr, currentStack,
                 zero_shares, shared_var, sweeping, current, finish>>

nodeVars  == <<nodes, n_shares, shared_ptr, currentStack, zero_shares, shared_var>>
sweepVars == <<sweeping, current, finish>>

ManagerInit ==
    /\ idxCurrentStack = 0
    /\ nodes = {}
    /\ n_shares = [nd \in Node |-> 0]
    /\ shared_ptr = [nd \in Node |-> Null]
    /\ currentStack = [nd \in Node |-> 0]
    /\ zero_shares = [l \in Levels |-> {}]
    /\ shared_var = [l \in Levels |-> {}]
    /\ sweeping = FALSE
    /\ current = Null
    /\ finish = FALSE

-----------------------------------------------------------------------------
(* The operations on nodes.  None of them runs unless the caller holds the  *)
(* machine, which is single threaded: the modules that use them say when.   *)

\* newSharedPointer: a fresh node, without shares, at the running level.
newSharedPointer(nd, obj) ==
    /\ nd \notin nodes
    /\ nodes' = nodes \cup {nd}
    /\ n_shares' = [n_shares EXCEPT ![nd] = 0]
    /\ shared_ptr' = [shared_ptr EXCEPT ![nd] = obj]
    /\ currentStack' = [currentStack EXCEPT ![nd] = idxCurrentStack]
    /\ zero_shares' = [zero_shares EXCEPT ![idxCurrentStack] = @ \cup {nd}]
    /\ UNCHANGED shared_var

\* Mutant of sharePointer: the bound is not tested.
shareUnbounded(nd) ==
    /\ n_shares' = [n_shares EXCEPT ![nd] = @ + 1]
    /\ IF n_shares[nd] = 0
       THEN /\ zero_shares' = [zero_shares EXCEPT ![currentStack[nd]] = @ \ {nd}]
            /\ currentStack' = [currentStack EXCEPT ![nd] = idxCurrentStack]
            /\ shared_var' = [shared_var EXCEPT ![idxCurrentStack] = @ \cup {nd}]
       ELSE UNCHANGED <<zero_shares, currentStack, shared_var>>
    /\ UNCHANGED <<nodes, shared_ptr>>

\* sharePointer: one share more; the first one moves the node from the list
\* of its old level to the list of the running level.  At MaxShares the code
\* leaves the process (exit), so there is no such step.
sharePointer(nd) ==
    /\ n_shares[nd] < MaxShares
    /\ n_shares' = [n_shares EXCEPT ![nd] = @ + 1]
    /\ IF n_shares[nd] = 0
       THEN /\ zero_shares' = [zero_shares EXCEPT ![currentStack[nd]] = @ \ {nd}]
            /\ currentStack' = [currentStack EXCEPT ![nd] = idxCurrentStack]
            /\ shared_var' = [shared_var EXCEPT ![idxCurrentStack] = @ \cup {nd}]
       ELSE UNCHANGED <<zero_shares, currentStack, shared_var>>
    /\ UNCHANGED <<nodes, shared_ptr>>

\* Mutant of unrefSharedScriptVar: the node is looked for at the running level.
unrefFromRunningLevel(nd) ==
    /\ n_shares' = [n_shares EXCEPT ![nd] = IF @ > 0 THEN @ - 1 ELSE 0]
    /\ IF n_shares[nd] = 1
       THEN /\ shared_var' = [shared_var EXCEPT ![idxCurrentStack] = @ \ {nd}]
            /\ currentStack' = [currentStack EXCEPT ![nd] = idxCurrentStack]
            /\ zero_shares' = [zero_shares EXCEPT ![idxCurrentStack] = @ \cup {nd}]
       ELSE UNCHANGED <<zero_shares, currentStack, shared_var>>
    /\ UNCHANGED <<nodes, shared_ptr>>

\* unrefSharedScriptVar: one share less; the last one moves the node to the
\* candidates of the running level.  A node without shares is left alone.
unrefSharedScriptVar(nd) ==
    /\ n_shares' = [n_shares EXCEPT ![nd] = IF @ > 0 THEN @ - 1 ELSE 0]
    /\ IF n_shares[nd] = 1
       THEN /\ shared_var' = [shared_var EXCEPT ![currentStack[nd]] = @ \ {nd}]
            /\ currentStack' = [currentStack EXCEPT ![nd] = idxCurrentStack]
            /\ zero_shares' = [zero_shares EXCEPT ![idxCurrentStack] = @ \cup {nd}]
       ELSE UNCHANGED <<zero_shares, currentStack, shared_var>>
    /\ UNCHANGED <<nodes, shared_ptr>>

-----------------------------------------------------------------------------
(* REMOVE_0_SHARED_POINTERS, one iteration in two steps.                    *)

\* The loop reads `next` and decides whether this node is the last one
\* before it deletes the node's object.
RemoveVisit(nd) ==
    /\ current = Null
    /\ nd \in zero_shares[idxCurrentStack]
    /\ current' = nd
    /\ finish' = (zero_shares[idxCurrentStack] = {nd})
    /\ sweeping' = TRUE
    /\ UNCHANGED <<idxCurrentStack, nodeVars>>

\* The object is deleted; the node is freed and, after the last one, the
\* list is emptied whatever has been put into it meanwhile.
RemoveFree ==
    /\ current # Null
    /\ nodes' = nodes \ {current}
    /\ n_shares' = [n_shares EXCEPT ![current] = 0]
    /\ shared_ptr' = [shared_ptr EXCEPT ![current] = Null]
    /\ currentStack' = [currentStack EXCEPT ![current] = 0]
    /\ zero_shares' = [zero_shares EXCEPT ![idxCurrentStack] =
                          IF finish THEN {} ELSE @ \ {current}]
    /\ sweeping' = ~finish
    /\ current' = Null
    /\ finish' = FALSE
    /\ UNCHANGED <<idxCurrentStack, shared_var>>

-----------------------------------------------------------------------------
(* The manager under an arbitrary client that only keeps to the order the   *)
(* machine imposes: while a sweep runs, nothing but releases happens, and   *)
(* the object being deleted is shared by nobody any more.                   *)

New == \E nd \in Node, obj \in Object :
    /\ ~sweeping
    /\ newSharedPointer(nd, obj)
    /\ UNCHANGED <<idxCurrentStack, sweepVars>>

\* An object with a share, or one that waits in its list: what a slot or an
\* operand of the machine can hold.
Share == \E nd \in nodes :
    /\ ~sweeping
    /\ n_shares[nd] > 0 \/ nd \in zero_shares[currentStack[nd]]
    /\ sharePointer(nd)
    /\ UNCHANGED <<idxCurrentStack, sweepVars>>

\* Outside a sweep a slot is cleared; inside one, a member of the object
\* that is being deleted.
Unref == \E nd \in nodes :
    /\ sweeping => current # Null
    /\ unrefSharedScriptVar(nd)
    /\ UNCHANGED <<idxCurrentStack, sweepVars>>

\* execute_internal enters and leaves a function; stackDumped leaves all.  The
\* test there (idxCurrentStack < MAX_FUNCTION_CALL, before the increment) lets in
\* one level more, whose lists lie outside both arrays: undefined behaviour,
\* which programs are taken to stay clear of by nesting less deep.
EnterLevel ==
    /\ ~sweeping
    /\ idxCurrentStack < MaxLevel
    /\ idxCurrentStack' = idxCurrentStack + 1
    /\ UNCHANGED <<nodeVars, sweepVars>>

LeaveLevel ==
    /\ ~sweeping
    /\ idxCurrentStack > 0
    /\ idxCurrentStack' \in {0, idxCurrentStack - 1}
    /\ UNCHANGED <<nodeVars, sweepVars>>

Sweep == (\E nd \in Node : RemoveVisit(nd)) \/ RemoveFree

ManagerNext == New \/ Share \/ Unref \/ EnterLevel \/ LeaveLevel \/ Sweep

ManagerSpec == ManagerInit /\ [][ManagerNext]_managerVars

-----------------------------------------------------------------------------
(* Properties.                                                              *)

ManagerTypeOK ==
    /\ idxCurrentStack \in Levels
    /\ nodes \in SUBSET Node
    /\ n_shares \in [Node -> 0..MaxShares]
    /\ shared_ptr \in [Node -> Object \cup {Null}]
    /\ currentStack \in [Node -> Levels]
    /\ zero_shares \in [Levels -> SUBSET Node]
    /\ shared_var \in [Levels -> SUBSET Node]
    /\ sweeping \in BOOLEAN
    /\ current \in Node \cup {Null}
    /\ finish \in BOOLEAN

\* A node waits for destruction exactly at the level it remembers, with no
\* share, and is in use exactly at the level it remembers, with one: the two
\* unlinkings of sharePointer and unrefSharedScriptVar always take the node
\* out of the list it is in, however many calls lie between.
ListsMatchCounts ==
    /\ \A l \in Levels : \A nd \in zero_shares[l] :
          nd \in nodes /\ n_shares[nd] = 0 /\ currentStack[nd] = l
    /\ \A l \in Levels : \A nd \in shared_var[l] :
          nd \in nodes /\ n_shares[nd] > 0 /\ currentStack[nd] = l
    /\ \A nd \in nodes : n_shares[nd] > 0 => nd \in shared_var[currentStack[nd]]

\* The node of the object under deletion is still a candidate of the running
\* level, whatever the releases of its members have done to the lists.
SweptNodeIsCandidate ==
    /\ current # Null => sweeping /\ current \in zero_shares[idxCurrentStack]
    /\ sweeping /\ current = Null => zero_shares[idxCurrentStack] # {}
    /\ ~sweeping => ~finish

\* Nothing is freed but a node without shares that waits at the running level.
FreedNodesWereCandidates ==
    [][\A nd \in nodes \ nodes' :
          n_shares[nd] = 0 /\ nd \in zero_shares[idxCurrentStack]]_managerVars

\* What the comment in unrefSharedScriptVar says ("mov back to 0s shares
\* (candidate to be deleted on GC check)"): a node whose last share is gone
\* is in a list that some sweep walks.
UnsharedNodeIsCandidate ==
    \A nd \in nodes : n_shares[nd] = 0 => nd \in zero_shares[currentStack[nd]]
=============================================================================
