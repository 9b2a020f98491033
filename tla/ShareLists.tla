----------------------------- MODULE ShareLists -----------------------------
(***************************************************************************)
(* The linked rings under the pointer manager: tInfoSharedList with its    *)
(* first and last pointers, the next and previous pointers of the nodes,   *)
(* and the macros SHARE_LIST_INSERT, SHARE_LIST_DEATTACH and               *)
(* REMOVE_0_SHARED_POINTERS of core/vm/CVirtualMachine.cpp, pointer by     *)
(* pointer.  The abstract manager with sets is ShareManager, and Manager   *)
(* below is what this module is shown to implement.                        *)
(*                                                                         *)
(* Freed memory: during a sweep list.first stays the address of a node     *)
(* that is freed already, and an insertion writes its `previous`.  No node *)
(* is allocated during a sweep, so the write reaches no live node; the     *)
(* variable wildWrite records that it happened.                            *)
(***************************************************************************)
EXTENDS Integers

CONSTANTS Node, Object, Null, MaxLevel, MaxShares

ASSUME NullAssumption == Null \notin Node /\ Null \notin Object
ASSUME BoundAssumption == MaxLevel \in Nat \ {0} /\ MaxShares \in Nat \ {0}

\* The levels that have lists, as in ShareManager.
Levels == 0..MaxLevel

VARIABLES
    idxCurrentStack, nodes, n_shares, shared_ptr, currentStack,
    first, last,      \* [{"zero", "shared"} \X Levels -> Node or Null]
    next, previous,   \* [Node -> Node or Null]
    first_node,       \* the sweep's copy of list->first, Null outside a sweep
    current,          \* the node the sweep stands at
    next_node,        \* its successor, read before the object is deleted
    finish,
    deleting,         \* the object of current is being deleted
    wildWrite         \* freed memory has been written

vars == <<idxCurrentStack, nodes, n_shares, shared_ptr, currentStack, first, last,
          next, previous, first_node, current, next_node, finish, deleting, wildWrite>>

dataVars  == <<idxCurrentStack, nodes, shared_ptr>>
sweepVars == <<first_node, current, next_node, finish, deleting>>

Zero(l)   == <<"zero", l>>
Shared(l) == <<"shared", l>>
Lists     == {"zero", "shared"} \X Levels
Pointer   == Node \cup {Null}

-----------------------------------------------------------------------------
(* What a list holds, for the guards, the properties and the refinement.    *)

\* The nodes met from nd on, along nxt, until the ring closes at fst: the least
\* set that holds nd and is closed under nxt.
ClosedFrom(nxt, fst, nd, S) ==
    /\ nd # Null => nd \in S
    /\ \A x \in S : nxt[x] \in S \cup {fst, Null}
Reach(nxt, fst, nd) ==
    LET closed == {S \in SUBSET Node : ClosedFrom(nxt, fst, nd, S)}
    IN  {x \in Node : \A S \in closed : x \in S}

Sweeping(list) == first_node # Null /\ list = Zero(idxCurrentStack)

\* Of the list being swept only what the walk has not freed yet counts.
Start(list) == IF Sweeping(list) THEN current ELSE first[list]
Members(list) == Reach(next, first[list], Start(list))

Manager == INSTANCE ShareManager WITH
    zero_shares <- [l \in Levels |-> Members(Zero(l))],
    shared_var  <- [l \in Levels |-> Members(Shared(l))],
    sweeping    <- first_node # Null,
    current     <- IF deleting THEN current ELSE Null,
    finish      <- deleting /\ finish

-----------------------------------------------------------------------------
(* The macros.  Each takes the heap it starts from and gives the heap it    *)
(* leaves, for two of them run one after the other in one function.         *)

Heap == [first |-> first, last |-> last, next |-> next, previous |-> previous]

\* Mutant of Insert: the ring is not closed in the backward direction.
InsertKeepsOldPrevious(h, list, nd) ==
    IF h.first[list] = Null
    THEN [first    |-> [h.first EXCEPT ![list] = nd],
          last     |-> [h.last EXCEPT ![list] = nd],
          next     |-> [h.next EXCEPT ![nd] = nd],
          previous |-> [h.previous EXCEPT ![nd] = nd]]
    ELSE [h EXCEPT !.next = [@ EXCEPT ![h.last[list]] = nd, ![nd] = h.first[list]],
                   !.previous = [@ EXCEPT ![nd] = h.last[list]],
                   !.last = [@ EXCEPT ![list] = nd]]

\* SHARE_LIST_INSERT
Insert(h, list, nd) ==
    IF h.first[list] = Null
    THEN [first    |-> [h.first EXCEPT ![list] = nd],
          last     |-> [h.last EXCEPT ![list] = nd],
          next     |-> [h.next EXCEPT ![nd] = nd],
          previous |-> [h.previous EXCEPT ![nd] = nd]]
    ELSE [h EXCEPT !.next = [@ EXCEPT ![h.last[list]] = nd, ![nd] = h.first[list]],
                   !.previous = [@ EXCEPT ![nd] = h.last[list], ![h.first[list]] = nd],
                   !.last = [@ EXCEPT ![list] = nd]]

\* SHARE_LIST_DEATTACH; nd keeps its own stale links when others remain.
Deattach(h, list, nd) ==
    IF h.next[nd] = nd
    THEN [first    |-> [h.first EXCEPT ![list] = Null],
          last     |-> [h.last EXCEPT ![list] = Null],
          next     |-> [h.next EXCEPT ![nd] = Null],
          previous |-> [h.previous EXCEPT ![nd] = Null]]
    ELSE LET p == h.previous[nd]
             n == h.next[nd]
         IN  [first    |-> [h.first EXCEPT ![list] = IF @ = nd THEN n ELSE @],
              last     |-> [h.last EXCEPT ![list] = IF nd # h.first[list] /\ @ = nd THEN p ELSE @],
              next     |-> [h.next EXCEPT ![p] = n],
              previous |-> [h.previous EXCEPT ![n] = p]]

HeapBecomes(h) ==
    /\ first' = h.first
    /\ last' = h.last
    /\ next' = h.next
    /\ previous' = h.previous

\* The insertion reaches list.first->previous even when that node is freed.
NoteWrite(h, list) ==
    wildWrite' = (wildWrite \/ (h.first[list] # Null /\ h.first[list] \notin nodes))

-----------------------------------------------------------------------------
(* The functions, called as ShareManager's client calls them.               *)

newSharedPointer == \E nd \in Node \ nodes, obj \in Object :
    /\ first_node = Null
    /\ nodes' = nodes \cup {nd}
    /\ n_shares' = [n_shares EXCEPT ![nd] = 0]
    /\ shared_ptr' = [shared_ptr EXCEPT ![nd] = obj]
    /\ currentStack' = [currentStack EXCEPT ![nd] = idxCurrentStack]
    /\ HeapBecomes(Insert(Heap, Zero(idxCurrentStack), nd))
    /\ NoteWrite(Heap, Zero(idxCurrentStack))
    /\ UNCHANGED <<idxCurrentStack, sweepVars>>

sharePointer == \E nd \in nodes :
    /\ first_node = Null
    /\ n_shares[nd] > 0 \/ nd \in Members(Zero(currentStack[nd]))
    /\ n_shares[nd] < MaxShares
    /\ n_shares' = [n_shares EXCEPT ![nd] = @ + 1]
    /\ IF n_shares[nd] = 0
       THEN LET h == Deattach(Heap, Zero(currentStack[nd]), nd)
            IN  /\ HeapBecomes(Insert(h, Shared(idxCurrentStack), nd))
                /\ NoteWrite(h, Shared(idxCurrentStack))
                /\ currentStack' = [currentStack EXCEPT ![nd] = idxCurrentStack]
       ELSE UNCHANGED <<first, last, next, previous, wildWrite, currentStack>>
    /\ UNCHANGED <<dataVars, sweepVars>>

\* Mutant of unrefSharedScriptVar: a count of zero is decremented.
unrefBelowZero == \E nd \in nodes :
    /\ first_node # Null => deleting
    /\ n_shares' = [n_shares EXCEPT ![nd] = @ - 1]
    /\ IF n_shares[nd] = 1
       THEN LET h == Deattach(Heap, Shared(currentStack[nd]), nd)
            IN  /\ HeapBecomes(Insert(h, Zero(idxCurrentStack), nd))
                /\ NoteWrite(h, Zero(idxCurrentStack))
                /\ currentStack' = [currentStack EXCEPT ![nd] = idxCurrentStack]
       ELSE UNCHANGED <<first, last, next, previous, wildWrite, currentStack>>
    /\ UNCHANGED <<dataVars, sweepVars>>

unrefSharedScriptVar == \E nd \in nodes :
    /\ first_node # Null => deleting
    /\ n_shares[nd] > 0
    /\ n_shares' = [n_shares EXCEPT ![nd] = @ - 1]
    /\ IF n_shares[nd] = 1
       THEN LET h == Deattach(Heap, Shared(currentStack[nd]), nd)
            IN  /\ HeapBecomes(Insert(h, Zero(idxCurrentStack), nd))
                /\ NoteWrite(h, Zero(idxCurrentStack))
                /\ currentStack' = [currentStack EXCEPT ![nd] = idxCurrentStack]
       ELSE UNCHANGED <<first, last, next, previous, wildWrite, currentStack>>
    /\ UNCHANGED <<dataVars, sweepVars>>

EnterLevel ==
    /\ first_node = Null
    /\ idxCurrentStack < MaxLevel
    /\ idxCurrentStack' = idxCurrentStack + 1
    /\ UNCHANGED <<nodes, n_shares, shared_ptr, currentStack, first, last, next,
                   previous, sweepVars, wildWrite>>

LeaveLevel ==
    /\ first_node = Null
    /\ idxCurrentStack > 0
    /\ idxCurrentStack' \in {0, idxCurrentStack - 1}
    /\ UNCHANGED <<nodes, n_shares, shared_ptr, currentStack, first, last, next,
                   previous, sweepVars, wildWrite>>

-----------------------------------------------------------------------------
(* REMOVE_0_SHARED_POINTERS(idxCurrentStack): the walk up to the deletion   *)
(* of an object, and from there to the next iteration.                      *)

\* Mutant of RemoveVisit: the ring is walked as a list that ends in NULL.
RemoveVisitToNull ==
    /\ ~deleting
    /\ LET start == IF first_node = Null THEN first[Zero(idxCurrentStack)] ELSE first_node
           cur   == IF first_node = Null THEN start ELSE current
       IN  /\ start # Null
           /\ first_node' = start
           /\ current' = cur
           /\ next_node' = next[cur]
           /\ finish' = (next[cur] = Null)
    /\ deleting' = TRUE
    /\ UNCHANGED <<dataVars, n_shares, currentStack, first, last, next, previous, wildWrite>>

\* Mutant of RemoveVisit: the end of the ring is tested on the node itself.
RemoveVisitStopsAtFirst ==
    /\ ~deleting
    /\ LET start == IF first_node = Null THEN first[Zero(idxCurrentStack)] ELSE first_node
           cur   == IF first_node = Null THEN start ELSE current
       IN  /\ start # Null
           /\ first_node' = start
           /\ current' = cur
           /\ next_node' = next[cur]
           /\ finish' = (cur = start)
    /\ deleting' = TRUE
    /\ UNCHANGED <<dataVars, n_shares, currentStack, first, last, next, previous, wildWrite>>

RemoveVisit ==
    /\ ~deleting
    /\ LET start == IF first_node = Null THEN first[Zero(idxCurrentStack)] ELSE first_node
           cur   == IF first_node = Null THEN start ELSE current
       IN  /\ start # Null
           /\ first_node' = start
           /\ current' = cur
           /\ next_node' = next[cur]
           /\ finish' = (next[cur] = start)
    /\ deleting' = TRUE
    /\ UNCHANGED <<dataVars, n_shares, currentStack, first, last, next, previous, wildWrite>>

RemoveFree ==
    /\ deleting
    /\ nodes' = nodes \ {current}
    /\ n_shares' = [n_shares EXCEPT ![current] = 0]
    /\ shared_ptr' = [shared_ptr EXCEPT ![current] = Null]
    /\ currentStack' = [currentStack EXCEPT ![current] = 0]
    /\ IF finish
       THEN /\ first' = [first EXCEPT ![Zero(idxCurrentStack)] = Null]
            /\ last' = [last EXCEPT ![Zero(idxCurrentStack)] = Null]
            /\ next' = [next EXCEPT ![current] = Null]
            /\ first_node' = Null
            /\ current' = Null
       ELSE /\ current' = next_node
            /\ UNCHANGED <<first, last, next, first_node>>
    /\ previous' = [previous EXCEPT ![current] = Null]
    /\ next_node' = Null
    /\ finish' = FALSE
    /\ deleting' = FALSE
    /\ UNCHANGED <<idxCurrentStack, wildWrite>>

-----------------------------------------------------------------------------
Init ==
    /\ idxCurrentStack = 0
    /\ nodes = {}
    /\ n_shares = [nd \in Node |-> 0]
    /\ shared_ptr = [nd \in Node |-> Null]
    /\ currentStack = [nd \in Node |-> 0]
    /\ first = [list \in Lists |-> Null]
    /\ last = [list \in Lists |-> Null]
    /\ next = [nd \in Node |-> Null]
    /\ previous = [nd \in Node |-> Null]
    /\ first_node = Null
    /\ current = Null
    /\ next_node = Null
    /\ finish = FALSE
    /\ deleting = FALSE
    /\ wildWrite = FALSE

Next ==
    \/ newSharedPointer
    \/ sharePointer
    \/ unrefSharedScriptVar
    \/ EnterLevel
    \/ LeaveLevel
    \/ RemoveVisit
    \/ RemoveFree

Spec == Init /\ [][Next]_vars

-----------------------------------------------------------------------------
(* Properties.                                                              *)

TypeOK ==
    /\ Manager!ManagerTypeOK
    /\ first \in [Lists -> Pointer] /\ last \in [Lists -> Pointer]
    /\ next \in [Node -> Pointer] /\ previous \in [Node -> Pointer]
    /\ first_node \in Pointer /\ current \in Pointer /\ next_node \in Pointer
    /\ wildWrite \in BOOLEAN

\* Outside the list being swept every list is a closed ring of allocated
\* nodes, the same in both directions, that begins at first and ends at last:
\* no order of insertions and unlinkings breaks one.  Which nodes a list has,
\* and that no two have one in common, is part of ImplementsManager.
RingsAreClosed ==
    \A list \in Lists : ~Sweeping(list) =>
        /\ first[list] = Null <=> last[list] = Null
        /\ first[list] # Null =>
              /\ last[list] \in Members(list)
              /\ next[last[list]] = first[list]
              /\ previous[first[list]] = last[list]
        /\ \A nd \in Members(list) :
              nd \in nodes /\ previous[next[nd]] = nd /\ next[previous[nd]] = nd

\* The walk never stands at, or goes on to, memory it has freed.
WalkStaysAllocated ==
    /\ first_node # Null => current \in nodes
    /\ deleting /\ ~finish => next_node \in nodes \ {current}

\* The rings implement the manager with sets.
ImplementsManager == Manager!ManagerSpec

\* Freed memory is written by no insertion.
NoWildWrite == ~wildWrite
=============================================================================
