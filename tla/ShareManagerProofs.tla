------------------------- MODULE ShareManagerProofs -------------------------
(***************************************************************************)
(* The invariants of the pointer manager, for every number of nodes,       *)
(* levels and shares.  The lemmas on single operations are cited by        *)
(* ObjectLifetimeProofs, where the machine calls them.                     *)
(***************************************************************************)
EXTENDS ShareManager, TLAPS

\* What the operations on nodes preserve.
ManagerInv == ManagerTypeOK /\ ListsMatchCounts

\* A new node has no share and joins the candidates of the running level.
LEMMA NewPreserves ==
    ASSUME ManagerInv, NEW nd \in Node, NEW obj \in Object,
           newSharedPointer(nd, obj), UNCHANGED <<idxCurrentStack, sweepVars>>
    PROVE  ManagerInv'
<1>1. ManagerTypeOK'
  BY BoundAssumption DEF ManagerInv, ManagerTypeOK, newSharedPointer, sweepVars, Levels
<1>2. ListsMatchCounts'
  BY DEF ManagerInv, ManagerTypeOK, ListsMatchCounts, newSharedPointer, sweepVars
<1> QED  BY <1>1, <1>2 DEF ManagerInv

\* A share keeps the lists and the counts together.
LEMMA SharePreserves ==
    ASSUME ManagerInv, NEW nd \in nodes,
           sharePointer(nd), UNCHANGED <<idxCurrentStack, sweepVars>>
    PROVE  ManagerInv'
<1> USE DEF ManagerInv, sharePointer, sweepVars
<1> nd \in Node /\ n_shares[nd] \in 0..MaxShares /\ currentStack[nd] \in Levels
  BY DEF ManagerTypeOK
<1>1. ManagerTypeOK'
  BY BoundAssumption DEF ManagerTypeOK
<1>2. ListsMatchCounts'
  BY BoundAssumption, <1>1 DEF ManagerTypeOK, ListsMatchCounts
<1> QED  BY <1>1, <1>2

\* So does a release.
LEMMA UnrefPreserves ==
    ASSUME ManagerInv, NEW nd \in nodes,
           unrefSharedScriptVar(nd), UNCHANGED <<idxCurrentStack, sweepVars>>
    PROVE  ManagerInv'
<1> USE DEF ManagerInv, unrefSharedScriptVar, sweepVars
<1> nd \in Node /\ n_shares[nd] \in 0..MaxShares /\ currentStack[nd] \in Levels
  BY DEF ManagerTypeOK
<1>1. ManagerTypeOK'
  BY BoundAssumption DEF ManagerTypeOK
<1>2. ListsMatchCounts'
  BY BoundAssumption, <1>1 DEF ManagerTypeOK, ListsMatchCounts
<1> QED  BY <1>1, <1>2

\* Visiting a candidate changes no list.
LEMMA VisitPreserves ==
    ASSUME ManagerInv, NEW nd \in Node, RemoveVisit(nd)
    PROVE  ManagerInv'
<1>1. ManagerTypeOK'
  BY DEF ManagerInv, ManagerTypeOK, RemoveVisit, nodeVars
<1>2. ListsMatchCounts'
  BY DEF ManagerInv, ListsMatchCounts, RemoveVisit, nodeVars
<1> QED  BY <1>1, <1>2 DEF ManagerInv

\* Freeing the visited candidate takes it out of its list.
LEMMA FreePreserves ==
    ASSUME ManagerInv, RemoveFree, current \in zero_shares[idxCurrentStack]
    PROVE  ManagerInv'
<1> USE DEF ManagerInv, RemoveFree
<1> idxCurrentStack \in Levels /\ current \in Node /\ n_shares[current] = 0
    /\ 0 \in Levels /\ 0 \in 0..MaxShares
  BY BoundAssumption DEF ManagerTypeOK, ListsMatchCounts, Levels
<1>1. ManagerTypeOK'
  BY DEF ManagerTypeOK
<1>2. ListsMatchCounts'
  BY <1>1 DEF ManagerTypeOK, ListsMatchCounts
<1> QED  BY <1>1, <1>2

-----------------------------------------------------------------------------
\* The lists, the counts and the node under deletion fit together in every
\* state that any client of the manager can reach.
\*
\* SweptNodeIsCandidate is not inductive alone: that a sweep which goes on has
\* a candidate left needs what `finish` recorded at the visit, and that the
\* releases since then have only added candidates.
MoreToSweep ==
    current # Null /\ ~finish => zero_shares[idxCurrentStack] # {current}

IManager == ManagerInv /\ SweptNodeIsCandidate /\ MoreToSweep

THEOREM ManagerInductive == IManager /\ [ManagerNext]_managerVars => IManager'
<1> SUFFICES ASSUME IManager, [ManagerNext]_managerVars PROVE IManager'
  OBVIOUS
<1> ManagerInv /\ SweptNodeIsCandidate /\ MoreToSweep
  BY DEF IManager
<1> idxCurrentStack \in Levels
  BY DEF ManagerInv, ManagerTypeOK
<1>1. CASE New
  <2> PICK nd \in Node, obj \in Object :
        ~sweeping /\ newSharedPointer(nd, obj) /\ UNCHANGED <<idxCurrentStack, sweepVars>>
    BY <1>1 DEF New
  <2>1. ManagerInv'
    BY NewPreserves
  <2>2. SweptNodeIsCandidate' /\ MoreToSweep'
    BY DEF SweptNodeIsCandidate, MoreToSweep, sweepVars
  <2> QED  BY <2>1, <2>2 DEF IManager
<1>2. CASE Share
  <2> PICK nd \in nodes :
        ~sweeping /\ sharePointer(nd) /\ UNCHANGED <<idxCurrentStack, sweepVars>>
    BY <1>2 DEF Share
  <2>1. ManagerInv'
    BY SharePreserves
  <2>2. SweptNodeIsCandidate' /\ MoreToSweep'
    BY DEF SweptNodeIsCandidate, MoreToSweep, sweepVars
  <2> QED  BY <2>1, <2>2 DEF IManager
<1>3. CASE Unref
  <2> PICK nd \in nodes :
        /\ sweeping => current # Null
        /\ unrefSharedScriptVar(nd)
        /\ UNCHANGED <<idxCurrentStack, sweepVars>>
    BY <1>3 DEF Unref
  <2>1. ManagerInv'
    BY UnrefPreserves
  <2>2. SweptNodeIsCandidate' /\ MoreToSweep'
    BY DEF SweptNodeIsCandidate, MoreToSweep, sweepVars, unrefSharedScriptVar, ManagerInv, ManagerTypeOK
  <2> QED  BY <2>1, <2>2 DEF IManager
<1>4. CASE EnterLevel
  <2>1. ManagerInv'
    BY <1>4, BoundAssumption
       DEF EnterLevel, ManagerInv, ManagerTypeOK, ListsMatchCounts, nodeVars, sweepVars,
                Levels
  <2>2. SweptNodeIsCandidate' /\ MoreToSweep'
    BY <1>4 DEF EnterLevel, SweptNodeIsCandidate, MoreToSweep, sweepVars
  <2> QED  BY <2>1, <2>2 DEF IManager
<1>5. CASE LeaveLevel
  <2>1. ManagerInv'
    BY <1>5, BoundAssumption
       DEF LeaveLevel, ManagerInv, ManagerTypeOK, ListsMatchCounts, nodeVars, sweepVars, Levels
  <2>2. SweptNodeIsCandidate' /\ MoreToSweep'
    BY <1>5 DEF LeaveLevel, SweptNodeIsCandidate, MoreToSweep, sweepVars
  <2> QED  BY <2>1, <2>2 DEF IManager
<1>6. CASE \E nd \in Node : RemoveVisit(nd)
  <2> PICK nd \in Node : RemoveVisit(nd)
    BY <1>6
  <2>1. ManagerInv'
    BY VisitPreserves
  <2>2. SweptNodeIsCandidate' /\ MoreToSweep'
    BY NullAssumption DEF SweptNodeIsCandidate, MoreToSweep, RemoveVisit, nodeVars
  <2> QED  BY <2>1, <2>2 DEF IManager
<1>7. CASE RemoveFree
  <2>1. ManagerInv'
    BY <1>7, FreePreserves DEF SweptNodeIsCandidate, RemoveFree
  <2>2. SweptNodeIsCandidate' /\ MoreToSweep'
    BY <1>7 DEF SweptNodeIsCandidate, MoreToSweep, RemoveFree, ManagerInv, ManagerTypeOK
  <2> QED  BY <2>1, <2>2 DEF IManager
<1>8. CASE UNCHANGED managerVars
  BY <1>8 DEF managerVars, IManager, ManagerInv, ManagerTypeOK, ListsMatchCounts,
              SweptNodeIsCandidate, MoreToSweep
<1> QED
  BY <1>1, <1>2, <1>3, <1>4, <1>5, <1>6, <1>7, <1>8 DEF ManagerNext, Sweep

\* The manager starts with empty lists.
LEMMA ManagerInitial == ManagerInit => IManager
<1> SUFFICES ASSUME ManagerInit PROVE IManager
  OBVIOUS
<1> 0 \in Levels /\ 0 \in 0..MaxShares
  BY BoundAssumption DEF Levels
<1>1. ManagerTypeOK
  BY DEF ManagerInit, ManagerTypeOK
<1>2. ListsMatchCounts /\ SweptNodeIsCandidate /\ MoreToSweep
  BY DEF ManagerInit, ListsMatchCounts, SweptNodeIsCandidate, MoreToSweep
<1> QED  BY <1>1, <1>2 DEF IManager, ManagerInv

\* Type correctness of the manager: every node and every list has the type that
\* the operations expect, at each level that has lists.  That calls nest no
\* deeper is EnterLevel's guard, not a result.
THEOREM ManagerTypeCorrect == ManagerSpec => []ManagerTypeOK
<1>1. IManager => ManagerTypeOK
  BY DEF IManager, ManagerInv
<1> QED  BY <1>1, ManagerInitial, ManagerInductive, PTL DEF ManagerSpec

\* A node is in the list that its count and its level name, and in no other:
\* the two moves between the lists never miss the list the node is in.
THEOREM ListsAlwaysMatchCounts == ManagerSpec => []ListsMatchCounts
<1>1. IManager => ListsMatchCounts
  BY DEF IManager, ManagerInv
<1> QED  BY <1>1, ManagerInitial, ManagerInductive, PTL DEF ManagerSpec

\* Whatever the releases of a deletion do to the lists, the node under
\* deletion stays where the sweep will free it, and nothing but such a
\* candidate is ever freed.
THEOREM OnlyCandidatesAreFreed == ManagerSpec => FreedNodesWereCandidates
<1> DEFINE Step == \A nd \in nodes \ nodes' :
                      n_shares[nd] = 0 /\ nd \in zero_shares[idxCurrentStack]
<1>1. IManager /\ [ManagerNext]_managerVars => [Step]_managerVars
  <2> SUFFICES ASSUME IManager, ManagerNext PROVE Step
    OBVIOUS
  <2>1. CASE RemoveFree
    BY <2>1 DEF RemoveFree, IManager, SweptNodeIsCandidate, ManagerInv, ListsMatchCounts,
                ManagerTypeOK
  <2>2. CASE \E nd \in Node : RemoveVisit(nd)
    BY <2>2 DEF RemoveVisit, nodeVars
  <2>3. CASE New
    BY <2>3 DEF New, newSharedPointer
  <2>4. CASE Share
    BY <2>4 DEF Share, sharePointer
  <2>5. CASE Unref
    BY <2>5 DEF Unref, unrefSharedScriptVar
  <2>6. CASE EnterLevel \/ LeaveLevel
    BY <2>6 DEF EnterLevel, LeaveLevel, nodeVars
  <2> QED  BY <2>1, <2>2, <2>3, <2>4, <2>5, <2>6 DEF ManagerNext, Sweep
<1> QED  BY <1>1, ManagerInitial, ManagerInductive, PTL DEF ManagerSpec, FreedNodesWereCandidates
=============================================================================
