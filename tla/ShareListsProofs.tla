-------------------------- MODULE ShareListsProofs --------------------------
(***************************************************************************)
(* The rings of the pointer manager, for every number of nodes and levels: *)
(* they stay closed, the walk of a sweep stays on allocated nodes, and they*)
(* implement the lists of ShareManager.                                    *)
(*                                                                         *)
(* The first part is about pointers alone: what Reach collects, and what   *)
(* an insertion, an unlinking and a step of the walk make of a segment.    *)
(***************************************************************************)
EXTENDS ShareLists, TLAPS

\* R is what lies on a list between start and lst: next and previous agree
\* inside, lst goes on to fst, and nothing smaller holds start and follows
\* next up to lst.  Outside a sweep start is fst and the segment is a ring.
Least(nxt, lst, start, R) ==
    \A S \in SUBSET R : start \in S /\ (\A x \in S \ {lst} : nxt[x] \in S) => R \subseteq S

Segment(nxt, prv, fst, lst, start, R) ==
    /\ R \subseteq Node /\ start \in R /\ lst \in R
    /\ nxt[lst] = fst
    /\ \A x \in R \ {lst} : nxt[x] \in R \ {start} /\ prv[nxt[x]] = x
    /\ \A x \in R \ {start} : prv[x] \in R \ {lst} /\ nxt[prv[x]] = x
    /\ start = fst => prv[fst] = lst
    /\ start # fst => fst \notin R
    /\ Least(nxt, lst, start, R)

\* A segment is what Reach collects.
LEMMA SegmentIsReach ==
    ASSUME NEW nxt \in [Node -> Pointer], NEW prv, NEW fst \in Node, NEW lst, NEW start, NEW R,
           Segment(nxt, prv, fst, lst, start, R)
    PROVE  Reach(nxt, fst, start) = R
<1>. USE NullAssumption
<1>1. /\ R \subseteq Node /\ start \in R /\ lst \in R /\ nxt[lst] = fst
      /\ \A x \in R \ {lst} : nxt[x] \in R \ {start}
      /\ \A x \in R \ {lst} : nxt[x] # fst
  BY DEF Segment
<1>2. ClosedFrom(nxt, fst, start, R)
  BY <1>1 DEF ClosedFrom
<1>3. Reach(nxt, fst, start) \subseteq R
  BY <1>1, <1>2 DEF Reach
<1>4. ASSUME NEW S \in SUBSET Node, ClosedFrom(nxt, fst, start, S)
      PROVE  R \subseteq S
  <2>1. start \in S \cap R
    BY <1>1, <1>4 DEF ClosedFrom
  <2>2. ASSUME NEW x \in (S \cap R) \ {lst} PROVE nxt[x] \in S \cap R
    <3>1. nxt[x] \in R /\ nxt[x] # fst /\ nxt[x] # Null
      BY <1>1
    <3>. QED BY <1>4, <3>1 DEF ClosedFrom
  <2>3. R \subseteq S \cap R
    <3>1. Least(nxt, lst, start, R)
      BY DEF Segment
    <3>. QED BY <2>1, <2>2, <3>1 DEF Least
  <2>. QED BY <2>3
<1>5. R \subseteq Reach(nxt, fst, start)
  BY <1>1, <1>4 DEF Reach
<1>. QED BY <1>3, <1>5

\* Nothing is reached from Null.
LEMMA NothingFromNull ==
    ASSUME NEW nxt, NEW fst
    PROVE  Reach(nxt, fst, Null) = {}
<1>1. ClosedFrom(nxt, fst, Null, {})
  BY DEF ClosedFrom
<1>. QED BY <1>1 DEF Reach

\* A segment does not see writes to nodes outside.
LEMMA SegmentFrame ==
    ASSUME NEW nxt, NEW prv, NEW fst, NEW lst, NEW start, NEW R, NEW nxt2, NEW prv2,
           Segment(nxt, prv, fst, lst, start, R),
           \A x \in R : nxt2[x] = nxt[x] /\ prv2[x] = prv[x]
    PROVE  Segment(nxt2, prv2, fst, lst, start, R)
<1>1. Least(nxt2, lst, start, R)
  BY DEF Segment, Least
<1>. QED BY <1>1 DEF Segment

\* The insertion at the end, with or without the first node being still there.
LEMMA SegmentInsert ==
    ASSUME NEW nxt \in [Node -> Pointer], NEW prv \in [Node -> Pointer],
           NEW fst \in Node, NEW lst, NEW start, NEW R, NEW nd \in Node,
           Segment(nxt, prv, fst, lst, start, R), nd \notin R, nd # fst
    PROVE  Segment([nxt EXCEPT ![lst] = nd, ![nd] = fst],
                   [prv EXCEPT ![nd] = lst, ![fst] = nd], fst, nd, start, R \cup {nd})
<1>. DEFINE n2 == [nxt EXCEPT ![lst] = nd, ![nd] = fst]
            p2 == [prv EXCEPT ![nd] = lst, ![fst] = nd]
            Q  == R \cup {nd}
<1>1. /\ R \subseteq Node /\ start \in R /\ lst \in R /\ nxt[lst] = fst
      /\ \A x \in R \ {lst} : nxt[x] \in R \ {start} /\ prv[nxt[x]] = x
      /\ \A x \in R \ {start} : prv[x] \in R \ {lst} /\ nxt[prv[x]] = x
      /\ start # fst => fst \notin R
      /\ Least(nxt, lst, start, R)
  BY DEF Segment
<1>2. n2[nd] = fst /\ n2[lst] = nd /\ \A x \in R \ {lst} : n2[x] = nxt[x]
  BY <1>1
<1>3. p2[fst] = nd /\ p2[nd] = lst /\ \A x \in R \ {start} : p2[x] = prv[x]
  BY <1>1
<1>4. \A x \in Q \ {nd} : n2[x] \in Q \ {start} /\ p2[n2[x]] = x
  <2>. SUFFICES ASSUME NEW x \in R PROVE n2[x] \in Q \ {start} /\ p2[n2[x]] = x
    OBVIOUS
  <2>1. CASE x = lst
    BY <1>1, <1>2, <1>3, <2>1
  <2>2. CASE x # lst
    BY <1>1, <1>2, <1>3, <2>2
  <2>. QED BY <2>1, <2>2
<1>5. \A x \in Q \ {start} : p2[x] \in Q \ {nd} /\ n2[p2[x]] = x
  <2>. SUFFICES ASSUME NEW x \in Q \ {start} PROVE p2[x] \in Q \ {nd} /\ n2[p2[x]] = x
    OBVIOUS
  <2>1. CASE x = nd
    BY <1>1, <1>2, <1>3, <2>1
  <2>2. CASE x # nd
    BY <1>1, <1>2, <1>3, <2>2
  <2>. QED BY <2>1, <2>2
<1>6. Least(n2, nd, start, Q)
  <2>. SUFFICES ASSUME NEW S \in SUBSET Q, start \in S, \A x \in S \ {nd} : n2[x] \in S
                PROVE  Q \subseteq S
    BY DEF Least
  <2>1. \A x \in (S \cap R) \ {lst} : nxt[x] \in S \cap R
    BY <1>1, <1>2
  <2>2. R \subseteq S
    <3>1. S \cap R \in SUBSET R /\ start \in S \cap R
      BY <1>1
    <3>2. R \subseteq S \cap R
      BY <1>1, <2>1, <3>1 DEF Least
    <3>. QED BY <3>2
  <2>. QED BY <1>1, <1>2, <2>2
<1>. QED BY <1>1, <1>2, <1>3, <1>4, <1>5, <1>6 DEF Segment

\* The first node of an empty list.
LEMMA SegmentOfOne ==
    ASSUME NEW nxt \in [Node -> Pointer], NEW prv \in [Node -> Pointer], NEW nd \in Node
    PROVE  Segment([nxt EXCEPT ![nd] = nd], [prv EXCEPT ![nd] = nd], nd, nd, nd, {nd})
  BY DEF Segment, Least

\* The walk frees the node it stands at and goes on to the next one.
LEMMA SegmentAdvance ==
    ASSUME NEW nxt \in [Node -> Pointer], NEW prv \in [Node -> Pointer],
           NEW fst \in Node, NEW lst, NEW start, NEW R,
           Segment(nxt, prv, fst, lst, start, R), start # lst
    PROVE  Segment(nxt, [prv EXCEPT ![start] = Null], fst, lst, nxt[start], R \ {start})
<1>. DEFINE p2 == [prv EXCEPT ![start] = Null]
            Q  == R \ {start}
<1>1. /\ R \subseteq Node /\ start \in R /\ lst \in R /\ nxt[lst] = fst
      /\ \A x \in R \ {lst} : nxt[x] \in R \ {start} /\ prv[nxt[x]] = x
      /\ \A x \in R \ {start} : prv[x] \in R \ {lst} /\ nxt[prv[x]] = x
      /\ start # fst => fst \notin R
      /\ Least(nxt, lst, start, R)
  BY DEF Segment
<1>2. nxt[start] \in Q /\ nxt[start] # fst /\ fst \notin Q
  BY <1>1
<1>3. \A x \in Q \ {lst} : nxt[x] \in Q \ {nxt[start]} /\ p2[nxt[x]] = x
  BY <1>1, <1>2
<1>4. \A x \in Q \ {nxt[start]} : p2[x] \in Q \ {lst} /\ nxt[p2[x]] = x
  BY <1>1, <1>2
<1>5. Least(nxt, lst, nxt[start], Q)
  <2>. SUFFICES ASSUME NEW S \in SUBSET Q, nxt[start] \in S, \A x \in S \ {lst} : nxt[x] \in S
                PROVE  Q \subseteq S
    BY DEF Least
  <2>1. S \cup {start} \in SUBSET R
    BY <1>1
  <2>2. \A x \in (S \cup {start}) \ {lst} : nxt[x] \in S \cup {start}
    OBVIOUS
  <2>3. R \subseteq S \cup {start}
    BY <1>1, <2>1, <2>2 DEF Least
  <2>. QED BY <2>3
<1>. QED BY <1>1, <1>2, <1>3, <1>4, <1>5 DEF Segment

\* What SHARE_LIST_DEATTACH makes of a ring of two or more.
Unlinked(nxt, prv, fst, lst, R, nd, n2, p2, f2, l2, Q) ==
    /\ \A x \in R : n2[x] = IF x = prv[nd] THEN nxt[nd] ELSE nxt[x]
    /\ \A x \in R : p2[x] = IF x = nxt[nd] THEN prv[nd] ELSE prv[x]
    /\ f2 = IF fst = nd THEN nxt[nd] ELSE fst
    /\ l2 = IF nd # fst /\ lst = nd THEN prv[nd] ELSE lst
    /\ Q = R \ {nd}

\* Unlinking a node of a ring of two or more.
LEMMA SegmentDeattach ==
    ASSUME NEW nxt \in [Node -> Pointer], NEW prv \in [Node -> Pointer],
           NEW fst \in Node, NEW lst, NEW R, NEW nd \in R,
           Segment(nxt, prv, fst, lst, fst, R), nxt[nd] # nd,
           NEW n2, NEW p2, NEW f2, NEW l2, NEW Q,
           Unlinked(nxt, prv, fst, lst, R, nd, n2, p2, f2, l2, Q)
    PROVE  Segment(n2, p2, f2, l2, f2, Q) /\ f2 \in Node
<1>. DEFINE p == prv[nd]
            n == nxt[nd]
<1>. USE DEF Unlinked
<1>1. /\ R \subseteq Node /\ fst \in R /\ lst \in R /\ nxt[lst] = fst /\ prv[fst] = lst
      /\ \A x \in R \ {lst} : nxt[x] \in R \ {fst} /\ prv[nxt[x]] = x
      /\ \A x \in R \ {fst} : prv[x] \in R \ {lst} /\ nxt[prv[x]] = x
      /\ Least(nxt, lst, fst, R)
  BY DEF Segment
<1>2. \A x \in R : nxt[x] \in R /\ prv[x] \in R /\ prv[nxt[x]] = x /\ nxt[prv[x]] = x
  BY <1>1
<1>3. p \in Q /\ n \in Q
  BY <1>2
<1>4. /\ \A x \in Q : n2[x] = IF x = p THEN n ELSE nxt[x]
      /\ \A x \in Q : p2[x] = IF x = n THEN p ELSE prv[x]
  BY <1>1, <1>3
<1>5. f2 \in Q /\ l2 \in Q /\ (nd # fst => f2 = fst) /\ (nd = fst => f2 = n)
      /\ (nd = lst /\ nd # fst => l2 = p) /\ (nd # lst => l2 = lst)
  <2>1. nd = fst => nd # lst
    BY <1>1, <1>2
  <2>. QED BY <1>1, <1>3, <2>1
<1>6. n2[l2] = f2 /\ p2[f2] = l2
  <2>1. CASE nd = fst
    BY <1>1, <1>2, <1>3, <1>4, <1>5, <2>1
  <2>2. CASE nd # fst /\ nd = lst
    BY <1>1, <1>2, <1>3, <1>4, <1>5, <2>2
  <2>3. CASE nd # fst /\ nd # lst
    <3>1. f2 = fst /\ l2 = lst /\ n # fst /\ p # lst
      BY <1>1, <1>2, <1>5, <2>3
    <3>. QED BY <1>1, <1>4, <1>5, <3>1
  <2>. QED BY <2>1, <2>2, <2>3
<1>7. \A x \in Q : n2[x] \in Q /\ p2[x] \in Q /\ p2[n2[x]] = x /\ n2[p2[x]] = x
  <2>. SUFFICES ASSUME NEW x \in Q
                PROVE  n2[x] \in Q /\ p2[x] \in Q /\ p2[n2[x]] = x /\ n2[p2[x]] = x
    OBVIOUS
  <2>1. n2[x] \in Q /\ p2[n2[x]] = x
    <3>1. CASE x = p
      BY <1>3, <1>4, <3>1
    <3>2. CASE x # p
      <4>1. nxt[x] \in Q /\ nxt[x] # n
        BY <1>2, <3>2
      <4>. QED BY <1>2, <1>4, <3>2, <4>1
    <3>. QED BY <3>1, <3>2
  <2>2. p2[x] \in Q /\ n2[p2[x]] = x
    <3>1. CASE x = n
      BY <1>3, <1>4, <3>1
    <3>2. CASE x # n
      <4>1. prv[x] \in Q /\ prv[x] # p
        BY <1>2, <3>2
      <4>. QED BY <1>2, <1>4, <3>2, <4>1
    <3>. QED BY <3>1, <3>2
  <2>. QED BY <2>1, <2>2
<1>8. \A x \in Q \ {l2} : n2[x] # f2
  BY <1>5, <1>6, <1>7
<1>9. \A x \in Q \ {f2} : p2[x] # l2
  BY <1>5, <1>6, <1>7
<1>10. Least(n2, l2, f2, Q)
  <2>. SUFFICES ASSUME NEW S \in SUBSET Q, f2 \in S, \A x \in S \ {l2} : n2[x] \in S
                PROVE  Q \subseteq S
    BY DEF Least
  <2>1. \A x \in S : n2[x] \in S
    BY <1>6
  <2>. DEFINE T == S \cup (IF nd = fst \/ p \in S THEN {nd} ELSE {})
  <2>2. T \in SUBSET R /\ fst \in T
    BY <1>5
  <2>3. \A x \in T \ {lst} : nxt[x] \in T
    <3>. SUFFICES ASSUME NEW x \in T PROVE nxt[x] \in T
      OBVIOUS
    <3>1. CASE x = nd
      <4>1. CASE nd = fst
        BY <1>5, <3>1, <4>1
      <4>2. CASE nd # fst
        BY <1>4, <2>1, <3>1, <4>2
      <4>. QED BY <4>1, <4>2
    <3>2. CASE x # nd /\ x = p
      BY <1>2, <3>2
    <3>3. CASE x # nd /\ x # p
      BY <1>4, <2>1, <3>3
    <3>. QED BY <3>1, <3>2, <3>3
  <2>4. R \subseteq T
    BY <1>1, <2>2, <2>3 DEF Least
  <2>. QED BY <2>4
<1>11. Q \subseteq Node /\ f2 \in Node
  BY <1>1, <1>5
<1>12. Segment(n2, p2, f2, l2, f2, Q)
  BY <1>5, <1>6, <1>7, <1>8, <1>9, <1>10, <1>11 DEF Segment
<1>. QED BY <1>11, <1>12

-----------------------------------------------------------------------------
(* The heap as a whole.  N are the allocated nodes, start and mem give for  *)
(* every list where it is entered and what it holds.                        *)

HeapType == [first : [Lists -> Pointer], last : [Lists -> Pointer],
             next : [Node -> Pointer], previous : [Node -> Pointer]]

Disjoint(mem) == \A k, list \in Lists : k # list => mem[k] \cap mem[list] = {}

ListIs(h, N, start, mem, list) ==
    IF h.first[list] = Null
    THEN h.last[list] = Null /\ start[list] = Null /\ mem[list] = {}
    ELSE /\ Segment(h.next, h.previous, h.first[list], h.last[list], start[list], mem[list])
         /\ start[list] # h.first[list] => h.first[list] \notin N

Described(h, N, start, mem) ==
    /\ h \in HeapType
    /\ mem \in [Lists -> SUBSET N]
    /\ start \in [Lists -> Pointer]
    /\ Disjoint(mem)
    /\ \A list \in Lists : ListIs(h, N, start, mem, list)

\* The first pointer of a list is one of its nodes, or memory that is freed.
LEMMA FirstIsInside ==
    ASSUME NEW h, NEW N, NEW start, NEW mem, Described(h, N, start, mem),
           NEW list \in Lists, h.first[list] # Null
    PROVE  /\ h.first[list] \in mem[list] \/ h.first[list] \notin N
           /\ h.last[list] \in mem[list] /\ start[list] \in mem[list]
           /\ h.first[list] \in Node
<1>1. /\ Segment(h.next, h.previous, h.first[list], h.last[list], start[list], mem[list])
      /\ start[list] # h.first[list] => h.first[list] \notin N
      /\ h.first[list] \in Pointer
  BY DEF Described, ListIs, HeapType
<1>. QED BY <1>1 DEF Segment, Pointer

\* What a macro leaves in one list and does not touch in the others.
LEMMA OneListChanges ==
    ASSUME NEW N \in SUBSET Node, NEW h, NEW start, NEW mem, Described(h, N, start, mem),
           NEW M \in SUBSET Node,
           NEW list \in Lists, NEW h2 \in HeapType, NEW start2 \in [Lists -> Pointer],
           NEW mem2 \in [Lists -> SUBSET M],
           \A k \in Lists \ {list} :
              /\ h2.first[k] = h.first[k] /\ h2.last[k] = h.last[k] /\ start2[k] = start[k]
              /\ \A x \in mem[k] : h2.next[x] = h.next[x] /\ h2.previous[x] = h.previous[x]
              /\ mem2[k] = mem[k] /\ mem[k] \cap mem2[list] = {}
              /\ h.first[k] \notin M \ N,
           ListIs(h2, M, start2, mem2, list)
    PROVE  Described(h2, M, start2, mem2)
<1>1. /\ mem \in [Lists -> SUBSET N] /\ Disjoint(mem)
      /\ \A k \in Lists : ListIs(h, N, start, mem, k)
  BY DEF Described
<1>2. \A k \in Lists \ {list} : mem2[k] = mem[k] /\ mem[k] \cap mem2[list] = {}
  OBVIOUS
<1>4. Disjoint(mem2)
  BY <1>1, <1>2 DEF Disjoint
<1>5. ASSUME NEW k \in Lists PROVE ListIs(h2, M, start2, mem2, k)
  <2>1. CASE k = list
    BY <2>1
  <2>2. CASE k # list
    <3>1. /\ ListIs(h, N, start, mem, k) /\ mem2[k] = mem[k]
          /\ h2.first[k] = h.first[k] /\ h2.last[k] = h.last[k] /\ start2[k] = start[k]
          /\ \A x \in mem[k] : h2.next[x] = h.next[x] /\ h2.previous[x] = h.previous[x]
          /\ h.first[k] \notin M \ N
      BY <1>1, <1>2, <2>2
    <3>2. CASE h.first[k] = Null
      BY <3>1, <3>2 DEF ListIs
    <3>3. CASE h.first[k] # Null
      <4>1. /\ Segment(h.next, h.previous, h.first[k], h.last[k], start[k], mem[k])
            /\ start[k] # h.first[k] => h.first[k] \notin N
        BY <3>1, <3>3 DEF ListIs
      <4>2. Segment(h2.next, h2.previous, h.first[k], h.last[k], start[k], mem[k])
        BY <3>1, <4>1, SegmentFrame
      <4>. QED BY <3>1, <3>3, <4>1, <4>2 DEF ListIs
    <3>. QED BY <3>2, <3>3
  <2>. QED BY <2>1, <2>2
<1>. QED BY <1>4, <1>5 DEF Described

\* What becomes of the description with SHARE_LIST_INSERT.
Inserted(h, start, mem, list, nd, h2, start2, mem2) ==
    /\ h2 = Insert(h, list, nd)
    /\ start2 = [start EXCEPT ![list] = IF h.first[list] = Null THEN nd ELSE @]
    /\ mem2 = [mem EXCEPT ![list] = @ \cup {nd}]

\* nd is allocated, alone or with other nodes, and no list holds or begins at it.
InNoList(h, N, mem, M, nd) ==
    /\ M \in SUBSET Node /\ N \subseteq M /\ nd \in M
    /\ \A k \in Lists : h.first[k] \notin M \ N
    /\ \A k \in Lists : nd \notin mem[k] /\ nd # h.first[k]

\* SHARE_LIST_INSERT puts the node at the end of the list and changes no other
\* list, even when it writes to a first node that is freed.
LEMMA InsertDescribed ==
    ASSUME NEW N \in SUBSET Node, NEW h, NEW start, NEW mem, Described(h, N, start, mem),
           NEW M, NEW nd, InNoList(h, N, mem, M, nd), NEW list \in Lists,
           NEW h2, NEW start2, NEW mem2, Inserted(h, start, mem, list, nd, h2, start2, mem2)
    PROVE  /\ Described(h2, M, start2, mem2)
           /\ h2.first[list] = (IF h.first[list] = Null THEN nd ELSE h.first[list])
           /\ \A k \in Lists \ {list} : h2.first[k] = h.first[k]
<1>. DEFINE R == mem[list] \cup {nd}
<1>. /\ M \in SUBSET Node /\ N \subseteq M /\ nd \in M
     /\ \A k \in Lists : h.first[k] \notin M \ N
     /\ \A k \in Lists : nd \notin mem[k] /\ nd # h.first[k]
  BY DEF InNoList
<1>0. /\ h \in HeapType /\ mem \in [Lists -> SUBSET N] /\ start \in [Lists -> Pointer]
      /\ Disjoint(mem) /\ \A k \in Lists : ListIs(h, N, start, mem, k)
      /\ nd \in Node
  BY DEF Described
<1>1. /\ h.first \in [Lists -> Pointer] /\ h.last \in [Lists -> Pointer]
      /\ h.next \in [Node -> Pointer] /\ h.previous \in [Node -> Pointer]
  BY <1>0 DEF HeapType
<1>2. start2 \in [Lists -> Pointer] /\ mem2 \in [Lists -> SUBSET M]
  BY <1>0 DEF Pointer, Inserted
<1>3. mem2[list] = R /\ start2[list] = IF h.first[list] = Null THEN nd ELSE start[list]
  BY <1>0 DEF Inserted
<1>4. \A k \in Lists \ {list} :
         start2[k] = start[k] /\ mem2[k] = mem[k] /\ mem[k] \cap mem2[list] = {}
  BY <1>0 DEF Disjoint, Inserted
<1>5. CASE h.first[list] = Null
  <2>1. h2 = [first    |-> [h.first EXCEPT ![list] = nd],
              last     |-> [h.last EXCEPT ![list] = nd],
              next     |-> [h.next EXCEPT ![nd] = nd],
              previous |-> [h.previous EXCEPT ![nd] = nd]]
    BY <1>5 DEF Insert, Inserted
  <2>2. h2 \in HeapType
    BY <1>0, <1>1, <2>1 DEF HeapType, Pointer
  <2>3. mem[list] = {} /\ R = {nd}
    BY <1>0, <1>5 DEF ListIs
  <2>4. Segment(h2.next, h2.previous, nd, nd, nd, {nd})
    BY <1>0, <1>1, <2>1, SegmentOfOne
  <2>5. h2.first[list] = nd /\ h2.last[list] = nd /\ start2[list] = nd /\ nd # Null
    BY <1>0, <1>1, <1>3, <1>5, <2>1, NullAssumption
  <2>6. ListIs(h2, M, start2, mem2, list)
    BY <1>3, <2>3, <2>4, <2>5 DEF ListIs
  <2>7. \A k \in Lists \ {list} :
           /\ h2.first[k] = h.first[k] /\ h2.last[k] = h.last[k]
           /\ \A x \in mem[k] : h2.next[x] = h.next[x] /\ h2.previous[x] = h.previous[x]
    BY <1>0, <1>1, <2>1
  <2>10. \A k \in Lists \ {list} :
           /\ h2.first[k] = h.first[k] /\ h2.last[k] = h.last[k] /\ start2[k] = start[k]
           /\ \A x \in mem[k] : h2.next[x] = h.next[x] /\ h2.previous[x] = h.previous[x]
           /\ mem2[k] = mem[k] /\ mem[k] \cap mem2[list] = {}
           /\ h.first[k] \notin M \ N
    BY <1>4, <2>7
  <2>8. Described(h2, M, start2, mem2)
    BY <1>2, <2>2, <2>6, <2>10, OneListChanges
  <2>9. /\ h2.first[list] = (IF h.first[list] = Null THEN nd ELSE h.first[list])
        /\ \A k \in Lists \ {list} : h2.first[k] = h.first[k]
    BY <1>1, <1>5, <2>1
  <2>. QED BY <2>8, <2>9
<1>6. CASE h.first[list] # Null
  <2>. DEFINE fst == h.first[list]
              lst == h.last[list]
              n2  == [h.next EXCEPT ![lst] = nd, ![nd] = fst]
              p2  == [h.previous EXCEPT ![nd] = lst, ![fst] = nd]
  <2>1. h2 = [first |-> h.first, last |-> [h.last EXCEPT ![list] = nd],
              next |-> n2, previous |-> p2]
    BY <1>0, <1>1, <1>6 DEF Insert, Inserted, HeapType
  <2>2. /\ Segment(h.next, h.previous, fst, lst, start[list], mem[list])
        /\ start[list] # fst => fst \notin N
    BY <1>0, <1>6 DEF ListIs
  <2>3. fst \in Node /\ lst \in mem[list] /\ (fst \in mem[list] \/ fst \notin N)
    BY <1>6, FirstIsInside
  <2>4. Segment(n2, p2, fst, nd, start[list], R)
    BY <1>0, <1>1, <2>2, <2>3, SegmentInsert
  <2>5. h2 \in HeapType
    BY <1>0, <1>1, <2>1, <2>3 DEF HeapType, Pointer
  <2>6. ListIs(h2, M, start2, mem2, list)
    <3>1. h2.first[list] = fst /\ h2.last[list] = nd /\ h2.next = n2 /\ h2.previous = p2
      BY <1>1, <2>1
    <3>2. start[list] # fst => fst \notin M
      BY <2>2
    <3>. QED BY <1>3, <1>6, <2>4, <3>1, <3>2 DEF ListIs
  <2>7. \A k \in Lists \ {list} :
           /\ h2.first[k] = h.first[k] /\ h2.last[k] = h.last[k]
           /\ \A x \in mem[k] : h2.next[x] = h.next[x] /\ h2.previous[x] = h.previous[x]
    <3>. SUFFICES ASSUME NEW k \in Lists \ {list}
                  PROVE  /\ h2.first[k] = h.first[k] /\ h2.last[k] = h.last[k]
                         /\ \A x \in mem[k] : h2.next[x] = h.next[x] /\ h2.previous[x] = h.previous[x]
      OBVIOUS
    <3>1. ASSUME NEW x \in mem[k] PROVE x \in Node /\ x # nd /\ x # lst /\ x # fst
      BY <1>0, <2>3, <3>1 DEF Disjoint
    <3>2. \A x \in mem[k] : n2[x] = h.next[x] /\ p2[x] = h.previous[x]
      BY <1>1, <3>1
    <3>. QED BY <1>1, <2>1, <3>2
  <2>10. \A k \in Lists \ {list} :
           /\ h2.first[k] = h.first[k] /\ h2.last[k] = h.last[k] /\ start2[k] = start[k]
           /\ \A x \in mem[k] : h2.next[x] = h.next[x] /\ h2.previous[x] = h.previous[x]
           /\ mem2[k] = mem[k] /\ mem[k] \cap mem2[list] = {}
           /\ h.first[k] \notin M \ N
    BY <1>4, <2>7
  <2>8. Described(h2, M, start2, mem2)
    BY <1>2, <2>5, <2>6, <2>10, OneListChanges
  <2>9. /\ h2.first[list] = (IF h.first[list] = Null THEN nd ELSE h.first[list])
        /\ \A k \in Lists \ {list} : h2.first[k] = h.first[k]
    BY <1>1, <1>6, <2>1
  <2>. QED BY <2>8, <2>9
<1>. QED BY <1>5, <1>6

\* The nodes of a list go on to where they went, but for the last one.
LEMMA InsertWrites ==
    ASSUME NEW h \in HeapType, NEW list \in Lists, NEW nd \in Node
    PROVE  /\ Insert(h, list, nd).last[list] = nd
           /\ \A x \in Node \ {nd, h.last[list]} : Insert(h, list, nd).next[x] = h.next[x]
<1>. DEFINE h2 == Insert(h, list, nd)
<1>1. h.last \in [Lists -> Pointer] /\ h.next \in [Node -> Pointer]
  BY DEF HeapType
<1>2. CASE h.first[list] = Null
  <2>1. h2.last = [h.last EXCEPT ![list] = nd] /\ h2.next = [h.next EXCEPT ![nd] = nd]
    BY <1>2 DEF Insert
  <2>. QED BY <1>1, <2>1
<1>3. CASE h.first[list] # Null
  <2>1. /\ h2.last = [h.last EXCEPT ![list] = nd]
        /\ h2.next = [h.next EXCEPT ![h.last[list]] = nd, ![nd] = h.first[list]]
    BY <1>3 DEF Insert, HeapType
  <2>. QED BY <1>1, <2>1
<1>. QED BY <1>2, <1>3

\* What becomes of the description with SHARE_LIST_DEATTACH.
Deattached(h, start, mem, list, nd, h2, start2, mem2) ==
    /\ h2 = Deattach(h, list, nd)
    /\ start2 = [start EXCEPT ![list] = h2.first[list]]
    /\ mem2 = [mem EXCEPT ![list] = @ \ {nd}]

\* SHARE_LIST_DEATTACH takes the node out of a ring and changes no other list.
LEMMA DeattachDescribed ==
    ASSUME NEW N \in SUBSET Node, NEW h, NEW start, NEW mem, Described(h, N, start, mem),
           NEW list \in Lists, NEW nd \in mem[list], start[list] = h.first[list],
           NEW h2, NEW start2, NEW mem2, Deattached(h, start, mem, list, nd, h2, start2, mem2)
    PROVE  /\ Described(h2, N, start2, mem2)
           /\ \A k \in Lists \ {list} : h2.first[k] = h.first[k] /\ h2.last[k] = h.last[k]
           /\ \A x \in Node \ mem[list] : h2.next[x] = h.next[x]
           /\ h2.first \in [Lists -> Pointer]
<1>. DEFINE R == mem[list] \ {nd}
            fst == h.first[list]
            lst == h.last[list]
<1>0. /\ h \in HeapType /\ mem \in [Lists -> SUBSET N] /\ start \in [Lists -> Pointer]
      /\ Disjoint(mem) /\ \A k \in Lists : ListIs(h, N, start, mem, k)
      /\ nd \in Node /\ nd \in N
  BY DEF Described
<1>1. /\ h.first \in [Lists -> Pointer] /\ h.last \in [Lists -> Pointer]
      /\ h.next \in [Node -> Pointer] /\ h.previous \in [Node -> Pointer]
  BY <1>0 DEF HeapType
<1>2. fst # Null
  BY <1>0 DEF ListIs
<1>3. Segment(h.next, h.previous, fst, lst, fst, mem[list]) /\ fst \in Node
  BY <1>0, <1>2, FirstIsInside DEF ListIs
<1>4. mem2[list] = R /\ mem2 \in [Lists -> SUBSET N]
      /\ \A k \in Lists \ {list} : mem2[k] = mem[k] /\ mem[k] \cap mem2[list] = {}
  BY <1>0 DEF Disjoint, Deattached
<1>5. CASE h.next[nd] = nd
  <2>1. h2 = [first    |-> [h.first EXCEPT ![list] = Null],
              last     |-> [h.last EXCEPT ![list] = Null],
              next     |-> [h.next EXCEPT ![nd] = Null],
              previous |-> [h.previous EXCEPT ![nd] = Null]]
    BY <1>5 DEF Deattach, Deattached
  <2>2. h2 \in HeapType /\ h2.first \in [Lists -> Pointer]
    BY <1>0, <1>1, <2>1 DEF HeapType, Pointer
  <2>3. mem[list] = {nd}
    <3>1. nd = lst /\ nd = fst
      <4>1. ASSUME nd # lst PROVE FALSE
        <5>1. nd # fst /\ \A x \in mem[list] \ {lst} : h.next[x] = nd => x = nd
          BY <1>3, <1>5, <4>1 DEF Segment
        <5>2. \A x \in (mem[list] \ {nd}) \ {lst} : h.next[x] \in mem[list] \ {nd}
          BY <1>3, <5>1 DEF Segment
        <5>3. fst \in mem[list] \ {nd} /\ Least(h.next, lst, fst, mem[list])
          BY <1>3, <5>1 DEF Segment
        <5>4. mem[list] \subseteq mem[list] \ {nd}
          BY <5>2, <5>3 DEF Least
        <5>. QED BY <5>4
      <4>. QED BY <1>3, <1>5, <4>1 DEF Segment
    <3>2. \A x \in {nd} \ {lst} : h.next[x] \in {nd}
      BY <3>1
    <3>3. Least(h.next, lst, fst, mem[list])
      BY <1>3 DEF Segment
    <3>4. mem[list] \subseteq {nd}
      <4>1. {nd} \in SUBSET mem[list] /\ fst \in {nd}
        BY <3>1
      <4>. QED BY <3>2, <3>3, <4>1 DEF Least
    <3>. QED BY <3>4
  <2>4. h2.first[list] = Null /\ h2.last[list] = Null
    BY <1>1, <2>1
  <2>5. start2 \in [Lists -> Pointer] /\ start2[list] = Null
        /\ \A k \in Lists \ {list} : start2[k] = start[k]
    BY <1>0, <2>4 DEF Pointer, Deattached
  <2>6. ListIs(h2, N, start2, mem2, list)
    BY <1>4, <2>3, <2>4, <2>5 DEF ListIs
  <2>7. \A k \in Lists \ {list} :
           /\ h2.first[k] = h.first[k] /\ h2.last[k] = h.last[k]
           /\ \A x \in mem[k] : h2.next[x] = h.next[x] /\ h2.previous[x] = h.previous[x]
    <3>1. \A k \in Lists \ {list} : nd \notin mem[k]
      BY <1>0 DEF Disjoint
    <3>. QED BY <1>0, <1>1, <2>1, <3>1
  <2>9. \A k \in Lists \ {list} :
           /\ h2.first[k] = h.first[k] /\ h2.last[k] = h.last[k] /\ start2[k] = start[k]
           /\ \A x \in mem[k] : h2.next[x] = h.next[x] /\ h2.previous[x] = h.previous[x]
           /\ mem2[k] = mem[k] /\ mem[k] \cap mem2[list] = {}
           /\ h.first[k] \notin N \ N
    BY <1>4, <2>5, <2>7
  <2>8. Described(h2, N, start2, mem2)
    BY <1>4, <2>2, <2>5, <2>6, <2>9, OneListChanges
  <2>10. \A x \in Node \ mem[list] : h2.next[x] = h.next[x]
    BY <1>1, <2>1, <2>3
  <2>. QED BY <2>2, <2>7, <2>8, <2>10
<1>6. CASE h.next[nd] # nd
  <2>. DEFINE p == h.previous[nd]
              n == h.next[nd]
              f2 == IF fst = nd THEN n ELSE fst
              l2 == IF nd # fst /\ lst = nd THEN p ELSE lst
              n2 == [h.next EXCEPT ![p] = n]
              p2 == [h.previous EXCEPT ![n] = p]
  <2>1. h2 = [first |-> [h.first EXCEPT ![list] = f2], last |-> [h.last EXCEPT ![list] = l2],
              next |-> n2, previous |-> p2]
    <3>. DEFINE F == [h.first EXCEPT ![list] = IF @ = nd THEN n ELSE @]
                L == [h.last EXCEPT ![list] = IF nd # fst /\ @ = nd THEN p ELSE @]
    <3>1. h2 = [first |-> F, last |-> L, next |-> n2, previous |-> p2]
      BY <1>6 DEF Deattach, Deattached
    <3>2. F = [h.first EXCEPT ![list] = f2] /\ L = [h.last EXCEPT ![list] = l2]
      OBVIOUS
    <3>. QED BY <3>1, <3>2
  <2>2. Segment(n2, p2, f2, l2, f2, R) /\ f2 \in Node
    <3>1. mem[list] \subseteq Node /\ p \in Node /\ n \in Node
      BY <1>3 DEF Segment
    <3>2. /\ \A x \in mem[list] : n2[x] = IF x = p THEN n ELSE h.next[x]
          /\ \A x \in mem[list] : p2[x] = IF x = n THEN p ELSE h.previous[x]
      BY <1>1, <3>1
    <3>3. Unlinked(h.next, h.previous, fst, lst, mem[list], nd, n2, p2, f2, l2, R)
      BY <3>2 DEF Unlinked
    <3>. HIDE DEF R, fst, lst, n2, p2, f2, l2
    <3>. QED BY <1>1, <1>3, <1>6, <3>3, SegmentDeattach
  <2>3. p \in mem[list] /\ n \in mem[list] /\ l2 \in mem[list]
    BY <1>3 DEF Segment
  <2>4. h2 \in HeapType /\ h2.first \in [Lists -> Pointer]
    BY <1>0, <1>1, <2>1, <2>2, <2>3 DEF HeapType, Pointer
  <2>5. h2.first[list] = f2 /\ h2.last[list] = l2 /\ h2.next = n2 /\ h2.previous = p2
    BY <1>1, <2>1
  <2>6. start2 \in [Lists -> Pointer] /\ start2[list] = f2
        /\ \A k \in Lists \ {list} : start2[k] = start[k]
    BY <1>0, <2>2, <2>5 DEF Pointer, Deattached
  <2>7. ListIs(h2, N, start2, mem2, list)
    BY <1>4, <2>2, <2>5, <2>6, NullAssumption DEF ListIs
  <2>8. \A k \in Lists \ {list} :
           /\ h2.first[k] = h.first[k] /\ h2.last[k] = h.last[k]
           /\ \A x \in mem[k] : h2.next[x] = h.next[x] /\ h2.previous[x] = h.previous[x]
    <3>1. \A k \in Lists \ {list} : \A x \in mem[k] : x # p /\ x # n /\ x \in Node
      BY <1>0, <2>3 DEF Disjoint
    <3>. QED BY <1>1, <2>1, <3>1
  <2>10. \A k \in Lists \ {list} :
           /\ h2.first[k] = h.first[k] /\ h2.last[k] = h.last[k] /\ start2[k] = start[k]
           /\ \A x \in mem[k] : h2.next[x] = h.next[x] /\ h2.previous[x] = h.previous[x]
           /\ mem2[k] = mem[k] /\ mem[k] \cap mem2[list] = {}
           /\ h.first[k] \notin N \ N
    BY <1>4, <2>6, <2>8
  <2>9. Described(h2, N, start2, mem2)
    BY <1>4, <2>4, <2>6, <2>7, <2>10, OneListChanges
  <2>11. \A x \in Node \ mem[list] : h2.next[x] = h.next[x]
    BY <1>1, <2>1, <2>3
  <2>. QED BY <2>4, <2>8, <2>9, <2>11
<1>. QED BY <1>5, <1>6

\* What it leaves: the node has changed lists, no other list is touched, and the
\* nodes of the list it joins go on to where they went, but for the last one.
MoveLeaves(h, N, start, mem, from, to, nd, h2, start2, mem2) ==
    /\ Described(h2, N, start2, mem2)
    /\ h2.first[to] = (IF h.first[to] = Null THEN nd ELSE h.first[to])
    /\ start2[to] = (IF h.first[to] = Null THEN nd ELSE start[to])
    /\ start2[from] = h2.first[from]
    /\ \A k \in Lists \ {from, to} :
          h2.first[k] = h.first[k] /\ start2[k] = start[k] /\ mem2[k] = mem[k]
    /\ mem2[from] = mem[from] \ {nd} /\ mem2[to] = mem[to] \cup {nd}
    /\ h2.last[to] = nd
    /\ \A x \in mem[to] \ {h.last[to]} : h2.next[x] = h.next[x]

Moved(h, from, to, nd, h2) == h2 = Insert(Deattach(h, from, nd), to, nd)

\* A move from a ring to another list: an unlinking and an insertion.
LEMMA MoveDescribed ==
    ASSUME NEW N \in SUBSET Node, NEW h, NEW start, NEW mem, Described(h, N, start, mem),
           NEW from \in Lists, NEW to \in Lists, from # to,
           NEW nd \in mem[from], start[from] = h.first[from],
           NEW h2, Moved(h, from, to, nd, h2)
    PROVE  \E start2, mem2 : MoveLeaves(h, N, start, mem, from, to, nd, h2, start2, mem2)
<1>. DEFINE h1 == Deattach(h, from, nd)
            start1 == [start EXCEPT ![from] = h1.first[from]]
            mem1 == [mem EXCEPT ![from] = @ \ {nd}]
            start2 == [start1 EXCEPT ![to] = IF h1.first[to] = Null THEN nd ELSE @]
            mem2 == [mem1 EXCEPT ![to] = @ \cup {nd}]
<1>1. mem \in [Lists -> SUBSET N] /\ start \in [Lists -> Pointer] /\ Disjoint(mem) /\ nd \in N
  BY DEF Described
<1>2. /\ Described(h1, N, start1, mem1)
      /\ \A k \in Lists \ {from} : h1.first[k] = h.first[k] /\ h1.last[k] = h.last[k]
      /\ \A x \in Node \ mem[from] : h1.next[x] = h.next[x]
      /\ h1.first \in [Lists -> Pointer]
  <2>1. Deattached(h, start, mem, from, nd, h1, start1, mem1)
    BY DEF Deattached
  <2>. HIDE DEF h1, start1, mem1
  <2>. QED BY <2>1, DeattachDescribed
<1>3. /\ \A k \in Lists \ {from} : mem1[k] = mem[k] /\ start1[k] = start[k]
      /\ mem1[from] = mem[from] \ {nd} /\ start1[from] = h1.first[from]
      /\ mem1 \in [Lists -> SUBSET N] /\ start1 \in [Lists -> Pointer]
  BY <1>1, <1>2 DEF Pointer
<1>4. \A k \in Lists : nd \notin mem1[k]
  BY <1>1, <1>3 DEF Disjoint
<1>5. \A k \in Lists : nd # h1.first[k]
  <2>. HIDE DEF h1, start1, mem1
  <2>. SUFFICES ASSUME NEW k \in Lists, h1.first[k] # Null PROVE nd # h1.first[k]
    BY <1>1, NullAssumption
  <2>. QED BY <1>1, <1>2, <1>4, FirstIsInside
<1>6. /\ Described(h2, N, start2, mem2)
      /\ h2.first[to] = (IF h1.first[to] = Null THEN nd ELSE h1.first[to])
      /\ \A k \in Lists \ {to} : h2.first[k] = h1.first[k]
  <2>1. Inserted(h1, start1, mem1, to, nd, h2, start2, mem2)
    BY DEF Inserted, Moved
  <2>2. Described(h1, N, start1, mem1) /\ InNoList(h1, N, mem1, N, nd)
    BY <1>1, <1>2, <1>4, <1>5 DEF InNoList
  <2>. HIDE DEF h1, start1, mem1, start2, mem2
  <2>. QED BY <2>1, <2>2, InsertDescribed
<1>7. /\ h2.first[to] = (IF h.first[to] = Null THEN nd ELSE h.first[to])
      /\ h2.first[from] = h1.first[from]
      /\ \A k \in Lists \ {from, to} : h2.first[k] = h.first[k]
  <2>. HIDE DEF h1
  <2>. QED BY <1>2, <1>6
<1>8. /\ start2[to] = (IF h.first[to] = Null THEN nd ELSE start[to])
      /\ start2[from] = h1.first[from]
      /\ \A k \in Lists \ {from, to} : start2[k] = start[k] /\ mem2[k] = mem[k]
      /\ mem2[from] = mem[from] \ {nd} /\ mem2[to] = mem[to] \cup {nd}
  <2>. HIDE DEF h1, start1, mem1
  <2>. QED BY <1>2, <1>3
<1>9. h2.last[to] = nd /\ \A x \in Node \ {nd, h1.last[to]} : h2.next[x] = h1.next[x]
  <2>1. h1 \in HeapType /\ nd \in Node
    BY <1>1, <1>2 DEF Described
  <2>2. h2 = Insert(h1, to, nd)
    BY DEF Moved
  <2>. HIDE DEF h1
  <2>. QED BY <2>1, <2>2, InsertWrites
<1>10. \A x \in mem[to] \ {h.last[to]} : h2.next[x] = h.next[x]
  <2>1. \A x \in mem[to] : x \in Node /\ x \notin mem[from] /\ x # nd
    BY <1>1 DEF Disjoint
  <2>. HIDE DEF h1
  <2>. QED BY <1>2, <1>9, <2>1
<1>. HIDE DEF h1, start2, mem2
<1>. QED BY <1>6, <1>7, <1>8, <1>9, <1>10 DEF MoveLeaves

\* What the description says of a list is what Reach collects.
LEMMA DescribedIsReach ==
    ASSUME NEW N \in SUBSET Node, NEW h, NEW start, NEW mem, Described(h, N, start, mem),
           NEW list \in Lists
    PROVE  Reach(h.next, h.first[list], start[list]) = mem[list]
<1>1. ListIs(h, N, start, mem, list) /\ h.next \in [Node -> Pointer] /\ h.first[list] \in Pointer
  BY DEF Described, HeapType
<1>2. CASE h.first[list] = Null
  BY <1>1, <1>2, NothingFromNull DEF ListIs
<1>3. CASE h.first[list] # Null
  BY <1>1, <1>3, SegmentIsReach DEF ListIs, Pointer
<1>. QED BY <1>2, <1>3

-----------------------------------------------------------------------------
(* The invariant of the module.                                             *)

StartOf   == [list \in Lists |-> Start(list)]
MembersOf == [list \in Lists |-> Members(list)]

VariablesTyped ==
    /\ idxCurrentStack \in Levels /\ nodes \in SUBSET Node
    /\ n_shares \in [Node -> 0..MaxShares]
    /\ shared_ptr \in [Node -> Object \cup {Null}]
    /\ currentStack \in [Node -> Levels]
    /\ first_node \in Pointer /\ current \in Pointer /\ next_node \in Pointer
    /\ finish \in BOOLEAN /\ deleting \in BOOLEAN /\ wildWrite \in BOOLEAN

HeapIsDescribed == Described(Heap, nodes, StartOf, MembersOf)

\* ShareManager's ListsMatchCounts, of the rings.
RingsMatchCounts ==
    /\ \A l \in Levels : \A nd \in Members(Zero(l)) :
          n_shares[nd] = 0 /\ currentStack[nd] = l
    /\ \A l \in Levels : \A nd \in Members(Shared(l)) :
          n_shares[nd] > 0 /\ currentStack[nd] = l
    /\ \A nd \in nodes : n_shares[nd] > 0 => \E l \in Levels : nd \in Members(Shared(l))

\* The sweep walks the list that it started on; what it decided at a visit still
\* holds when the object is gone, however many nodes came in between.
WalkIsKnown ==
    /\ first_node = Null => ~deleting /\ current = Null
    /\ first_node # Null => first[Zero(idxCurrentStack)] = first_node
    /\ ~deleting => ~finish
    /\ deleting /\ ~finish => /\ current # last[Zero(idxCurrentStack)]
                              /\ next_node = next[current]

RingsInv == VariablesTyped /\ HeapIsDescribed /\ RingsMatchCounts /\ WalkIsKnown

LEMMA ListNames ==
    /\ \A l \in Levels : Zero(l) \in Lists /\ Shared(l) \in Lists
    /\ \A k, l \in Levels : Zero(k) # Shared(l)
    /\ \A k, l \in Levels : k # l => Zero(k) # Zero(l) /\ Shared(k) # Shared(l)
    /\ \A list \in Lists : \E l \in Levels : list = Zero(l) \/ list = Shared(l)
  BY DEF Lists, Zero, Shared

\* What the description says of one list, in the variables.
LEMMA ListFacts ==
    ASSUME RingsInv, NEW list \in Lists
    PROVE  /\ Members(list) \subseteq nodes
           /\ first[list] = Null => Start(list) = Null /\ last[list] = Null /\ Members(list) = {}
           /\ first[list] # Null =>
                 /\ Segment(next, previous, first[list], last[list], Start(list), Members(list))
                 /\ Start(list) # first[list] => first[list] \notin nodes
           /\ \A k \in Lists : k # list => Members(k) \cap Members(list) = {}
<1>1. /\ MembersOf \in [Lists -> SUBSET nodes] /\ Disjoint(MembersOf)
      /\ ListIs(Heap, nodes, StartOf, MembersOf, list)
  BY DEF RingsInv, HeapIsDescribed, Described
<1>2. /\ MembersOf[list] = Members(list) /\ StartOf[list] = Start(list)
      /\ \A k \in Lists : MembersOf[k] = Members(k)
  BY DEF MembersOf, StartOf
<1>3. /\ Heap.first = first /\ Heap.last = last /\ Heap.next = next /\ Heap.previous = previous
  BY DEF Heap
<1>4. Members(list) \subseteq nodes /\ \A k \in Lists : k # list => Members(k) \cap Members(list) = {}
  <2>. HIDE DEF MembersOf
  <2>. QED BY <1>1, <1>2 DEF Disjoint
<1>. QED BY <1>1, <1>2, <1>3, <1>4 DEF ListIs

\* After a step: a description of the new heap with the new starts gives the
\* new members.
LEMMA NewMembers ==
    ASSUME nodes' \in SUBSET Node, NEW start2, NEW mem2,
           Described(Heap', nodes', start2, mem2),
           \A list \in Lists : Start(list)' = start2[list]
    PROVE  /\ HeapIsDescribed'
           /\ \A list \in Lists : Members(list)' = mem2[list]
<1>1. start2 \in [Lists -> Pointer] /\ mem2 \in [Lists -> SUBSET nodes']
  BY DEF Described
<1>2. StartOf' = start2
  BY <1>1 DEF StartOf
<1>3. ASSUME NEW list \in Lists PROVE Members(list)' = mem2[list]
  <2>1. Reach(Heap'.next, Heap'.first[list], start2[list]) = mem2[list]
    BY DescribedIsReach
  <2>2. Heap'.next = next' /\ Heap'.first = first'
    BY DEF Heap
  <2>. QED BY <2>1, <2>2 DEF Members
<1>4. MembersOf' = mem2
  BY <1>1, <1>3 DEF MembersOf
<1>. QED BY <1>2, <1>3, <1>4 DEF HeapIsDescribed

\* A move in the variables: what becomes of the members, and what stays of the
\* list that the node joins.
LEMMA MoveMembers ==
    ASSUME RingsInv, NEW from \in Lists, NEW to \in Lists, from # to,
           NEW nd \in Members(from), ~Sweeping(from),
           HeapBecomes(Insert(Deattach(Heap, from, nd), to, nd)),
           UNCHANGED <<idxCurrentStack, nodes, first_node, current>>
    PROVE  /\ HeapIsDescribed'
           /\ Members(from)' = Members(from) \ {nd} /\ Members(to)' = Members(to) \cup {nd}
           /\ \A k \in Lists \ {from, to} : Members(k)' = Members(k) /\ first'[k] = first[k]
           /\ first'[to] = (IF first[to] = Null THEN nd ELSE first[to])
           /\ last'[to] = nd
           /\ \A x \in Members(to) \ {last[to]} : next'[x] = next[x]
<1>. DEFINE h2 == Insert(Deattach(Heap, from, nd), to, nd)
<1>1. /\ \A k \in Lists : MembersOf[k] = Members(k) /\ StartOf[k] = Start(k)
      /\ Heap.first = first /\ Heap.last = last /\ Heap.next = next
  BY DEF MembersOf, StartOf, Heap
<1>2. Described(Heap, nodes, StartOf, MembersOf) /\ nodes \in SUBSET Node
  BY DEF RingsInv, HeapIsDescribed, VariablesTyped
<1>3. PICK start2, mem2 :
              /\ Described(h2, nodes, start2, mem2)
              /\ h2.first[to] = (IF first[to] = Null THEN nd ELSE first[to])
              /\ start2[to] = (IF first[to] = Null THEN nd ELSE Start(to))
              /\ start2[from] = h2.first[from]
              /\ \A k \in Lists \ {from, to} :
                    h2.first[k] = first[k] /\ start2[k] = Start(k) /\ mem2[k] = Members(k)
              /\ mem2[from] = Members(from) \ {nd} /\ mem2[to] = Members(to) \cup {nd}
              /\ h2.last[to] = nd
              /\ \A x \in Members(to) \ {last[to]} : h2.next[x] = next[x]
  <2>1. nd \in MembersOf[from] /\ StartOf[from] = Heap.first[from]
    BY <1>1 DEF Start
  <2>2. Moved(Heap, from, to, nd, h2)
    BY DEF Moved
  <2>. HIDE DEF h2
  <2>3. \E start2, mem2 :
           MoveLeaves(Heap, nodes, StartOf, MembersOf, from, to, nd, h2, start2, mem2)
    BY <1>2, <2>1, <2>2, MoveDescribed
  <2>. QED BY <1>1, <2>3 DEF MoveLeaves
<1>. HIDE DEF h2
<1>4. Heap' = h2
  <2>1. Heap' = [first |-> h2.first, last |-> h2.last, next |-> h2.next, previous |-> h2.previous]
    BY DEF Heap, HeapBecomes, h2
  <2>. QED BY <1>3, <2>1 DEF Described, HeapType
<1>5. first' = h2.first /\ last' = h2.last /\ next' = h2.next
  BY DEF HeapBecomes, h2
<1>6. ASSUME NEW k \in Lists PROVE Start(k)' = start2[k]
  <2>1. Sweeping(k)' <=> Sweeping(k)
    BY DEF Sweeping
  <2>2. CASE k = from
    BY <1>3, <1>5, <2>1, <2>2 DEF Start
  <2>3. CASE k = to /\ first[to] = Null
    <3>1. ~Sweeping(to)
      BY <2>3 DEF RingsInv, WalkIsKnown, Sweeping
    <3>. QED BY <1>3, <1>5, <2>1, <2>3, <3>1 DEF Start
  <2>4. CASE k # from /\ ~(k = to /\ first[to] = Null)
    <3>1. start2[k] = Start(k) /\ first'[k] = first[k]
      BY <1>3, <1>5, <2>4
    <3>. QED BY <2>1, <3>1 DEF Start
  <2>. QED BY <2>2, <2>3, <2>4
<1>7. HeapIsDescribed' /\ \A k \in Lists : Members(k)' = mem2[k]
  BY <1>2, <1>3, <1>4, <1>6, NewMembers
<1>. QED BY <1>3, <1>5, <1>7

\* The lists stay when their pointers do and the sweep stays where it is.
LEMMA HeapUnchanged ==
    ASSUME HeapIsDescribed, UNCHANGED <<first, last, next, previous, nodes, first_node, current>>,
           first_node # Null => idxCurrentStack' = idxCurrentStack
    PROVE  HeapIsDescribed' /\ \A k \in Lists : Members(k)' = Members(k)
<1>1. Heap' = Heap
  BY DEF Heap
<1>2. \A k \in Lists : Start(k)' = Start(k)
  BY DEF Start, Sweeping
<1>3. \A k \in Lists : Members(k)' = Members(k)
  BY <1>2 DEF Members
<1>4. StartOf' = StartOf /\ MembersOf' = MembersOf
  BY <1>2, <1>3 DEF StartOf, MembersOf
<1>. QED BY <1>1, <1>3, <1>4 DEF HeapIsDescribed

-----------------------------------------------------------------------------
(* One lemma per operation: it keeps the invariant, and it is the operation *)
(* of the same name on the sets of ShareManager.                            *)

ZeroMap   == [l \in Levels |-> Members(Zero(l))]
SharedMap == [l \in Levels |-> Members(Shared(l))]

\* newSharedPointer puts its node at the end of the running level's candidates.
LEMMA NewStep ==
    ASSUME RingsInv, newSharedPointer
    PROVE  RingsInv' /\ Manager!New
<1>. DEFINE list == Zero(idxCurrentStack)
<1>1. VariablesTyped /\ idxCurrentStack \in Levels /\ list \in Lists
  BY ListNames DEF RingsInv, VariablesTyped
<1>2. PICK nd \in Node \ nodes, obj \in Object :
        /\ first_node = Null
        /\ nodes' = nodes \cup {nd}
        /\ n_shares' = [n_shares EXCEPT ![nd] = 0]
        /\ shared_ptr' = [shared_ptr EXCEPT ![nd] = obj]
        /\ currentStack' = [currentStack EXCEPT ![nd] = idxCurrentStack]
        /\ HeapBecomes(Insert(Heap, Zero(idxCurrentStack), nd))
        /\ NoteWrite(Heap, Zero(idxCurrentStack))
        /\ UNCHANGED <<idxCurrentStack, sweepVars>>
  BY DEF newSharedPointer
<1>3. /\ first_node = Null /\ ~deleting /\ current = Null /\ ~finish
      /\ UNCHANGED <<idxCurrentStack, first_node, current, next_node, finish, deleting>>
  BY <1>2 DEF RingsInv, WalkIsKnown, sweepVars
<1>4. \A k \in Lists : Start(k) = first[k] /\ Start(k)' = first'[k]
  BY <1>3 DEF Start, Sweeping
<1>. DEFINE h2 == Insert(Heap, list, nd)
            start2 == [StartOf EXCEPT ![list] = IF Heap.first[list] = Null THEN nd ELSE @]
            mem2 == [MembersOf EXCEPT ![list] = @ \cup {nd}]
<1>5. /\ Described(h2, nodes', start2, mem2)
      /\ h2.first[list] = (IF Heap.first[list] = Null THEN nd ELSE Heap.first[list])
      /\ \A k \in Lists \ {list} : h2.first[k] = Heap.first[k]
  <2>1. Inserted(Heap, StartOf, MembersOf, list, nd, h2, start2, mem2)
    BY DEF Inserted
  <2>2. InNoList(Heap, nodes, MembersOf, nodes', nd)
    <3>1. nodes' \in SUBSET Node /\ nodes \subseteq nodes' /\ nd \in nodes' /\ nodes' \ nodes = {nd}
      BY <1>1, <1>2 DEF VariablesTyped
    <3>2. ASSUME NEW k \in Lists PROVE nd \notin Members(k) /\ nd # first[k]
      <4>1. Members(k) \subseteq nodes
        BY ListFacts
      <4>2. CASE first[k] = Null
        BY <1>2, <4>1, <4>2, NullAssumption
      <4>3. CASE first[k] # Null
        <5>1. first[k] \in Members(k)
          BY <1>4, <4>3, ListFacts DEF Segment
        <5>. QED BY <1>2, <4>1, <5>1
      <4>. QED BY <4>2, <4>3
    <3>3. Heap.first = first /\ \A k \in Lists : MembersOf[k] = Members(k)
      BY DEF Heap, MembersOf
    <3>. QED BY <3>1, <3>2, <3>3 DEF InNoList
  <2>3. Described(Heap, nodes, StartOf, MembersOf) /\ nodes \in SUBSET Node
    BY <1>1 DEF RingsInv, HeapIsDescribed, VariablesTyped
  <2>. HIDE DEF h2, start2, mem2, list
  <2>. QED BY <1>1, <2>1, <2>2, <2>3, InsertDescribed
<1>6. Heap' = [first |-> h2.first, last |-> h2.last, next |-> h2.next, previous |-> h2.previous]
  <2>. HIDE DEF h2
  <2>. QED BY <1>2 DEF Heap, HeapBecomes, h2
<1>7. Heap' = h2
  <2>. HIDE DEF h2, start2, mem2
  <2>. QED BY <1>5, <1>6 DEF Described, HeapType
<1>8. ASSUME NEW k \in Lists PROVE Start(k)' = start2[k]
  <2>1. first' = h2.first /\ Heap.first = first /\ StartOf[k] = first[k]
    BY <1>4, <1>7 DEF Heap, StartOf
  <2>2. start2[k] = IF k = list /\ first[list] = Null THEN nd ELSE first[k]
    BY <2>1 DEF StartOf
  <2>. HIDE DEF h2, start2, list
  <2>. QED BY <1>1, <1>4, <1>5, <2>1, <2>2
<1>9. /\ HeapIsDescribed'
      /\ \A k \in Lists : Members(k)' = mem2[k]
  <2>1. nodes' \in SUBSET Node
    BY <1>1, <1>2 DEF VariablesTyped
  <2>. HIDE DEF h2, start2, mem2
  <2>. QED BY <1>5, <1>7, <1>8, <2>1, NewMembers
<1>10. \A k \in Lists : Members(k)' = IF k = list THEN Members(k) \cup {nd} ELSE Members(k)
  BY <1>1, <1>9 DEF MembersOf
<1>. HIDE DEF h2, start2, mem2
<1>11. /\ \A l \in Levels : Members(Zero(l))' =
              IF l = idxCurrentStack THEN Members(Zero(l)) \cup {nd} ELSE Members(Zero(l))
       /\ \A l \in Levels : Members(Shared(l))' = Members(Shared(l))
  BY <1>1, <1>10, ListNames
<1>12. VariablesTyped'
  <2>1. wildWrite' \in BOOLEAN
    BY <1>2 DEF NoteWrite
  <2>2. 0 \in 0..MaxShares
    BY BoundAssumption
  <2>. QED BY <1>1, <1>2, <1>3, <2>1, <2>2 DEF VariablesTyped, Pointer
<1>13. RingsMatchCounts'
  <2>1. \A k \in Lists : Members(k) \subseteq nodes
    BY ListFacts
  <2>2. \A l \in Levels : nd \notin Members(Zero(l)) /\ nd \notin Members(Shared(l))
    BY <1>2, <2>1, ListNames
  <2>3. \A x \in Node : /\ n_shares'[x] = IF x = nd THEN 0 ELSE n_shares[x]
                        /\ currentStack'[x] = IF x = nd THEN idxCurrentStack ELSE currentStack[x]
    BY <1>1, <1>2 DEF VariablesTyped
  <2>4. \A l \in Levels : Members(Zero(l)) \subseteq Node /\ Members(Shared(l)) \subseteq Node
    BY <1>1, <2>1, ListNames DEF VariablesTyped
  <2>5. RingsMatchCounts /\ nodes \subseteq Node /\ currentStack \in [Node -> Levels]
    BY <1>1 DEF RingsInv, VariablesTyped
  <2>6. \A x \in nodes' : n_shares'[x] > 0 => \E l \in Levels : x \in Members(Shared(l))'
    BY <1>2, <1>11, <2>3, <2>5 DEF RingsMatchCounts
  <2>7. \A l \in Levels : \A x \in Members(Zero(l))' : n_shares'[x] = 0 /\ currentStack'[x] = l
    BY <1>11, <2>2, <2>3, <2>4, <2>5 DEF RingsMatchCounts
  <2>8. \A l \in Levels : \A x \in Members(Shared(l))' : n_shares'[x] > 0 /\ currentStack'[x] = l
    BY <1>11, <2>2, <2>3, <2>4, <2>5 DEF RingsMatchCounts
  <2>. QED BY <2>6, <2>7, <2>8 DEF RingsMatchCounts
<1>14. WalkIsKnown'
  BY <1>3 DEF WalkIsKnown
<1>15. Manager!New
  <2>1. /\ ZeroMap' = [ZeroMap EXCEPT ![idxCurrentStack] = @ \cup {nd}]
        /\ SharedMap' = SharedMap
    BY <1>1, <1>11 DEF ZeroMap, SharedMap
  <2>2. Manager!newSharedPointer(nd, obj)
    BY <1>2, <2>1 DEF Manager!newSharedPointer, ZeroMap, SharedMap
  <2>. QED BY <1>2, <1>3, <2>2 DEF Manager!New, Manager!sweepVars
<1>. QED BY <1>9, <1>12, <1>13, <1>14, <1>15 DEF RingsInv

\* sharePointer counts up; the first share moves the node from the candidates of
\* its level to the running level's nodes in use.
LEMMA ShareStep ==
    ASSUME RingsInv, sharePointer
    PROVE  RingsInv' /\ Manager!Share
<1>1. VariablesTyped /\ idxCurrentStack \in Levels /\ RingsMatchCounts /\ HeapIsDescribed
  BY DEF RingsInv, VariablesTyped
<1>2. PICK nd \in nodes :
        /\ first_node = Null
        /\ n_shares[nd] > 0 \/ nd \in Members(Zero(currentStack[nd]))
        /\ n_shares[nd] < MaxShares
        /\ n_shares' = [n_shares EXCEPT ![nd] = @ + 1]
        /\ IF n_shares[nd] = 0
           THEN LET h == Deattach(Heap, Zero(currentStack[nd]), nd)
                IN  /\ HeapBecomes(Insert(h, Shared(idxCurrentStack), nd))
                    /\ NoteWrite(h, Shared(idxCurrentStack))
                    /\ currentStack' = [currentStack EXCEPT ![nd] = idxCurrentStack]
           ELSE UNCHANGED <<first, last, next, previous, wildWrite, currentStack>>
        /\ UNCHANGED <<dataVars, sweepVars>>
  BY DEF sharePointer
<1>3. /\ first_node = Null /\ ~deleting /\ current = Null /\ ~finish
      /\ UNCHANGED <<idxCurrentStack, nodes, shared_ptr, first_node, current, next_node, finish, deleting>>
  BY <1>2 DEF RingsInv, WalkIsKnown, sweepVars, dataVars
<1>4. /\ nd \in Node /\ n_shares[nd] \in Nat /\ n_shares[nd] + 1 \in 0..MaxShares
      /\ currentStack[nd] \in Levels
  BY <1>1, <1>2, BoundAssumption DEF VariablesTyped
<1>5. WalkIsKnown'
  BY <1>3 DEF WalkIsKnown
<1>6. CASE n_shares[nd] = 0
  <2>. PICK from, to : from = Zero(currentStack[nd]) /\ to = Shared(idxCurrentStack)
    OBVIOUS
  <2>1. from \in Lists /\ to \in Lists /\ from # to /\ nd \in Members(from)
    BY <1>1, <1>2, <1>4, <1>6, ListNames
  <2>2. /\ HeapBecomes(Insert(Deattach(Heap, from, nd), to, nd))
        /\ wildWrite' \in BOOLEAN
        /\ currentStack' = [currentStack EXCEPT ![nd] = idxCurrentStack]
    BY <1>2, <1>6 DEF NoteWrite
  <2>3. /\ HeapIsDescribed'
        /\ Members(from)' = Members(from) \ {nd} /\ Members(to)' = Members(to) \cup {nd}
        /\ \A k \in Lists \ {from, to} : Members(k)' = Members(k)
    <3>1. ~Sweeping(from)
      BY <1>3 DEF Sweeping
    <3>. QED BY <1>3, <2>1, <2>2, <3>1, MoveMembers
  <2>4. /\ \A l \in Levels : Members(Zero(l))' =
               IF l = currentStack[nd] THEN Members(Zero(l)) \ {nd} ELSE Members(Zero(l))
        /\ \A l \in Levels : Members(Shared(l))' =
               IF l = idxCurrentStack THEN Members(Shared(l)) \cup {nd} ELSE Members(Shared(l))
    <3>1. \A l \in Levels : /\ Zero(l) = from <=> l = currentStack[nd]
                            /\ Shared(l) = to <=> l = idxCurrentStack
                            /\ Zero(l) # to /\ Shared(l) # from
                            /\ Zero(l) \in Lists /\ Shared(l) \in Lists
      BY <1>1, <1>4, ListNames
    <3>. QED BY <2>1, <2>3, <3>1
  <2>5. VariablesTyped'
    BY <1>1, <1>2, <1>3, <1>4, <2>2 DEF VariablesTyped
  <2>6. RingsMatchCounts'
    <3>1. /\ \A x \in nodes : n_shares'[x] = IF x = nd THEN 1 ELSE n_shares[x]
          /\ \A x \in nodes : currentStack'[x] = IF x = nd THEN idxCurrentStack ELSE currentStack[x]
      BY <1>1, <1>2, <1>6, <2>2 DEF VariablesTyped
    <3>2. \A l \in Levels : Members(Zero(l)) \subseteq nodes /\ Members(Shared(l)) \subseteq nodes
      BY ListNames, ListFacts
    <3>3. \A l \in Levels : nd \in Members(Zero(l)) => l = currentStack[nd]
      BY <1>1 DEF RingsMatchCounts
    <3>4. \A l \in Levels : nd \notin Members(Shared(l))
      BY <1>1, <1>6 DEF RingsMatchCounts
    <3>5. \A l \in Levels : \A x \in Members(Zero(l))' : n_shares'[x] = 0 /\ currentStack'[x] = l
      BY <1>1, <2>4, <3>1, <3>2, <3>3 DEF RingsMatchCounts
    <3>6. \A l \in Levels : \A x \in Members(Shared(l))' : n_shares'[x] > 0 /\ currentStack'[x] = l
      BY <1>1, <1>2, <2>4, <3>1, <3>2, <3>4 DEF RingsMatchCounts
    <3>7. \A x \in nodes' : n_shares'[x] > 0 => \E l \in Levels : x \in Members(Shared(l))'
      BY <1>1, <1>3, <2>4, <3>1 DEF RingsMatchCounts
    <3>. QED BY <3>5, <3>6, <3>7 DEF RingsMatchCounts
  <2>7. Manager!Share
    <3>1. /\ ZeroMap' = [ZeroMap EXCEPT ![currentStack[nd]] = @ \ {nd}]
          /\ SharedMap' = [SharedMap EXCEPT ![idxCurrentStack] = @ \cup {nd}]
      BY <1>1, <1>4, <2>4 DEF ZeroMap, SharedMap
    <3>2. Manager!sharePointer(nd)
      BY <1>2, <1>3, <1>6, <2>2, <3>1 DEF Manager!sharePointer, ZeroMap, SharedMap
    <3>3. n_shares[nd] > 0 \/ nd \in ZeroMap[currentStack[nd]]
      BY <1>2, <1>4 DEF ZeroMap
    <3>. QED BY <1>2, <1>3, <3>2, <3>3 DEF Manager!Share, Manager!sweepVars, ZeroMap
  <2>. QED BY <1>5, <2>3, <2>5, <2>6, <2>7 DEF RingsInv
<1>7. CASE n_shares[nd] # 0
  <2>1. UNCHANGED <<first, last, next, previous, wildWrite, currentStack, nodes>>
    BY <1>2, <1>3, <1>7
  <2>2. HeapIsDescribed' /\ \A k \in Lists : Members(k)' = Members(k)
    BY <1>1, <1>3, <2>1, HeapUnchanged
  <2>3. VariablesTyped'
    BY <1>1, <1>2, <1>3, <1>4, <2>1 DEF VariablesTyped
  <2>4. RingsMatchCounts'
    <3>1. \A x \in nodes : n_shares'[x] = IF x = nd THEN n_shares[nd] + 1 ELSE n_shares[x]
      BY <1>1, <1>2 DEF VariablesTyped
    <3>2. \A l \in Levels : /\ Members(Zero(l)) \subseteq nodes /\ Members(Shared(l)) \subseteq nodes
                            /\ Members(Zero(l))' = Members(Zero(l))
                            /\ Members(Shared(l))' = Members(Shared(l))
      BY <2>2, ListNames, ListFacts
    <3>3. n_shares[nd] > 0
      BY <1>4, <1>7
    <3>. QED BY <1>1, <1>4, <2>1, <3>1, <3>2, <3>3 DEF RingsMatchCounts
  <2>5. Manager!Share
    <3>1. ZeroMap' = ZeroMap /\ SharedMap' = SharedMap
      BY <2>2, ListNames DEF ZeroMap, SharedMap
    <3>2. Manager!sharePointer(nd)
      BY <1>2, <1>3, <1>7, <2>1, <3>1 DEF Manager!sharePointer, ZeroMap, SharedMap
    <3>3. n_shares[nd] > 0 \/ nd \in ZeroMap[currentStack[nd]]
      BY <1>2, <1>4 DEF ZeroMap
    <3>. QED BY <1>2, <1>3, <3>2, <3>3 DEF Manager!Share, Manager!sweepVars, ZeroMap
  <2>. QED BY <1>5, <2>2, <2>3, <2>4, <2>5 DEF RingsInv
<1>. QED BY <1>6, <1>7

\* unrefSharedScriptVar counts down; the last share moves the node to the running
\* level's candidates, while a sweep walks them too.
LEMMA UnrefStep ==
    ASSUME RingsInv, unrefSharedScriptVar
    PROVE  RingsInv' /\ Manager!Unref
<1>1. /\ VariablesTyped /\ idxCurrentStack \in Levels /\ RingsMatchCounts /\ HeapIsDescribed
      /\ WalkIsKnown
  BY DEF RingsInv, VariablesTyped
<1>2. PICK nd \in nodes :
        /\ first_node # Null => deleting
        /\ n_shares[nd] > 0
        /\ n_shares' = [n_shares EXCEPT ![nd] = @ - 1]
        /\ IF n_shares[nd] = 1
           THEN LET h == Deattach(Heap, Shared(currentStack[nd]), nd)
                IN  /\ HeapBecomes(Insert(h, Zero(idxCurrentStack), nd))
                    /\ NoteWrite(h, Zero(idxCurrentStack))
                    /\ currentStack' = [currentStack EXCEPT ![nd] = idxCurrentStack]
           ELSE UNCHANGED <<first, last, next, previous, wildWrite, currentStack>>
        /\ UNCHANGED <<dataVars, sweepVars>>
  BY DEF unrefSharedScriptVar
<1>3. UNCHANGED <<idxCurrentStack, nodes, shared_ptr, first_node, current, next_node, finish, deleting>>
  BY <1>2 DEF sweepVars, dataVars
<1>4. /\ nd \in Node /\ n_shares[nd] \in Nat /\ n_shares[nd] - 1 \in 0..MaxShares
      /\ currentStack[nd] \in Levels
  BY <1>1, <1>2, BoundAssumption DEF VariablesTyped
<1>5. nd \in Members(Shared(currentStack[nd]))
  BY <1>1, <1>2 DEF RingsMatchCounts
<1>6. n_shares'[nd] = n_shares[nd] - 1 /\ \A x \in nodes \ {nd} : n_shares'[x] = n_shares[x]
  BY <1>1, <1>2 DEF VariablesTyped
<1>7. \A l \in Levels : nd \notin Members(Zero(l))
  BY <1>1, <1>2 DEF RingsMatchCounts
<1>8. \A l \in Levels : Members(Zero(l)) \subseteq nodes /\ Members(Shared(l)) \subseteq nodes
  BY ListNames, ListFacts
<1>9. \A l \in Levels : nd \in Members(Shared(l)) => l = currentStack[nd]
  BY <1>1 DEF RingsMatchCounts
<1>10. first_node # Null => current # Null
  <2>1. first_node # Null => first[Zero(idxCurrentStack)] # Null /\ Start(Zero(idxCurrentStack)) = current
    BY <1>1 DEF WalkIsKnown, Start, Sweeping
  <2>. QED BY <1>1, <2>1, ListNames, ListFacts, NullAssumption DEF Segment
<1>11. n_shares[nd] > 1 \/ n_shares[nd] = 1
  BY <1>2, <1>4
<1>12. CASE n_shares[nd] = 1
  <2>. PICK from, to : from = Shared(currentStack[nd]) /\ to = Zero(idxCurrentStack)
    OBVIOUS
  <2>1. from \in Lists /\ to \in Lists /\ from # to
    BY <1>1, <1>4, ListNames
  <2>2. /\ HeapBecomes(Insert(Deattach(Heap, from, nd), to, nd))
        /\ wildWrite' \in BOOLEAN
        /\ currentStack' = [currentStack EXCEPT ![nd] = idxCurrentStack]
    BY <1>2, <1>12 DEF NoteWrite
  <2>3. /\ HeapIsDescribed'
        /\ Members(from)' = Members(from) \ {nd} /\ Members(to)' = Members(to) \cup {nd}
        /\ \A k \in Lists \ {from, to} : Members(k)' = Members(k)
        /\ first'[to] = (IF first[to] = Null THEN nd ELSE first[to])
        /\ last'[to] = nd
        /\ \A x \in Members(to) \ {last[to]} : next'[x] = next[x]
    <3>1. ~Sweeping(from)
      BY <2>1 DEF Sweeping
    <3>2. nd \in Members(from)
      BY <1>5
    <3>. QED BY <1>3, <2>1, <2>2, <3>1, <3>2, MoveMembers
  <2>4. /\ \A l \in Levels : Members(Shared(l))' =
               IF l = currentStack[nd] THEN Members(Shared(l)) \ {nd} ELSE Members(Shared(l))
        /\ \A l \in Levels : Members(Zero(l))' =
               IF l = idxCurrentStack THEN Members(Zero(l)) \cup {nd} ELSE Members(Zero(l))
    <3>1. \A l \in Levels : /\ Shared(l) = from <=> l = currentStack[nd]
                            /\ Zero(l) = to <=> l = idxCurrentStack
                            /\ Shared(l) # to /\ Zero(l) # from
                            /\ Zero(l) \in Lists /\ Shared(l) \in Lists
      BY <1>1, <1>4, ListNames
    <3>. QED BY <2>1, <2>3, <3>1
  <2>5. VariablesTyped'
    BY <1>1, <1>2, <1>3, <1>4, <2>2 DEF VariablesTyped
  <2>6. RingsMatchCounts'
    <3>1. /\ n_shares'[nd] = 0 /\ currentStack'[nd] = idxCurrentStack
          /\ \A x \in nodes \ {nd} : currentStack'[x] = currentStack[x]
      BY <1>1, <1>4, <1>6, <1>12, <2>2 DEF VariablesTyped
    <3>5. \A l \in Levels : \A x \in Members(Zero(l))' : n_shares'[x] = 0 /\ currentStack'[x] = l
      BY <1>1, <1>6, <1>7, <1>8, <2>4, <3>1 DEF RingsMatchCounts
    <3>6. \A l \in Levels : \A x \in Members(Shared(l))' : n_shares'[x] > 0 /\ currentStack'[x] = l
      BY <1>1, <1>6, <1>8, <1>9, <2>4, <3>1 DEF RingsMatchCounts
    <3>7. \A x \in nodes' : n_shares'[x] > 0 => \E l \in Levels : x \in Members(Shared(l))'
      BY <1>1, <1>3, <1>6, <2>4, <3>1 DEF RingsMatchCounts
    <3>. QED BY <3>5, <3>6, <3>7 DEF RingsMatchCounts
  <2>7. WalkIsKnown'
    <3>1. first_node # Null => first'[to] = first_node
      BY <1>1, <2>3 DEF WalkIsKnown
    <3>2. ASSUME deleting, ~finish PROVE current # last'[to] /\ next_node = next'[current]
      <4>1. first[to] = first_node /\ first_node # Null
        BY <1>1, <3>2 DEF WalkIsKnown
      <4>2. current \in Members(to)
        <5>1. Start(to) = current
          BY <4>1 DEF Start, Sweeping
        <5>. QED BY <2>1, <4>1, <5>1, ListFacts DEF Segment
      <4>3. current # last[to] /\ next_node = next[current] /\ current # nd
        BY <1>1, <1>7, <3>2, <4>2 DEF WalkIsKnown
      <4>. QED BY <2>3, <4>2, <4>3
    <3>. QED BY <1>1, <1>3, <3>1, <3>2 DEF WalkIsKnown
  <2>8. Manager!Unref
    <3>1. /\ SharedMap' = [SharedMap EXCEPT ![currentStack[nd]] = @ \ {nd}]
          /\ ZeroMap' = [ZeroMap EXCEPT ![idxCurrentStack] = @ \cup {nd}]
      BY <1>1, <1>4, <2>4 DEF ZeroMap, SharedMap
    <3>2. Manager!unrefSharedScriptVar(nd)
      BY <1>2, <1>3, <1>12, <2>2, <3>1 DEF Manager!unrefSharedScriptVar, ZeroMap, SharedMap
    <3>. QED BY <1>2, <1>3, <1>10, <3>2 DEF Manager!Unref, Manager!sweepVars
  <2>. QED BY <2>3, <2>5, <2>6, <2>7, <2>8 DEF RingsInv
<1>13. CASE n_shares[nd] > 1
  <2>1. UNCHANGED <<first, last, next, previous, wildWrite, currentStack, nodes>>
    BY <1>2, <1>3, <1>13
  <2>2. HeapIsDescribed' /\ \A k \in Lists : Members(k)' = Members(k)
    BY <1>1, <1>3, <2>1, HeapUnchanged
  <2>3. VariablesTyped'
    BY <1>1, <1>2, <1>3, <1>4, <2>1 DEF VariablesTyped
  <2>4. RingsMatchCounts'
    <3>1. \A l \in Levels : /\ Members(Zero(l))' = Members(Zero(l))
                            /\ Members(Shared(l))' = Members(Shared(l))
      BY <2>2, ListNames
    <3>2. n_shares'[nd] > 0
      BY <1>4, <1>6, <1>13
    <3>. QED BY <1>1, <1>2, <1>6, <1>7, <1>8, <2>1, <3>1, <3>2 DEF RingsMatchCounts
  <2>5. WalkIsKnown'
    BY <1>1, <1>3, <2>1 DEF WalkIsKnown
  <2>6. Manager!Unref
    <3>1. ZeroMap' = ZeroMap /\ SharedMap' = SharedMap
      BY <2>2, ListNames DEF ZeroMap, SharedMap
    <3>2. n_shares' = [n_shares EXCEPT ![nd] = IF @ > 0 THEN @ - 1 ELSE 0]
      BY <1>2
    <3>3. n_shares[nd] # 1
      BY <1>13
    <3>4. Manager!unrefSharedScriptVar(nd)
      BY <1>3, <2>1, <3>1, <3>2, <3>3 DEF Manager!unrefSharedScriptVar, ZeroMap, SharedMap
    <3>. QED BY <1>2, <1>3, <1>10, <3>4 DEF Manager!Unref, Manager!sweepVars
  <2>. QED BY <2>2, <2>3, <2>4, <2>5, <2>6 DEF RingsInv
<1>. QED BY <1>11, <1>12, <1>13

\* Entering and leaving a level touches no list.
LEMMA LevelStep ==
    ASSUME RingsInv, EnterLevel \/ LeaveLevel
    PROVE  RingsInv' /\ (Manager!EnterLevel \/ Manager!LeaveLevel)
<1>1. VariablesTyped /\ RingsMatchCounts /\ HeapIsDescribed /\ WalkIsKnown
  BY DEF RingsInv
<1>2. /\ first_node = Null
      /\ UNCHANGED <<nodes, n_shares, shared_ptr, currentStack, first, last, next, previous,
                     first_node, current, next_node, finish, deleting, wildWrite>>
      /\ \/ idxCurrentStack < MaxLevel /\ idxCurrentStack' = idxCurrentStack + 1
         \/ idxCurrentStack > 0 /\ idxCurrentStack' \in {0, idxCurrentStack - 1}
  BY DEF EnterLevel, LeaveLevel, sweepVars
<1>3. HeapIsDescribed' /\ \A k \in Lists : Members(k)' = Members(k)
  BY <1>1, <1>2, HeapUnchanged
<1>4. \A l \in Levels : Members(Zero(l))' = Members(Zero(l)) /\ Members(Shared(l))' = Members(Shared(l))
  BY <1>3, ListNames
<1>5. idxCurrentStack' \in Levels
  BY <1>1, <1>2, BoundAssumption DEF VariablesTyped, Levels
<1>6. VariablesTyped'
  BY <1>1, <1>2, <1>5 DEF VariablesTyped
<1>7. RingsMatchCounts'
  BY <1>1, <1>2, <1>4 DEF RingsMatchCounts
<1>8. WalkIsKnown'
  BY <1>1, <1>2 DEF WalkIsKnown
<1>9. Manager!EnterLevel \/ Manager!LeaveLevel
  <2>1. ZeroMap' = ZeroMap /\ SharedMap' = SharedMap
    BY <1>4 DEF ZeroMap, SharedMap
  <2>. QED
    BY <1>2, <2>1 DEF Manager!EnterLevel, Manager!LeaveLevel, Manager!nodeVars, Manager!sweepVars,
                      ZeroMap, SharedMap
<1>. QED BY <1>3, <1>6, <1>7, <1>8, <1>9 DEF RingsInv

\* The list of a sweep: the walk stands where its segment starts, and it is at
\* the last node exactly when next leads back to first.
LEMMA WalkFacts ==
    ASSUME RingsInv, NEW list, list = Zero(idxCurrentStack), first[list] # Null
    PROVE  /\ list \in Lists /\ Start(list) \in Members(list) /\ Members(list) \subseteq nodes
           /\ Start(list) = last[list] <=> next[Start(list)] = first[list]
           /\ Start(list) = last[list] <=> Members(list) = {Start(list)}
           /\ Start(list) = IF first_node = Null THEN first[list] ELSE current
           /\ first[list] \in Node
<1>1. list \in Lists
  BY ListNames DEF RingsInv, VariablesTyped
<1>. DEFINE R == Members(list)
            start == Start(list)
<1>2. /\ Segment(next, previous, first[list], last[list], start, R)
      /\ R \subseteq nodes
  BY <1>1, ListFacts
<1>. HIDE DEF R, start
<1>3. start \in R /\ last[list] \in R /\ next[last[list]] = first[list]
  BY <1>2 DEF Segment
<1>4. start # last[list] => next[start] # first[list]
  BY <1>2 DEF Segment
<1>5. start = last[list] => R = {start}
  <2>1. Least(next, last[list], start, R)
    BY <1>2 DEF Segment
  <2>2. start = last[list] => {start} \in SUBSET R /\ \A x \in {start} \ {last[list]} : next[x] \in {start}
    BY <1>3
  <2>. QED BY <1>3, <2>1, <2>2 DEF Least
<1>6. first[list] \in Node
  <2>1. first \in [Lists -> Pointer]
    BY DEF RingsInv, HeapIsDescribed, Described, HeapType, Heap
  <2>. QED BY <1>1, <2>1 DEF Pointer
<1>7. start = IF first_node = Null THEN first[list] ELSE current
  BY DEF Start, Sweeping, start
<1>. QED BY <1>1, <1>2, <1>3, <1>4, <1>5, <1>6, <1>7 DEF R, start

\* A visit changes no list; its test for the last node is right.
LEMMA VisitStep ==
    ASSUME RingsInv, RemoveVisit
    PROVE  RingsInv' /\ \E nd \in Node : Manager!RemoveVisit(nd)
<1>1. VariablesTyped /\ RingsMatchCounts /\ HeapIsDescribed /\ WalkIsKnown
  BY DEF RingsInv
<1>. PICK list : list = Zero(idxCurrentStack)
  OBVIOUS
<1>2. PICK start, cur :
        /\ ~deleting /\ start # Null
        /\ start = IF first_node = Null THEN first[list] ELSE first_node
        /\ cur = IF first_node = Null THEN start ELSE current
        /\ first_node' = start /\ current' = cur
        /\ next_node' = next[cur] /\ finish' = (next[cur] = start) /\ deleting' = TRUE
        /\ UNCHANGED <<dataVars, n_shares, currentStack, first, last, next, previous, wildWrite>>
  BY DEF RemoveVisit
<1>3. UNCHANGED <<idxCurrentStack, nodes, shared_ptr, n_shares, currentStack, first, last,
                  next, previous, wildWrite>>
  BY <1>2 DEF dataVars
<1>4. start = first[list]
  BY <1>1, <1>2 DEF WalkIsKnown
<1>5. /\ list \in Lists /\ Members(list) \subseteq nodes /\ cur \in Members(list)
      /\ cur = Start(list) /\ start \in Node
      /\ cur = last[list] <=> next[cur] = start
      /\ cur = last[list] <=> Members(list) = {cur}
  BY <1>2, <1>4, WalkFacts
<1>6. cur \in Node /\ next[cur] \in Pointer
  <2>1. next \in [Node -> Pointer]
    BY <1>1 DEF HeapIsDescribed, Described, HeapType, Heap
  <2>. QED BY <1>1, <1>5, <2>1 DEF VariablesTyped
<1>7. ASSUME NEW k \in Lists PROVE Start(k)' = StartOf[k]
  <2>1. StartOf[k] = Start(k)
    BY DEF StartOf
  <2>2. CASE k = list
    BY <1>2, <1>3, <1>5, <2>1, <2>2 DEF Start, Sweeping
  <2>3. CASE k # list
    BY <1>3, <2>1, <2>3 DEF Start, Sweeping
  <2>. QED BY <2>2, <2>3
<1>8. HeapIsDescribed' /\ \A k \in Lists : Members(k)' = Members(k)
  <2>1. Heap' = Heap /\ \A k \in Lists : MembersOf[k] = Members(k)
    BY <1>3 DEF Heap, MembersOf
  <2>2. Described(Heap', nodes', StartOf, MembersOf) /\ nodes' \in SUBSET Node
    BY <1>1, <1>3, <2>1 DEF HeapIsDescribed, VariablesTyped
  <2>. PICK start2, mem2 : start2 = StartOf /\ mem2 = MembersOf
    OBVIOUS
  <2>. QED BY <1>7, <2>1, <2>2, NewMembers
<1>9. \A l \in Levels : Members(Zero(l))' = Members(Zero(l)) /\ Members(Shared(l))' = Members(Shared(l))
  BY <1>8, ListNames
<1>10. VariablesTyped'
  BY <1>1, <1>2, <1>3, <1>5, <1>6 DEF VariablesTyped, Pointer
<1>11. RingsMatchCounts'
  BY <1>1, <1>3, <1>9 DEF RingsMatchCounts
<1>12. WalkIsKnown'
  BY <1>2, <1>3, <1>4, <1>5, NullAssumption DEF WalkIsKnown
<1>13. Manager!RemoveVisit(cur)
  <2>1. ZeroMap' = ZeroMap /\ SharedMap' = SharedMap
    BY <1>9 DEF ZeroMap, SharedMap
  <2>2. ZeroMap[idxCurrentStack] = Members(list)
    BY <1>1 DEF ZeroMap, VariablesTyped
  <2>3. /\ (IF deleting THEN current ELSE Null) = Null
        /\ (IF deleting' THEN current' ELSE Null) = cur
        /\ (deleting' /\ finish') = (ZeroMap[idxCurrentStack] = {cur})
        /\ (first_node' # Null) = TRUE
    BY <1>2, <1>5, <2>2, NullAssumption
  <2>. QED BY <1>3, <1>5, <2>1, <2>2, <2>3 DEF Manager!RemoveVisit, Manager!nodeVars, ZeroMap, SharedMap
<1>. QED BY <1>6, <1>8, <1>10, <1>11, <1>12, <1>13 DEF RingsInv

\* What becomes of the description when the walk frees the node it stands at:
\* after the last node the list is emptied, otherwise the segment is shorter.
Freed(h, start, mem, list, nd, last_one, h2, start2, mem2) ==
    /\ nd = start[list] /\ (nd = h.last[list] => last_one)
    /\ h2 = IF last_one
            THEN [first    |-> [h.first EXCEPT ![list] = Null],
                  last     |-> [h.last EXCEPT ![list] = Null],
                  next     |-> [h.next EXCEPT ![nd] = Null],
                  previous |-> [h.previous EXCEPT ![nd] = Null]]
            ELSE [h EXCEPT !.previous = [@ EXCEPT ![nd] = Null]]
    /\ start2 = [start EXCEPT ![list] = IF last_one THEN Null ELSE h.next[nd]]
    /\ mem2 = [mem EXCEPT ![list] = IF last_one THEN {} ELSE @ \ {nd}]

LEMMA FreeDescribed ==
    ASSUME NEW N \in SUBSET Node, NEW h, NEW start, NEW mem, Described(h, N, start, mem),
           NEW list \in Lists, h.first[list] # Null, NEW nd, NEW last_one \in BOOLEAN,
           NEW h2, NEW start2, NEW mem2, Freed(h, start, mem, list, nd, last_one, h2, start2, mem2)
    PROVE  Described(h2, N \ {nd}, start2, mem2)
<1>0. /\ h \in HeapType /\ mem \in [Lists -> SUBSET N] /\ start \in [Lists -> Pointer]
      /\ Disjoint(mem) /\ \A k \in Lists : ListIs(h, N, start, mem, k)
      /\ nd = start[list] /\ (~last_one => nd # h.last[list])
  BY DEF Described, Freed
<1>. nd \in mem[list] /\ nd \in Node
  BY <1>0, FirstIsInside
<1>1. /\ h.first \in [Lists -> Pointer] /\ h.last \in [Lists -> Pointer]
      /\ h.next \in [Node -> Pointer] /\ h.previous \in [Node -> Pointer]
  BY <1>0 DEF HeapType
<1>2. \A k \in Lists \ {list} : nd \notin mem[k]
  BY <1>0 DEF Disjoint
<1>3. /\ mem2 \in [Lists -> SUBSET (N \ {nd})]
      /\ \A k \in Lists \ {list} : mem2[k] = mem[k] /\ mem[k] \cap mem2[list] = {}
      /\ mem2[list] = IF last_one THEN {} ELSE mem[list] \ {nd}
  BY <1>0, <1>2 DEF Disjoint, Freed
<1>4. CASE last_one
  <2>1. h2 = [first    |-> [h.first EXCEPT ![list] = Null],
              last     |-> [h.last EXCEPT ![list] = Null],
              next     |-> [h.next EXCEPT ![nd] = Null],
              previous |-> [h.previous EXCEPT ![nd] = Null]]
    BY <1>4 DEF Freed
  <2>2. h2 \in HeapType
    BY <1>0, <1>1, <2>1 DEF HeapType, Pointer
  <2>3. /\ start2 \in [Lists -> Pointer] /\ start2[list] = Null
        /\ \A k \in Lists \ {list} : start2[k] = start[k]
    BY <1>0, <1>4 DEF Freed, Pointer
  <2>4. h2.first[list] = Null /\ h2.last[list] = Null
    BY <1>1, <2>1
  <2>5. ListIs(h2, N \ {nd}, start2, mem2, list)
    BY <1>3, <1>4, <2>3, <2>4 DEF ListIs
  <2>6. \A k \in Lists \ {list} :
           /\ h2.first[k] = h.first[k] /\ h2.last[k] = h.last[k]
           /\ \A x \in mem[k] : h2.next[x] = h.next[x] /\ h2.previous[x] = h.previous[x]
    BY <1>0, <1>1, <1>2, <2>1
  <2>7. \A k \in Lists \ {list} :
           /\ h2.first[k] = h.first[k] /\ h2.last[k] = h.last[k] /\ start2[k] = start[k]
           /\ \A x \in mem[k] : h2.next[x] = h.next[x] /\ h2.previous[x] = h.previous[x]
           /\ mem2[k] = mem[k] /\ mem[k] \cap mem2[list] = {}
           /\ h.first[k] \notin (N \ {nd}) \ N
    BY <1>3, <2>3, <2>6
  <2>. PICK M : M = N \ {nd}
    OBVIOUS
  <2>. QED BY <1>3, <2>2, <2>3, <2>5, <2>7, OneListChanges
<1>5. CASE ~last_one
  <2>. DEFINE p2 == [h.previous EXCEPT ![nd] = Null]
              R == mem[list] \ {nd}
  <2>1. h2 = [first |-> h.first, last |-> h.last, next |-> h.next, previous |-> p2]
    BY <1>0, <1>5 DEF Freed, HeapType
  <2>2. h2 \in HeapType
    BY <1>0, <1>1, <2>1 DEF HeapType, Pointer
  <2>3. /\ Segment(h.next, h.previous, h.first[list], h.last[list], nd, mem[list])
        /\ nd # h.first[list] => h.first[list] \notin N
    BY <1>0 DEF ListIs
  <2>4. Segment(h.next, p2, h.first[list], h.last[list], h.next[nd], R)
    <3>1. h.first[list] \in Node
      BY FirstIsInside
    <3>2. nd # h.last[list]
      BY <1>0, <1>5
    <3>. HIDE DEF R
    <3>3. Segment(h.next, p2, h.first[list], h.last[list], h.next[nd], mem[list] \ {nd})
      BY <1>1, <2>3, <3>1, <3>2, SegmentAdvance
    <3>. QED BY <3>3 DEF R
  <2>5. /\ start2 \in [Lists -> Pointer] /\ start2[list] = h.next[nd]
        /\ \A k \in Lists \ {list} : start2[k] = start[k]
    BY <1>0, <1>1, <1>5 DEF Freed
  <2>6. ListIs(h2, N \ {nd}, start2, mem2, list)
    <3>1. /\ h2.first = h.first /\ h2.last = h.last /\ h2.next = h.next /\ h2.previous = p2
          /\ mem2[list] = R
      BY <1>3, <1>5, <2>1
    <3>2. h.first[list] \notin N \ {nd}
      BY <2>3
    <3>. HIDE DEF R, p2
    <3>. QED BY <2>4, <2>5, <3>1, <3>2 DEF ListIs
  <2>7. \A k \in Lists \ {list} :
           /\ h2.first[k] = h.first[k] /\ h2.last[k] = h.last[k]
           /\ \A x \in mem[k] : h2.next[x] = h.next[x] /\ h2.previous[x] = h.previous[x]
    BY <1>0, <1>1, <1>2, <2>1
  <2>8. \A k \in Lists \ {list} :
           /\ h2.first[k] = h.first[k] /\ h2.last[k] = h.last[k] /\ start2[k] = start[k]
           /\ \A x \in mem[k] : h2.next[x] = h.next[x] /\ h2.previous[x] = h.previous[x]
           /\ mem2[k] = mem[k] /\ mem[k] \cap mem2[list] = {}
           /\ h.first[k] \notin (N \ {nd}) \ N
    BY <1>3, <2>5, <2>7
  <2>. PICK M : M = N \ {nd}
    OBVIOUS
  <2>. QED BY <1>3, <2>2, <2>5, <2>6, <2>8, OneListChanges
<1>. QED BY <1>4, <1>5

\* RemoveFree takes its node out of the list, or drops the list after the last
\* one with all that was put into it since the visit.
LEMMA FreeStep ==
    ASSUME RingsInv, RemoveFree
    PROVE  RingsInv' /\ Manager!RemoveFree
<1>1. VariablesTyped /\ RingsMatchCounts /\ HeapIsDescribed /\ WalkIsKnown
  BY DEF RingsInv
<1>. PICK list : list = Zero(idxCurrentStack)
  OBVIOUS
<1>2. /\ deleting /\ first_node # Null /\ first[list] = first_node
      /\ ~finish => current # last[list] /\ next_node = next[current]
  BY <1>1 DEF RemoveFree, WalkIsKnown
<1>3. /\ list \in Lists /\ current = Start(list) /\ current \in Members(list)
      /\ current \in nodes /\ current \in Node
  BY <1>1, <1>2, WalkFacts DEF VariablesTyped
<1>4. /\ nodes' = nodes \ {current}
      /\ n_shares' = [n_shares EXCEPT ![current] = 0]
      /\ shared_ptr' = [shared_ptr EXCEPT ![current] = Null]
      /\ currentStack' = [currentStack EXCEPT ![current] = 0]
      /\ next_node' = Null /\ finish' = FALSE /\ deleting' = FALSE
      /\ UNCHANGED <<idxCurrentStack, wildWrite>>
  BY DEF RemoveFree
<1>5. /\ finish => /\ first' = [first EXCEPT ![list] = Null] /\ last' = [last EXCEPT ![list] = Null]
                   /\ next' = [next EXCEPT ![current] = Null]
                   /\ first_node' = Null /\ current' = Null
      /\ ~finish => current' = next_node /\ UNCHANGED <<first, last, next, first_node>>
      /\ previous' = [previous EXCEPT ![current] = Null]
  BY DEF RemoveFree
<1>. DEFINE start2 == [StartOf EXCEPT ![list] = IF finish THEN Null ELSE Heap.next[current]]
            mem2 == [MembersOf EXCEPT ![list] = IF finish THEN {} ELSE @ \ {current}]
<1>6. Described(Heap', nodes', start2, mem2)
  <2>1. Heap' = IF finish
                THEN [first    |-> [Heap.first EXCEPT ![list] = Null],
                      last     |-> [Heap.last EXCEPT ![list] = Null],
                      next     |-> [Heap.next EXCEPT ![current] = Null],
                      previous |-> [Heap.previous EXCEPT ![current] = Null]]
                ELSE [Heap EXCEPT !.previous = [@ EXCEPT ![current] = Null]]
    BY <1>5 DEF Heap
  <2>. PICK h2 : h2 = Heap'
    OBVIOUS
  <2>2. Freed(Heap, StartOf, MembersOf, list, current, finish, h2, start2, mem2)
    <3>1. current = StartOf[list] /\ (current = Heap.last[list] => finish)
      BY <1>2, <1>3 DEF Heap, StartOf
    <3>. QED BY <2>1, <3>1 DEF Freed
  <2>3. /\ Described(Heap, nodes, StartOf, MembersOf) /\ nodes \in SUBSET Node /\ finish \in BOOLEAN
        /\ Heap.first[list] # Null
    BY <1>1, <1>2, <1>3 DEF HeapIsDescribed, VariablesTyped, Heap
  <2>. HIDE DEF start2, mem2
  <2>. QED BY <1>3, <1>4, <2>2, <2>3, FreeDescribed
<1>7. ASSUME NEW k \in Lists PROVE Start(k)' = start2[k]
  <2>1. start2[k] = IF k = list THEN IF finish THEN Null ELSE next[current] ELSE Start(k)
    BY DEF StartOf, Heap
  <2>2. first \in [Lists -> Pointer]
    BY <1>1 DEF HeapIsDescribed, Described, HeapType, Heap
  <2>3. CASE k = list
    BY <1>2, <1>3, <1>4, <1>5, <2>1, <2>2, <2>3 DEF Start, Sweeping
  <2>4. CASE k # list
    <3>1. Start(k) = first[k]
      BY <2>4 DEF Start, Sweeping
    <3>2. Start(k)' = first'[k] /\ first'[k] = first[k]
      BY <1>3, <1>4, <1>5, <2>2, <2>4 DEF Start, Sweeping
    <3>. QED BY <2>1, <2>4, <3>1, <3>2
  <2>. QED BY <2>3, <2>4
<1>8. HeapIsDescribed' /\ \A k \in Lists : Members(k)' = mem2[k]
  <2>1. nodes' \in SUBSET Node
    BY <1>1, <1>4 DEF VariablesTyped
  <2>. HIDE DEF start2, mem2
  <2>. QED BY <1>6, <1>7, <2>1, NewMembers
<1>9. \A k \in Lists : Members(k)' =
         IF k = list THEN IF finish THEN {} ELSE Members(k) \ {current} ELSE Members(k)
  BY <1>3, <1>8 DEF MembersOf
<1>. HIDE DEF start2, mem2
<1>10. /\ \A l \in Levels : Members(Zero(l))' =
              IF l = idxCurrentStack THEN IF finish THEN {} ELSE Members(Zero(l)) \ {current}
              ELSE Members(Zero(l))
       /\ \A l \in Levels : Members(Shared(l))' = Members(Shared(l))
  <2>1. \A l \in Levels : /\ Zero(l) = list <=> l = idxCurrentStack
                          /\ Shared(l) # list /\ Zero(l) \in Lists /\ Shared(l) \in Lists
    BY <1>1, ListNames DEF VariablesTyped
  <2>. QED BY <1>9, <2>1
<1>11. VariablesTyped'
  <2>1. next \in [Node -> Pointer]
    BY <1>1 DEF HeapIsDescribed, Described, HeapType, Heap
  <2>2. first_node' \in Pointer /\ current' \in Pointer /\ next_node' \in Pointer
    BY <1>1, <1>2, <1>3, <1>4, <1>5, <2>1 DEF VariablesTyped, Pointer
  <2>3. 0 \in 0..MaxShares /\ 0 \in Levels
    BY BoundAssumption DEF Levels
  <2>4. /\ idxCurrentStack' \in Levels /\ nodes' \in SUBSET Node
        /\ finish' \in BOOLEAN /\ deleting' \in BOOLEAN /\ wildWrite' \in BOOLEAN
    BY <1>1, <1>4 DEF VariablesTyped
  <2>5. /\ n_shares' \in [Node -> 0..MaxShares] /\ currentStack' \in [Node -> Levels]
        /\ shared_ptr' \in [Node -> Object \cup {Null}]
    BY <1>1, <1>4, <2>3 DEF VariablesTyped
  <2>. QED BY <2>2, <2>4, <2>5 DEF VariablesTyped
<1>12. RingsMatchCounts'
  <2>1. \A l \in Levels : current \notin Members(Shared(l))
    BY <1>1, <1>3, ListNames, ListFacts DEF VariablesTyped
  <2>2. \A l \in Levels : current \in Members(Zero(l)) => l = idxCurrentStack
    <3>1. \A l \in Levels : l # idxCurrentStack => Zero(l) # list
      BY <1>1, ListNames DEF VariablesTyped
    <3>. QED BY <1>3, <3>1, ListNames, ListFacts
  <2>3. \A l \in Levels : /\ Members(Zero(l)) \subseteq Node /\ Members(Shared(l)) \subseteq Node
                          /\ Members(Zero(l))' \subseteq Members(Zero(l)) \ {current}
    <3>1. \A l \in Levels : Members(Zero(l)) \subseteq Node /\ Members(Shared(l)) \subseteq Node
      BY <1>1, ListNames, ListFacts DEF VariablesTyped
    <3>. QED BY <1>10, <2>2, <3>1
  <2>4. \A x \in Node \ {current} : n_shares'[x] = n_shares[x] /\ currentStack'[x] = currentStack[x]
    BY <1>1, <1>3, <1>4 DEF VariablesTyped
  <2>5. \A l \in Levels : \A x \in Members(Zero(l))' : n_shares'[x] = 0 /\ currentStack'[x] = l
    BY <1>1, <2>3, <2>4 DEF RingsMatchCounts
  <2>6. \A l \in Levels : \A x \in Members(Shared(l))' : n_shares'[x] > 0 /\ currentStack'[x] = l
    BY <1>1, <1>10, <2>1, <2>3, <2>4 DEF RingsMatchCounts
  <2>7. \A x \in nodes' : n_shares'[x] > 0 => \E l \in Levels : x \in Members(Shared(l))'
    <3>1. \A x \in nodes' : x \in nodes /\ x \in Node \ {current}
      BY <1>1, <1>4 DEF VariablesTyped
    <3>. QED BY <1>1, <1>10, <2>4, <3>1 DEF RingsMatchCounts
  <2>. QED BY <2>5, <2>6, <2>7 DEF RingsMatchCounts
<1>13. WalkIsKnown'
  BY <1>2, <1>4, <1>5 DEF WalkIsKnown
<1>14. Manager!RemoveFree
  <2>1. /\ ZeroMap' = [ZeroMap EXCEPT ![idxCurrentStack] =
                          IF deleting /\ finish THEN {} ELSE @ \ {current}]
        /\ SharedMap' = SharedMap
    BY <1>1, <1>2, <1>10 DEF ZeroMap, SharedMap, VariablesTyped
  <2>2. /\ (IF deleting THEN current ELSE Null) = current /\ current # Null
        /\ (IF deleting' THEN current' ELSE Null) = Null
        /\ (deleting' /\ finish') = FALSE
        /\ (first_node' # Null) = ~(deleting /\ finish)
    BY <1>2, <1>3, <1>4, <1>5, NullAssumption
  <2>. QED BY <1>4, <2>1, <2>2 DEF Manager!RemoveFree, ZeroMap, SharedMap
<1>. QED BY <1>8, <1>11, <1>12, <1>13, <1>14 DEF RingsInv

-----------------------------------------------------------------------------
(* The theorems.                                                            *)

LEMMA RingsInit ==
    ASSUME Init
    PROVE  RingsInv /\ Manager!ManagerInit
<1>1. \A k \in Lists : Start(k) = Null /\ Members(k) = {}
  BY NothingFromNull DEF Init, Start, Sweeping, Members
<1>2. VariablesTyped
  <2>1. 0 \in 0..MaxShares /\ 0 \in Levels
    BY BoundAssumption DEF Levels
  <2>2. /\ n_shares \in [Node -> 0..MaxShares] /\ currentStack \in [Node -> Levels]
        /\ shared_ptr \in [Node -> Object \cup {Null}]
    BY <2>1 DEF Init
  <2>3. /\ idxCurrentStack \in Levels /\ nodes \in SUBSET Node
        /\ first_node \in Pointer /\ current \in Pointer /\ next_node \in Pointer
        /\ finish \in BOOLEAN /\ deleting \in BOOLEAN /\ wildWrite \in BOOLEAN
    BY <2>1 DEF Init, Pointer
  <2>. QED BY <2>2, <2>3 DEF VariablesTyped
<1>3. HeapIsDescribed
  <2>1. Heap \in HeapType
    BY DEF Init, Heap, HeapType, Pointer
  <2>2. /\ MembersOf \in [Lists -> SUBSET nodes] /\ StartOf \in [Lists -> Pointer]
        /\ \A k \in Lists : MembersOf[k] = {} /\ StartOf[k] = Null
    BY <1>1 DEF MembersOf, StartOf, Pointer
  <2>3. \A k \in Lists : ListIs(Heap, nodes, StartOf, MembersOf, k)
    BY <2>2 DEF ListIs, Heap, Init
  <2>. QED BY <2>1, <2>2, <2>3 DEF HeapIsDescribed, Described, Disjoint
<1>4. RingsMatchCounts
  BY <1>1, ListNames DEF RingsMatchCounts, Init
<1>5. WalkIsKnown
  BY DEF WalkIsKnown, Init
<1>6. Manager!ManagerInit
  <2>1. ZeroMap = [l \in Levels |-> {}] /\ SharedMap = [l \in Levels |-> {}]
    BY <1>1, ListNames DEF ZeroMap, SharedMap
  <2>. QED BY <2>1 DEF Init, Manager!ManagerInit, Manager!Levels, Levels, ZeroMap, SharedMap
<1>. QED BY <1>2, <1>3, <1>4, <1>5, <1>6 DEF RingsInv

\* Every step keeps the invariant and is a step of the manager with sets, or
\* changes nothing that the sets show.
LEMMA RingsNext ==
    ASSUME RingsInv, [Next]_vars
    PROVE  RingsInv' /\ [Manager!ManagerNext]_Manager!managerVars
<1>1. CASE newSharedPointer
  BY <1>1, NewStep DEF Manager!ManagerNext
<1>2. CASE sharePointer
  BY <1>2, ShareStep DEF Manager!ManagerNext
<1>3. CASE unrefSharedScriptVar
  BY <1>3, UnrefStep DEF Manager!ManagerNext
<1>4. CASE EnterLevel \/ LeaveLevel
  BY <1>4, LevelStep DEF Manager!ManagerNext
<1>5. CASE RemoveVisit
  BY <1>5, VisitStep DEF Manager!ManagerNext, Manager!Sweep
<1>6. CASE RemoveFree
  BY <1>6, FreeStep DEF Manager!ManagerNext, Manager!Sweep
<1>7. CASE UNCHANGED vars
  <2>1. UNCHANGED <<idxCurrentStack, nodes, n_shares, shared_ptr, currentStack, first, last, next,
                    previous, first_node, current, next_node, finish, deleting, wildWrite>>
    BY <1>7 DEF vars
  <2>2. HeapIsDescribed' /\ \A k \in Lists : Members(k)' = Members(k)
    BY <2>1, HeapUnchanged DEF RingsInv
  <2>3. \A l \in Levels : Members(Zero(l))' = Members(Zero(l)) /\ Members(Shared(l))' = Members(Shared(l))
    BY <2>2, ListNames
  <2>4. VariablesTyped' /\ WalkIsKnown'
    BY <2>1 DEF RingsInv, VariablesTyped, WalkIsKnown
  <2>5. RingsMatchCounts'
    BY <2>1, <2>3 DEF RingsInv, RingsMatchCounts
  <2>6. ZeroMap' = ZeroMap /\ SharedMap' = SharedMap
    BY <2>3 DEF ZeroMap, SharedMap
  <2>7. UNCHANGED Manager!managerVars
    BY <2>1, <2>6 DEF Manager!managerVars, ZeroMap, SharedMap
  <2>. QED BY <2>2, <2>4, <2>5, <2>7 DEF RingsInv
<1>. QED BY <1>1, <1>2, <1>3, <1>4, <1>5, <1>6, <1>7 DEF Next

\* What the invariant says in the words of the module.
LEMMA RingsInvTypes ==
    ASSUME RingsInv
    PROVE  TypeOK
<1>1. VariablesTyped /\ Heap \in HeapType
  BY DEF RingsInv, HeapIsDescribed, Described
<1>2. /\ first \in [Lists -> Pointer] /\ last \in [Lists -> Pointer]
      /\ next \in [Node -> Pointer] /\ previous \in [Node -> Pointer]
  BY <1>1 DEF Heap, HeapType
<1>3. ZeroMap \in [Levels -> SUBSET Node] /\ SharedMap \in [Levels -> SUBSET Node]
  <2>1. \A l \in Levels : Members(Zero(l)) \subseteq Node /\ Members(Shared(l)) \subseteq Node
    BY <1>1, ListNames, ListFacts DEF VariablesTyped
  <2>. QED BY <2>1 DEF ZeroMap, SharedMap
<1>4. Manager!ManagerTypeOK
  BY <1>1, <1>3 DEF VariablesTyped, Manager!ManagerTypeOK, Manager!Levels, Levels,
                    ZeroMap, SharedMap, Pointer
<1>. QED BY <1>1, <1>2, <1>4 DEF TypeOK, VariablesTyped

LEMMA RingsInvClosed ==
    ASSUME RingsInv
    PROVE  RingsAreClosed
<1>. SUFFICES ASSUME NEW list \in Lists, ~Sweeping(list)
              PROVE  /\ first[list] = Null <=> last[list] = Null
                     /\ first[list] # Null =>
                           /\ last[list] \in Members(list)
                           /\ next[last[list]] = first[list]
                           /\ previous[first[list]] = last[list]
                     /\ \A nd \in Members(list) :
                           nd \in nodes /\ previous[next[nd]] = nd /\ next[previous[nd]] = nd
  BY DEF RingsAreClosed
<1>1. Start(list) = first[list]
  BY DEF Start
<1>2. Members(list) \subseteq nodes /\ nodes \subseteq Node
  BY ListFacts DEF RingsInv, VariablesTyped
<1>3. CASE first[list] = Null
  BY <1>3, ListFacts
<1>4. CASE first[list] # Null
  <2>1. Segment(next, previous, first[list], last[list], first[list], Members(list))
    BY <1>1, <1>4, ListFacts
  <2>2. last[list] # Null
    BY <1>2, <2>1, NullAssumption DEF Segment
  <2>. QED BY <1>2, <1>4, <2>1, <2>2 DEF Segment
<1>. QED BY <1>3, <1>4

LEMMA RingsInvWalk ==
    ASSUME RingsInv
    PROVE  WalkStaysAllocated
<1>. PICK list : list = Zero(idxCurrentStack)
  OBVIOUS
<1>. SUFFICES ASSUME first_node # Null
              PROVE  current \in nodes /\ (deleting /\ ~finish => next_node \in nodes \ {current})
  BY DEF WalkStaysAllocated, RingsInv, WalkIsKnown
<1>1. first[list] # Null /\ (deleting /\ ~finish => current # last[list] /\ next_node = next[current])
  BY DEF RingsInv, WalkIsKnown
<1>2. list \in Lists /\ Start(list) = current /\ current \in Members(list) /\ Members(list) \subseteq nodes
  BY <1>1, WalkFacts
<1>3. Segment(next, previous, first[list], last[list], current, Members(list))
  BY <1>1, <1>2, ListFacts
<1>. QED BY <1>1, <1>2, <1>3 DEF Segment

\* The variables of the rings and of the sweep keep their types.
THEOREM RingsTyped == Spec => []TypeOK
<1>1. RingsInv /\ [Next]_vars => RingsInv'
  BY RingsNext
<1>. QED BY RingsInit, RingsInvTypes, <1>1, PTL DEF Spec

\* No order of insertions and unlinkings, in a sweep or outside one, breaks a
\* ring: outside the list being swept each is closed in both directions and
\* consists of allocated nodes.
THEOREM RingsStayClosed == Spec => []RingsAreClosed
<1>1. RingsInv /\ [Next]_vars => RingsInv'
  BY RingsNext
<1>. QED BY RingsInit, RingsInvClosed, <1>1, PTL DEF Spec

\* The walk of a sweep neither stands at nor goes on to memory that is freed.
THEOREM WalkNeverAtFreed == Spec => []WalkStaysAllocated
<1>1. RingsInv /\ [Next]_vars => RingsInv'
  BY RingsNext
<1>. QED BY RingsInit, RingsInvWalk, <1>1, PTL DEF Spec

\* The macros implement the manager with sets: each function of the rings is the
\* function of the same name there, and so is each half of an iteration.
THEOREM RingsImplementManager == Spec => ImplementsManager
<1>1. RingsInv /\ [Next]_vars => RingsInv' /\ [Manager!ManagerNext]_Manager!managerVars
  BY RingsNext
<1>2. Init => RingsInv /\ Manager!ManagerInit
  BY RingsInit
<1>. QED BY <1>1, <1>2, PTL DEF Spec, ImplementsManager, Manager!ManagerSpec
=============================================================================
