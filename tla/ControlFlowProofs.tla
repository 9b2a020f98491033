------------------------- MODULE ControlFlowProofs -------------------------
(***************************************************************************)
(* Proofs about ControlFlow: whatever the program is, the machine runs its *)
(* code as the structured program, and keeps the scopes of its blocks.     *)
(*                                                                         *)
(* Code is run by a plan, which gives every place of it, the ends of the   *)
(* statements and of the program included, a point: the rest of the        *)
(* structured program there, the blocks that are open, how many operands   *)
(* there are, what the last of them are for, and what the last value may   *)
(* be.  Code fits a plan if each instruction leads from the point before   *)
(* it to the point after it, or to that of its target (Program); a machine *)
(* that is where its point holds (RunsBy) is so after every step.          *)
(*                                                                         *)
(* That the compiler's code fits a plan is an invariant of the compiler    *)
(* (Compiling): the code so far fits, the jumps whose target is open fit   *)
(* what their variable is to lead to, and what is left to do leads from    *)
(* the end of the code, thing by thing, to the end of the program (Leads). *)
(* Each function of the compiler gives a list that leads where the call of *)
(* it was to lead (the lemmas Compiles...), and each thing it inserts      *)
(* keeps the code fitting (the lemmas Static...).                          *)
(***************************************************************************)
EXTENDS ControlFlow, WellFoundedInduction, TLAPS

\* A sequence of something.
IsSeq(s) == \E S : s \in Seq(S)

\* A sequence over a set is one over every larger set.
LEMMA SeqGrows ==
    ASSUME NEW S, NEW T, S \subseteq T, NEW s \in Seq(S)
    PROVE  s \in Seq(T)
OBVIOUS

\* One thing before a list: what the first and the rest of it are.
LEMMA ConsFacts ==
    ASSUME NEW n, NEW K, IsSeq(K)
    PROVE  /\ IsSeq(<<n>> \o K) /\ <<n>> \o K # <<>>
           /\ Head(<<n>> \o K) = n /\ Tail(<<n>> \o K) = K
<1>1. PICK S : K \in Seq(S)
  BY DEF IsSeq
<1>2. K \in Seq(S \cup {n}) /\ <<n>> \in Seq(S \cup {n})
  BY <1>1
<1>3. <<n>> \o K \in Seq(S \cup {n})
  BY <1>2
<1>4. <<n>> \o K # <<>> /\ Head(<<n>> \o K) = n
  BY <1>2
<1>5. Tail(<<n>> \o K) = K
  <2>1. Len(<<n>> \o K) = Len(K) + 1 /\ Len(K) \in Nat
    BY <1>2
  <2>2. \A i \in 1..Len(K) : Tail(<<n>> \o K)[i] = K[i]
    BY <1>2, <1>3, <1>4, <2>1
  <2>3. Tail(<<n>> \o K) \in Seq(S \cup {n}) /\ Len(Tail(<<n>> \o K)) = Len(K)
    BY <1>3, <1>4, <2>1
  <2> QED
    BY <2>2, <2>3, <1>2
<1> QED
  BY <1>3, <1>4, <1>5 DEF IsSeq

\* The length and the elements of two lists joined.
LEMMA Joined ==
    ASSUME NEW A, NEW B, IsSeq(A), IsSeq(B)
    PROVE  /\ IsSeq(A \o B)
           /\ Len(A \o B) = Len(A) + Len(B)
           /\ Len(A) \in Nat /\ Len(B) \in Nat
           /\ \A i \in 1..Len(A) : (A \o B)[i] = A[i]
           /\ \A i \in 1..Len(B) : (A \o B)[Len(A) + i] = B[i]
           /\ DOMAIN A = 1..Len(A) /\ DOMAIN B = 1..Len(B)
<1>1. PICK S : A \in Seq(S)
  BY DEF IsSeq
<1>2. PICK T : B \in Seq(T)
  BY DEF IsSeq
<1>3. A \in Seq(S \cup T) /\ B \in Seq(S \cup T)
  BY <1>1, <1>2
<1> QED
  BY <1>3 DEF IsSeq

\* Two sequences with the same elements are the same.
LEMMA SeqsEqual ==
    ASSUME NEW A, NEW B, IsSeq(A), IsSeq(B), Len(A) = Len(B),
           \A i \in 1..Len(A) : A[i] = B[i]
    PROVE  A = B
BY DEF IsSeq

\* Joining lists is associative.
LEMMA Associative ==
    ASSUME NEW A, NEW B, NEW C, IsSeq(A), IsSeq(B), IsSeq(C)
    PROVE  (A \o B) \o C = A \o (B \o C)
<1>1. PICK S : A \in Seq(S)
  BY DEF IsSeq
<1>2. PICK T : B \in Seq(T)
  BY DEF IsSeq
<1>3. PICK U : C \in Seq(U)
  BY DEF IsSeq
<1>4. A \in Seq(S \cup T \cup U) /\ B \in Seq(S \cup T \cup U) /\ C \in Seq(S \cup T \cup U)
  BY <1>1, <1>2, <1>3
<1> QED
  BY <1>4

\* An element may be moved from the end of one list to the start of the
\* next.
LEMMA AppendJoined ==
    \A A, x, B : IsSeq(A) /\ IsSeq(B) => Append(A, x) \o B = A \o (<<x>> \o B)
<1> SUFFICES ASSUME NEW A, NEW x, NEW B, IsSeq(A), IsSeq(B)
             PROVE  Append(A, x) \o B = A \o (<<x>> \o B)
  OBVIOUS
<1>1. PICK S : A \in Seq(S)
  BY DEF IsSeq
<1>2. PICK T : B \in Seq(T)
  BY DEF IsSeq
<1>3. A \in Seq(S \cup T \cup {x}) /\ B \in Seq(S \cup T \cup {x}) /\ <<x>> \in Seq(S \cup T \cup {x})
  BY <1>1, <1>2
<1> QED
  BY <1>3

\* Something appended to two lists joined is appended to the second.
LEMMA JoinedAppend ==
    ASSUME NEW A, NEW B, NEW x, IsSeq(A), IsSeq(B)
    PROVE  Append(A \o B, x) = A \o Append(B, x)
<1>1. PICK S : A \in Seq(S)
  BY DEF IsSeq
<1>2. PICK T : B \in Seq(T)
  BY DEF IsSeq
<1>3. A \in Seq(S \cup T \cup {x}) /\ B \in Seq(S \cup T \cup {x})
  BY <1>1, <1>2
<1> QED
  BY <1>3

\* Joining the empty list changes nothing.
LEMMA Empty ==
    ASSUME NEW A, IsSeq(A)
    PROVE  A \o <<>> = A /\ <<>> \o A = A
<1>1. PICK S : A \in Seq(S)
  BY DEF IsSeq
<1> QED
  BY <1>1

\* A sequence over some set is a sequence.
LEMMA SeqIs == \A S : \A s \in Seq(S) : IsSeq(s)
BY DEF IsSeq

\* A list of two is a list of one joined to another.
LEMMA Pair ==
    ASSUME NEW a, NEW b
    PROVE  <<a, b>> = <<a>> \o <<b>>
<1>1. <<a>> \in Seq({a, b}) /\ <<b>> \in Seq({a, b}) /\ <<a, b>> \in Seq({a, b})
  OBVIOUS
<1>2. Len(<<a>> \o <<b>>) = 2 /\ (<<a>> \o <<b>>)[1] = a /\ (<<a>> \o <<b>>)[2] = b
  BY <1>1
<1>3. <<a>> \o <<b>> \in Seq({a, b})
  BY <1>1
<1>4. Len(<<a, b>>) = 2 /\ <<a, b>>[1] = a /\ <<a, b>>[2] = b
  OBVIOUS
<1>5. \A i \in 1..2 : (<<a>> \o <<b>>)[i] = <<a, b>>[i]
  BY <1>2, <1>4
<1> QED
  BY <1>1, <1>2, <1>3, <1>4, <1>5, SeqsEqual, SeqIs

\* The lists that the compiler writes out are sequences.
LEMMA ShortSeqs ==
    /\ IsSeq(<<>>)
    /\ \A a : IsSeq(<<a>>)
    /\ \A a, b : IsSeq(<<a, b>>)
    /\ \A a, b, c : IsSeq(<<a, b, c>>)
<1>1. \A a : <<a>> \in Seq({a})
  OBVIOUS
<1>2. \A a, b : <<a, b>> \in Seq({a, b})
  OBVIOUS
<1>3. \A a, b, c : <<a, b, c>> \in Seq({a, b, c})
  OBVIOUS
<1>4. <<>> \in Seq({})
  OBVIOUS
<1> QED
  BY <1>1, <1>2, <1>3, <1>4, SeqIs

\* A list of two or three before another, one thing at a time.
LEMMA Pieces ==
    ASSUME NEW K, IsSeq(K)
    PROVE  /\ \A a, b : <<a, b>> \o K = <<a>> \o (<<b>> \o K)
           /\ \A a, b, c : <<a, b, c>> \o K = <<a>> \o (<<b>> \o (<<c>> \o K))
<1>1. ASSUME NEW a, NEW b PROVE <<a, b>> \o K = <<a>> \o (<<b>> \o K)
  <2>1. IsSeq(<<a>>) /\ IsSeq(<<b>>)
    BY ShortSeqs
  <2>2. (<<a>> \o <<b>>) \o K = <<a>> \o (<<b>> \o K)
    BY <2>1, Associative
  <2>3. <<a, b>> = <<a>> \o <<b>>
    BY Pair
  <2> QED
    BY ONLY <2>2, <2>3, Zenon
<1>2. ASSUME NEW a, NEW b, NEW c PROVE <<a, b, c>> \o K = <<a>> \o (<<b>> \o (<<c>> \o K))
  <2>1. <<a, b, c>> = <<a>> \o <<b, c>>
    OBVIOUS
  <2>3. IsSeq(<<a>>) /\ IsSeq(<<b, c>>)
    BY ShortSeqs
  <2>4. (<<a>> \o <<b, c>>) \o K = <<a>> \o (<<b, c>> \o K)
    BY <2>3, Associative
  <2>2. <<a, b, c>> \o K = <<a>> \o (<<b, c>> \o K)
    BY ONLY <2>1, <2>4, Zenon
  <2> QED
    BY <2>2, <1>1
<1> QED
  BY <1>1, <1>2

\* The rest of a program and its open blocks come, with v the last value and
\* unfolded step by step, to a state the run can see.  Two of them are the same
\* with v if they come to the same settled states.  (With no induction over the
\* steps, what is reached is what every set closed under steps has.)
Step(c, v)    == <<Meaning!Unfolded(c[1], v), Meaning!BlocksAt(Head(c[1]), c[2])>>
StepsIn(S, v) == \A c \in S : ~Meaning!Settled(c[1]) => Step(c, v) \in S
Comes(c, d, v) == \A S : c \in S /\ StepsIn(S, v) => d \in S
Same(c, d, v)  == \A e : Meaning!Settled(e[1]) => (Comes(c, e, v) <=> Comes(d, e, v))

\* Coming to the same settled states is an equivalence.
LEMMA SameIsEquivalence ==
    ASSUME NEW v
    PROVE  /\ \A c : Same(c, c, v)
           /\ \A c, d : Same(c, d, v) => Same(d, c, v)
           /\ \A c, d, e : Same(c, d, v) /\ Same(d, e, v) => Same(c, e, v)
BY DEF Same

\* One unfolding of the rest of the program does not change what it comes
\* to.
LEMMA SameStep ==
    ASSUME NEW c, NEW v, ~Meaning!Settled(c[1])
    PROVE  Same(c, Step(c, v), v)
<1> SUFFICES ASSUME NEW e, Meaning!Settled(e[1])
             PROVE  Comes(c, e, v) <=> Comes(Step(c, v), e, v)
  BY DEF Same
<1>1. ASSUME Comes(c, e, v) PROVE Comes(Step(c, v), e, v)
  <2> SUFFICES ASSUME NEW S, Step(c, v) \in S, StepsIn(S, v) PROVE e \in S
    BY DEF Comes
  <2>1. StepsIn(S \cup {c}, v)
    BY DEF StepsIn
  <2>2. e \in S \cup {c}
    BY <1>1, <2>1 DEF Comes
  <2> QED
    BY <2>2
<1>2. ASSUME Comes(Step(c, v), e, v) PROVE Comes(c, e, v)
  BY <1>2 DEF Comes, StepsIn
<1> QED
  BY <1>1, <1>2

\* Of two settled states that come to the same, both are the same.
LEMMA SettledSame ==
    ASSUME NEW c, NEW d, NEW v, Meaning!Settled(c[1]), Meaning!Settled(d[1]), Same(c, d, v)
    PROVE  c = d
<1>1. Comes(d, d, v)
  BY DEF Comes
<1>2. Comes(c, d, v)
  BY <1>1 DEF Same
<1>3. StepsIn({c}, v)
  BY DEF StepsIn
<1> QED
  BY <1>2, <1>3 DEF Comes

\* The first thing of the rest may be replaced by what it means.
LEMMA UnfoldFirst ==
    ASSUME NEW n, NEW K, NEW B, NEW v, IsSeq(K), n.kind \notin {"value", "apply", "exit"}
    PROVE  Same(<<<<n>> \o K, B>>,
                <<Meaning!Expand(n, v) \o K, Meaning!BlocksAt(n, B)>>, v)
<1> DEFINE c == <<<<n>> \o K, B>>
<1>1. Head(c[1]) = n /\ Tail(c[1]) = K /\ c[1] # <<>> /\ c[2] = B
  BY ConsFacts
<1>2. ~Meaning!Settled(c[1])
  BY <1>1 DEF Meaning!Settled
<1>3. Meaning!Unfolded(c[1], v) = Meaning!Expand(n, v) \o K
  BY <1>1 DEF Meaning!Unfolded
<1>4. Step(c, v) = <<Meaning!Expand(n, v) \o K, Meaning!BlocksAt(n, B)>>
  BY <1>1, <1>3 DEF Step
<1> QED
  BY <1>2, <1>4, SameStep

\* A return drops the rest of the program.
LEMMA UnfoldExit ==
    ASSUME NEW K, NEW B, NEW v, IsSeq(K)
    PROVE  Same(<<<<Meaning!Exit>> \o K, B>>, <<<<>>, B>>, v)
<1> DEFINE c == <<<<Meaning!Exit>> \o K, B>>
<1>0. Meaning!Exit.kind = "exit"
  BY DEF Meaning!Exit
<1>1. Head(c[1]) = Meaning!Exit /\ Tail(c[1]) = K /\ c[1] # <<>> /\ c[2] = B
  BY ConsFacts
<1>2. ~Meaning!Settled(c[1])
  BY <1>0, <1>1 DEF Meaning!Settled
<1>3. Meaning!Unfolded(c[1], v) = <<>> /\ Meaning!BlocksAt(Meaning!Exit, B) = B
  BY <1>0, <1>1 DEF Meaning!Unfolded, Meaning!BlocksAt
<1>4. Step(c, v) = <<<<>>, B>>
  BY <1>1, <1>3 DEF Step
<1> QED
  BY <1>2, <1>4, SameStep

\* An operator evaluates its left side, its right side and then itself; an
\* inline if its condition and then one of its branches.
LEMMA UnfoldExpression ==
    ASSUME NEW n, NEW K, NEW B, NEW v, IsSeq(K)
    PROVE  /\ n.kind = "operator" =>
                Same(<<<<n>> \o K, B>>,
                     <<<<n.left>> \o (<<n.right>> \o (<<Meaning!Apply(n)>> \o K)), B>>, v)
           /\ n.kind = "ternary" =>
                Same(<<<<n>> \o K, B>>,
                     <<<<n.cond>> \o (<<Meaning!Branch(<<n.then>>, <<n.else>>)>> \o K), B>>, v)
<1>1. ASSUME n.kind = "operator"
      PROVE  Same(<<<<n>> \o K, B>>,
                  <<<<n.left>> \o (<<n.right>> \o (<<Meaning!Apply(n)>> \o K)), B>>, v)
  <2>1. Meaning!Expand(n, v) = <<n.left, n.right, Meaning!Apply(n)>>
        /\ Meaning!BlocksAt(n, B) = B
    BY <1>1 DEF Meaning!Expand, Meaning!BlocksAt
  <2>2. Same(<<<<n>> \o K, B>>, <<Meaning!Expand(n, v) \o K, Meaning!BlocksAt(n, B)>>, v)
    BY <1>1, UnfoldFirst
  <2>3. <<n.left, n.right, Meaning!Apply(n)>> \o K
          = <<n.left>> \o (<<n.right>> \o (<<Meaning!Apply(n)>> \o K))
    BY Pieces
  <2> QED
    BY <2>1, <2>2, <2>3
<1>2. ASSUME n.kind = "ternary"
      PROVE  Same(<<<<n>> \o K, B>>,
                  <<<<n.cond>> \o (<<Meaning!Branch(<<n.then>>, <<n.else>>)>> \o K), B>>, v)
  <2>1. Meaning!Expand(n, v) = <<n.cond, Meaning!Branch(<<n.then>>, <<n.else>>)>>
        /\ Meaning!BlocksAt(n, B) = B
    BY <1>2 DEF Meaning!Expand, Meaning!BlocksAt
  <2>2. Same(<<<<n>> \o K, B>>, <<Meaning!Expand(n, v) \o K, Meaning!BlocksAt(n, B)>>, v)
    BY <1>2, UnfoldFirst
  <2>3. <<n.cond, Meaning!Branch(<<n.then>>, <<n.else>>)>> \o K
          = <<n.cond>> \o (<<Meaning!Branch(<<n.then>>, <<n.else>>)>> \o K)
    BY Pieces
  <2> QED
    BY <2>1, <2>2, <2>3
<1> QED
  BY <1>1, <1>2

\* A branch goes the way of the last value.
LEMMA UnfoldBranch ==
    ASSUME NEW T, NEW E, NEW K, NEW B, NEW v, IsSeq(K)
    PROVE  Same(<<<<Meaning!Branch(T, E)>> \o K, B>>,
                <<(IF v # 0 THEN T ELSE E) \o K, B>>, v)
<1> DEFINE n == Meaning!Branch(T, E)
<1>1. n.kind = "branch" /\ n.then = T /\ n.else = E
  BY DEF Meaning!Branch
<1>2. Meaning!Expand(n, v) = (IF v # 0 THEN T ELSE E) /\ Meaning!BlocksAt(n, B) = B
  BY <1>1 DEF Meaning!Expand, Meaning!BlocksAt
<1> HIDE DEF n
<1>3. Same(<<<<n>> \o K, B>>, <<Meaning!Expand(n, v) \o K, Meaning!BlocksAt(n, B)>>, v)
  BY <1>1, UnfoldFirst
<1> QED
  BY <1>2, <1>3 DEF n

\* A while evaluates its condition; if it holds, the body comes and then the
\* while again.
LEMMA UnfoldWhile ==
    ASSUME NEW n, NEW K, NEW B, NEW v, IsSeq(K), n.kind = "while"
    PROVE  Same(<<<<n>> \o K, B>>, <<<<n.cond>> \o (<<Meaning!Branch(<<n.body, n>>, <<>>)>> \o K), B>>, v)
<1>1. Meaning!Expand(n, v) = <<n.cond, Meaning!Branch(<<n.body, n>>, <<>>)>> /\ Meaning!BlocksAt(n, B) = B
  BY DEF Meaning!Expand, Meaning!BlocksAt
<1>2. Same(<<<<n>> \o K, B>>, <<Meaning!Expand(n, v) \o K, Meaning!BlocksAt(n, B)>>, v)
  BY UnfoldFirst
<1>3. <<n.cond, Meaning!Branch(<<n.body, n>>, <<>>)>> \o K = <<n.cond>> \o (<<Meaning!Branch(<<n.body, n>>, <<>>)>> \o K)
  BY Pieces
<1> QED
  BY <1>1, <1>2, <1>3

\* A do-while runs its body, then its condition, and comes again if it
\* holds.
LEMMA UnfoldDo ==
    ASSUME NEW n, NEW K, NEW B, NEW v, IsSeq(K), n.kind = "do"
    PROVE  Same(<<<<n>> \o K, B>>, <<<<n.body>> \o (<<n.cond>> \o (<<Meaning!Branch(<<n>>, <<>>)>> \o K)), B>>, v)
<1>1. Meaning!Expand(n, v) = <<n.body, n.cond, Meaning!Branch(<<n>>, <<>>)>> /\ Meaning!BlocksAt(n, B) = B
  BY DEF Meaning!Expand, Meaning!BlocksAt
<1>2. Same(<<<<n>> \o K, B>>, <<Meaning!Expand(n, v) \o K, Meaning!BlocksAt(n, B)>>, v)
  BY UnfoldFirst
<1>3. <<n.body, n.cond, Meaning!Branch(<<n>>, <<>>)>> \o K = <<n.body>> \o (<<n.cond>> \o (<<Meaning!Branch(<<n>>, <<>>)>> \o K))
  BY Pieces
<1> QED
  BY <1>1, <1>2, <1>3

\* A turn of a for loop: condition, and if it holds body, post and the next
\* turn.
LEMMA UnfoldTurn ==
    ASSUME NEW n, NEW K, NEW B, NEW v, IsSeq(K), n.kind = "turn"
    PROVE  Same(<<<<n>> \o K, B>>, <<<<n.cond>> \o (<<Meaning!Branch(<<n.body, n.post, n>>, <<>>)>> \o K), B>>, v)
<1>1. Meaning!Expand(n, v) = <<n.cond, Meaning!Branch(<<n.body, n.post, n>>, <<>>)>> /\ Meaning!BlocksAt(n, B) = B
  BY DEF Meaning!Expand, Meaning!BlocksAt
<1>2. Same(<<<<n>> \o K, B>>, <<Meaning!Expand(n, v) \o K, Meaning!BlocksAt(n, B)>>, v)
  BY UnfoldFirst
<1>3. <<n.cond, Meaning!Branch(<<n.body, n.post, n>>, <<>>)>> \o K = <<n.cond>> \o (<<Meaning!Branch(<<n.body, n.post, n>>, <<>>)>> \o K)
  BY Pieces
<1> QED
  BY <1>1, <1>2, <1>3

\* A switch evaluates its value and selects a group.
LEMMA UnfoldSwitch ==
    ASSUME NEW n, NEW K, NEW B, NEW v, IsSeq(K), n.kind = "switch"
    PROVE  Same(<<<<n>> \o K, B>>, <<<<n.value>> \o (<<Meaning!Select(n.groups)>> \o K), B>>, v)
<1>1. Meaning!Expand(n, v) = <<n.value, Meaning!Select(n.groups)>> /\ Meaning!BlocksAt(n, B) = B
  BY DEF Meaning!Expand, Meaning!BlocksAt
<1>2. Same(<<<<n>> \o K, B>>, <<Meaning!Expand(n, v) \o K, Meaning!BlocksAt(n, B)>>, v)
  BY UnfoldFirst
<1>3. <<n.value, Meaning!Select(n.groups)>> \o K = <<n.value>> \o (<<Meaning!Select(n.groups)>> \o K)
  BY Pieces
<1> QED
  BY <1>1, <1>2, <1>3

\* A return evaluates its value and leaves.
LEMMA UnfoldReturn ==
    ASSUME NEW n, NEW K, NEW B, NEW v, IsSeq(K), n.kind = "return"
    PROVE  Same(<<<<n>> \o K, B>>, <<<<n.value>> \o (<<Meaning!Exit>> \o K), B>>, v)
<1>1. Meaning!Expand(n, v) = <<n.value, Meaning!Exit>> /\ Meaning!BlocksAt(n, B) = B
  BY DEF Meaning!Expand, Meaning!BlocksAt
<1>2. Same(<<<<n>> \o K, B>>, <<Meaning!Expand(n, v) \o K, Meaning!BlocksAt(n, B)>>, v)
  BY UnfoldFirst
<1>3. <<n.value, Meaning!Exit>> \o K = <<n.value>> \o (<<Meaning!Exit>> \o K)
  BY Pieces
<1> QED
  BY <1>1, <1>2, <1>3

\* What follows the init of a for loop.
Turn(n) == [kind |-> "turn", cond |-> n.cond, body |-> n.body, post |-> n.post]

\* A for opens its block, runs its init, its turns, and closes the block.
LEMMA UnfoldFor ==
    ASSUME NEW n, NEW K, NEW B, NEW v, IsSeq(K), n.kind = "for"
    PROVE  Same(<<<<n>> \o K, B>>,
                <<<<n.init>> \o (<<Turn(n)>> \o (<<Meaning!Close(n.scope)>> \o K)),
                  Append(B, n.scope)>>, v)
<1>1. /\ Meaning!Expand(n, v) = <<n.init, Turn(n), Meaning!Close(n.scope)>>
      /\ Meaning!BlocksAt(n, B) = Append(B, n.scope)
  BY DEF Meaning!Expand, Meaning!BlocksAt, Turn
<1>2. Same(<<<<n>> \o K, B>>, <<Meaning!Expand(n, v) \o K, Meaning!BlocksAt(n, B)>>, v)
  BY UnfoldFirst
<1>3. <<n.init, Turn(n), Meaning!Close(n.scope)>> \o K
        = <<n.init>> \o (<<Turn(n)>> \o (<<Meaning!Close(n.scope)>> \o K))
  BY Pieces
<1> QED
  BY <1>1, <1>2, <1>3

\* An if without its first branch.
Others(n) == IF Len(n.branches) = 1 THEN n.else ELSE <<[n EXCEPT !.branches = Tail(@)]>>

\* An if evaluates its first condition; if it does not hold, the other
\* branches come.
LEMMA UnfoldIf ==
    ASSUME NEW n, NEW K, NEW B, NEW v, IsSeq(K), n.kind = "if", IsSeq(n.branches), n.branches # <<>>
    PROVE  Same(<<<<n>> \o K, B>>,
                <<<<n.branches[1].cond>>
                    \o (<<Meaning!Branch(<<n.branches[1].body>>, Others(n))>> \o K), B>>, v)
<1>0. Head(n.branches) = n.branches[1]
  BY DEF IsSeq
<1>1. /\ Meaning!Expand(n, v)
           = <<n.branches[1].cond, Meaning!Branch(<<n.branches[1].body>>, Others(n))>>
      /\ Meaning!BlocksAt(n, B) = B
  BY <1>0 DEF Meaning!Expand, Meaning!BlocksAt, Others
<1>2. Same(<<<<n>> \o K, B>>, <<Meaning!Expand(n, v) \o K, Meaning!BlocksAt(n, B)>>, v)
  BY UnfoldFirst
<1>3. <<n.branches[1].cond, Meaning!Branch(<<n.branches[1].body>>, Others(n))>> \o K
        = <<n.branches[1].cond>>
            \o (<<Meaning!Branch(<<n.branches[1].body>>, Others(n))>> \o K)
  BY Pieces
<1> QED
  BY <1>1, <1>2, <1>3

\* A body opens its block, runs its statements and closes the block.
LEMMA UnfoldBody ==
    ASSUME NEW n, NEW K, NEW B, NEW v, IsSeq(K), n.kind = "body", IsSeq(n.stmts)
    PROVE  Same(<<<<n>> \o K, B>>,
                <<n.stmts \o (<<Meaning!Close(n.scope)>> \o K), Append(B, n.scope)>>, v)
<1>1. /\ Meaning!Expand(n, v) = Append(n.stmts, Meaning!Close(n.scope))
      /\ Meaning!BlocksAt(n, B) = Append(B, n.scope)
  BY DEF Meaning!Expand, Meaning!BlocksAt
<1>2. Same(<<<<n>> \o K, B>>, <<Meaning!Expand(n, v) \o K, Meaning!BlocksAt(n, B)>>, v)
  BY UnfoldFirst
<1>3. Append(n.stmts, Meaning!Close(n.scope)) \o K
        = n.stmts \o (<<Meaning!Close(n.scope)>> \o K)
  <2> DEFINE x == Meaning!Close(n.scope)
             s == n.stmts
  <2> HIDE DEF x, s
  <2>1. IsSeq(s)
    BY DEF s
  <2>2. Append(s, x) \o K = s \o (<<x>> \o K)
    BY <2>1, AppendJoined
  <2> QED
    BY <2>2 DEF x, s
<1> QED
  BY <1>1, <1>2, <1>3

\* Closing removes the last block.
LEMMA UnfoldClose ==
    ASSUME NEW scope, NEW x, NEW K, NEW B, NEW v, IsSeq(K), IsSeq(B)
    PROVE  Same(<<<<Meaning!Close(scope)>> \o K, Append(B, x)>>, <<K, B>>, v)
<1> DEFINE n == Meaning!Close(scope)
<1>1. n.kind = "close"
  BY DEF Meaning!Close
<1>2. SubSeq(Append(B, x), 1, Len(Append(B, x)) - 1) = B
  BY DEF IsSeq
<1>3. Meaning!Expand(n, v) = <<>> /\ Meaning!BlocksAt(n, Append(B, x)) = B
  BY <1>1, <1>2 DEF Meaning!Expand, Meaning!BlocksAt
<1>4. <<>> \o K = K
  BY Empty
<1> HIDE DEF n
<1>5. Same(<<<<n>> \o K, Append(B, x)>>,
           <<Meaning!Expand(n, v) \o K, Meaning!BlocksAt(n, Append(B, x))>>, v)
  BY <1>1, UnfoldFirst
<1> QED
  BY <1>3, <1>4, <1>5 DEF n

\* The body of the group with the value comes, or that of the default.
LEMMA UnfoldSelect ==
    ASSUME NEW groups, NEW K, NEW B, NEW v, IsSeq(K)
    PROVE  Same(<<<<Meaning!Select(groups)>> \o K, B>>,
                <<(IF Meaning!BodyOf(groups, v) # <<>> THEN Meaning!BodyOf(groups, v)
                   ELSE Meaning!BodyOf(groups, Default)) \o K, B>>, v)
<1> DEFINE n == Meaning!Select(groups)
<1>1. n.kind = "select" /\ n.groups = groups
  BY DEF Meaning!Select
<1>2. /\ Meaning!Expand(n, v) = IF Meaning!BodyOf(groups, v) # <<>>
                                THEN Meaning!BodyOf(groups, v)
                                ELSE Meaning!BodyOf(groups, Default)
      /\ Meaning!BlocksAt(n, B) = B
  BY <1>1 DEF Meaning!Expand, Meaning!BlocksAt, Default
<1> HIDE DEF n
<1>3. Same(<<<<n>> \o K, B>>, <<Meaning!Expand(n, v) \o K, Meaning!BlocksAt(n, B)>>, v)
  BY <1>1, UnfoldFirst
<1> QED
  BY <1>2, <1>3 DEF n

-----------------------------------------------------------------------------
(* What holds at a place of the code: the rest of the program and the open  *)
(* blocks, how many operands there are, what the last of them are, and      *)
(* what the last value may be.                                              *)

\* The shapes of the last operands: any, the last value, a case label over the
\* value of the switch, what comparing the two gave over that value.
Free       == [kind |-> "any", label |-> 0]
OnTop      == [kind |-> "value", label |-> 0]
LabelOn(l) == [kind |-> "label", label |-> l]
EqualOn(l) == [kind |-> "equal", label |-> l]

Shaped(ops, s, v) ==
    /\ s.kind = "value" => ops[Len(ops)] = v
    /\ s.kind = "label" => ops[Len(ops)] = s.label /\ ops[Len(ops) - 1] = v
    /\ s.kind = "equal" => /\ ops[Len(ops)] = IF v = s.label THEN 1 ELSE 0
                           /\ ops[Len(ops) - 1] = v

\* The machine and the history variables are at point q.
AtPoint(q, ops, sc, rest, open, v, m) ==
    /\ v \in q.may
    /\ Same(<<rest, open>>, <<q.k, q.b>>, v)
    /\ IsSeq(ops) /\ Len(ops) = q.h /\ Shaped(ops, q.s, v)
    /\ IsSeq(q.b) /\ sc = Scopes0(m) \o q.b

\* With value v, blocks b, h operands and their shape s one is at u.
Hit(t, v, b, h, s, u) ==
    /\ v \in u.may
    /\ Same(<<t.k, t.b>>, <<u.k, u.b>>, v)
    /\ u.b = b /\ u.h = h /\ u.s \in {s, Free}

\* What is at t is at u; and so if the operands are reset on the way.
Sub(t, u)   == \A v \in t.may : Hit(t, v, t.b, t.h, t.s, u)
Enter(t, u) == \A v \in t.may : Hit(t, v, t.b, 0, Free, u)

\* What is hit is hit as well where less is said.
LEMMA HitSub ==
    ASSUME NEW t, NEW v, NEW b, NEW h, NEW s, NEW u, NEW w,
           Hit(t, v, b, h, s, u), Sub(u, w)
    PROVE  Hit(t, v, b, h, s, w)
<1>1. Hit(u, v, u.b, u.h, u.s, w)
  BY DEF Hit, Sub
<1>2. Same(<<t.k, t.b>>, <<w.k, w.b>>, v)
  BY <1>1, SameIsEquivalence DEF Hit
<1> QED
  BY <1>1, <1>2 DEF Hit

\* A point says no less than itself.
LEMMA SubSelf == \A t : Sub(t, t)
BY SameIsEquivalence DEF Sub, Hit

\* Saying less is transitive.
LEMMA SubTrans ==
    ASSUME NEW t, NEW u, NEW w, Sub(t, u), Sub(u, w)
    PROVE  Sub(t, w)
<1> SUFFICES ASSUME NEW v \in t.may PROVE Hit(t, v, t.b, t.h, t.s, w)
  BY DEF Sub
<1>1. Hit(t, v, t.b, t.h, t.s, u)
  BY DEF Sub
<1> QED
  BY <1>1, HitSub

\* Coming to a point makes it hold there.
LEMMA Lands ==
    ASSUME NEW t, NEW u, NEW v, NEW b, NEW h, NEW s, NEW ops, NEW sc, NEW rest, NEW open, NEW m,
           v \in t.may, Same(<<rest, open>>, <<t.k, t.b>>, v),
           Hit(t, v, b, h, s, u),
           IsSeq(ops), Len(ops) = h, Shaped(ops, s, v), IsSeq(b), sc = Scopes0(m) \o b
    PROVE  AtPoint(u, ops, sc, rest, open, v, m)
<1>1. Same(<<rest, open>>, <<u.k, u.b>>, v)
  BY SameIsEquivalence DEF Hit
<1>2. Shaped(ops, u.s, v)
  BY DEF Hit, Shaped, Free
<1> QED
  BY <1>1, <1>2 DEF Hit, AtPoint

\* After an evaluation, with K to do and h operands, one is at u.
Accepts(yields, K, b, h, u) ==
    \A w \in yields : /\ w \in u.may /\ Same(<<K, b>>, <<u.k, u.b>>, w)
                      /\ u.b = b /\ u.h = h /\ u.s \in {OnTop, Free}

\* The program comes from t to the evaluation that ins makes, and then to u.
Yields(ins, t, v, h, u) ==
    \E n, K :
       /\ n.kind \in {"value", "apply"} /\ n.id = ins.id /\ n.yields = ins.yields
       /\ IsSeq(K) /\ Same(<<t.k, t.b>>, <<<<n>> \o K, t.b>>, v)
       /\ Accepts(ins.yields, K, t.b, h, u)

\* An instruction that does not jump leads from t to u.
PlainHit(ins, t, v, u, m) ==
    /\ ins.op = "PART"  => Hit(t, v, t.b, t.h, Free, u)
    /\ ins.op = "LOAD"  => Yields(ins, t, v, t.h + 1, u)
    /\ ins.op = "APPLY" => t.h >= 2 /\ Yields(ins, t, v, t.h - 1, u)
    /\ ins.op = "CASE"  => /\ t.h >= 1 /\ t.s = OnTop
                           /\ Hit(t, v, t.b, t.h + 1, LabelOn(ins.label), u)
    /\ ins.op = "EQU"   => /\ t.h >= 2 /\ t.s = LabelOn(t.s.label)
                           /\ Hit(t, v, t.b, t.h, EqualOn(t.s.label), u)
    /\ ins.op = "PUSH_SCOPE" => Hit(t, v, Append(t.b, ins.scope), t.h, t.s, u)
    /\ ins.op = "POP_SCOPE"  => \E B, x : /\ IsSeq(B) /\ t.b = Append(B, x)
                                          /\ Hit(t, v, B, t.h, t.s, u)
    /\ ins.op = "RET"   => /\ t.h >= 1 /\ Same(<<t.k, t.b>>, <<<<>>, t.b>>, v)
                           /\ m => t.b = <<>>

\* Instructions that go on to the next one, and jumps.
PlainOps == {"PART", "LOAD", "APPLY", "CASE", "EQU", "PUSH_SCOPE", "POP_SCOPE", "RET"}
JumpOps  == {"JMP", "JT", "JNT"}

PlainFits(ins, t, u, m) == ins.op \in PlainOps /\ \A v \in t.may : PlainHit(ins, t, v, u, m)

\* A jump leads from t to the next instruction, at u, or to its target, at x,
\* which is within the statement or not.
Takes(op, s, v) == (op = "JT") <=> (IF s.kind = "equal" THEN v = s.label ELSE v # 0)
Left(s)         == IF s.kind = "equal" THEN OnTop ELSE Free

JumpHit(op, t, v, u, x, within) ==
    /\ op = "JMP" => Hit(t, v, t.b, IF within THEN t.h ELSE 0, IF within THEN t.s ELSE Free, x)
    /\ op \in {"JT", "JNT"} =>
          /\ t.h >= 1 /\ t.s \in {OnTop, EqualOn(t.s.label)}
          /\ t.s.kind = "equal" => t.h >= 2
          /\ IF Takes(op, t.s, v)
             THEN Hit(t, v, t.b, IF within THEN t.h - 1 ELSE 0,
                      IF within THEN Left(t.s) ELSE Free, x)
             ELSE Hit(t, v, t.b, t.h - 1, Left(t.s), u)

JumpFits(op, t, u, x, within) ==
    op \in JumpOps /\ \A v \in t.may : JumpHit(op, t, v, u, x, within)

\* An instruction that leads to a point leads to one that says less.
LEMMA PlainSub ==
    ASSUME NEW ins, NEW t, NEW u, NEW w, NEW m, PlainFits(ins, t, u, m), Sub(u, w)
    PROVE  PlainFits(ins, t, w, m)
<1> SUFFICES ASSUME NEW v \in t.may PROVE PlainHit(ins, t, v, w, m)
  BY DEF PlainFits
<1>1. PlainHit(ins, t, v, u, m)
  BY DEF PlainFits
<1>2. \A b, h, s : Hit(t, v, b, h, s, u) => Hit(t, v, b, h, s, w)
  BY HitSub
<1>3. ASSUME NEW h, Yields(ins, t, v, h, u) PROVE Yields(ins, t, v, h, w)
  <2>1. PICK n, K :
           /\ n.kind \in {"value", "apply"} /\ n.id = ins.id /\ n.yields = ins.yields
           /\ IsSeq(K) /\ Same(<<t.k, t.b>>, <<<<n>> \o K, t.b>>, v)
           /\ Accepts(ins.yields, K, t.b, h, u)
    BY <1>3 DEF Yields
  <2>2. ASSUME NEW y \in ins.yields
        PROVE  /\ y \in w.may /\ Same(<<K, t.b>>, <<w.k, w.b>>, y)
               /\ w.b = t.b /\ w.h = h /\ w.s \in {OnTop, Free}
    <3>1. /\ y \in u.may /\ Same(<<K, t.b>>, <<u.k, u.b>>, y)
          /\ u.b = t.b /\ u.h = h /\ u.s \in {OnTop, Free}
      BY <2>1 DEF Accepts
    <3>2. Hit(u, y, u.b, u.h, u.s, w)
      BY <3>1 DEF Sub
    <3>3. Same(<<u.k, u.b>>, <<w.k, w.b>>, y)
      BY <3>2 DEF Hit
    <3>4. Same(<<K, t.b>>, <<w.k, w.b>>, y)
      BY <3>1, <3>3, SameIsEquivalence
    <3> QED
      BY <3>1, <3>2, <3>4 DEF Hit
  <2>3. Accepts(ins.yields, K, t.b, h, w)
    BY <2>2 DEF Accepts
  <2> QED
    BY <2>1, <2>3 DEF Yields
<1> QED
  BY <1>1, <1>2, <1>3 DEF PlainHit

\* The same of a jump and of its target.
LEMMA JumpSub ==
    ASSUME NEW op, NEW t, NEW u, NEW w, NEW x, NEW y, NEW within,
           JumpFits(op, t, u, x, within), Sub(u, w), Sub(x, y)
    PROVE  JumpFits(op, t, w, y, within)
<1> SUFFICES ASSUME NEW v \in t.may PROVE JumpHit(op, t, v, w, y, within)
  BY DEF JumpFits
<1>1. JumpHit(op, t, v, u, x, within)
  BY DEF JumpFits
<1>2. \A b, h, s : Hit(t, v, b, h, s, u) => Hit(t, v, b, h, s, w)
  BY HitSub
<1>3. \A b, h, s : Hit(t, v, b, h, s, x) => Hit(t, v, b, h, s, y)
  BY HitSub
<1> QED
  BY <1>1, <1>2, <1>3 DEF JumpHit

-----------------------------------------------------------------------------
(* A plan p gives every place of the code its point.                        *)

\* The code is a list of lists of instructions.
Lists(cd) == IsSeq(cd) /\ \A s \in 1..Len(cd) : IsSeq(cd[s])

\* A jump at statement s that has a target: `last` is the last statement
\* that one may lead to.
JumpsTo(cd, p, s, ins, t, u, last) ==
    IF ins.op2 = s
    THEN ins.op1 \in 1..Len(cd[s]) /\ JumpFits(ins.op, t, u, p[<<s, ins.op1 + 1>>], TRUE)
    ELSE ins.op2 \in 1..last /\ JumpFits(ins.op, t, u, p[<<ins.op2, 1>>], FALSE)

\* One that has none yet: there is a mark for it, and lands gives the point
\* where it will lead.
Pending(mk, lands, at, ins, t, u) ==
    /\ \E k \in mk : k.at = at
    /\ \A k \in mk : k.at = at =>
          JumpFits(ins.op, t, u, lands[k.var], lands[k.var].lands = "here")

\* Every instruction leads where the plan says.
CodeFits(cd, mk, p, lands, last, m) ==
    \A s \in 1..Len(cd) : \A i \in 1..Len(cd[s]) :
        \/ PlainFits(cd[s][i], p[<<s, i>>], p[<<s, i + 1>>], m)
        \/ /\ cd[s][i].op2 = Undefined
           /\ Pending(mk, lands, <<s, i>>, cd[s][i], p[<<s, i>>], p[<<s, i + 1>>])
        \/ /\ cd[s][i].op2 # Undefined
           /\ JumpsTo(cd, p, s, cd[s][i], p[<<s, i>>], p[<<s, i + 1>>], last)

\* The end of a statement leads to the start of the next.
Ends(cd, p, last) ==
    \A s \in 1..Len(cd) : s + 1 <= last => Enter(p[<<s, Len(cd[s]) + 1>>], p[<<s + 1, 1>>])

\* The code of a whole program.
Program(cd, p, m) ==
    /\ Lists(cd)
    /\ CodeFits(cd, {}, p, <<>>, Len(cd) + 1, m)
    /\ Ends(cd, p, Len(cd) + 1)
    /\ p[<<Len(cd) + 1, 1>>].k = <<>> /\ p[<<Len(cd) + 1, 1>>].b = <<>>

\* Where the machine may stand.
Place(cd, at) ==
    \/ at = <<Len(cd) + 1, 1>>
    \/ \E s \in 1..Len(cd) : \E i \in 1..(Len(cd[s]) + 1) : at = <<s, i>>

\* The machine runs by plan p.
RunsBy(p) ==
    /\ Program(code, p, main)
    /\ Place(code, pc)
    /\ AtPoint(p[pc], operands, scopes, todo, blocks, value, main)

\* Every statement has fewer instructions than its jumps can name: index_op1 of
\* tInfoAsmOp has 8 bits, and the last of their values stands for no target.
\* CCompiler does not check it; in a longer statement CHK_JMP lands elsewhere.
StatementsAreShort == \A s \in DOMAIN code : Len(code[s]) < Width - 1

\* A machine that runs by a plan stands at an instruction that fits the
\* plan.
LEMMA AtInstruction ==
    ASSUME NEW p, RunsBy(p), ~AtNull, ~AtEnd
    PROVE  /\ pc = <<pc[1], pc[2]>> /\ pc[1] \in 1..Len(code) /\ pc[2] \in 1..Len(code[pc[1]])
           /\ Len(code) \in Nat /\ Len(code[pc[1]]) \in Nat
           /\ \/ PlainFits(Instruction, p[pc], p[<<pc[1], pc[2] + 1>>], main)
              \/ /\ Instruction.op2 # Undefined
                 /\ JumpsTo(code, p, pc[1], Instruction, p[pc], p[<<pc[1], pc[2] + 1>>],
                            Len(code) + 1)
<1>1. IsSeq(code) /\ \A s \in 1..Len(code) : IsSeq(code[s])
  BY DEF RunsBy, Program, Lists
<1>2. Len(code) \in Nat /\ \A s \in 1..Len(code) : Len(code[s]) \in Nat
  BY <1>1, Joined
<1>3. pc # <<Len(code) + 1, 1>>
  BY <1>2 DEF AtNull
<1>4. PICK s \in 1..Len(code) : \E i \in 1..(Len(code[s]) + 1) : pc = <<s, i>>
  BY <1>3 DEF RunsBy, Place
<1>5. PICK i \in 1..(Len(code[s]) + 1) : pc = <<s, i>>
  BY <1>4
<1>6. i \in 1..Len(code[s])
  BY <1>2, <1>5 DEF AtNull, AtEnd
<1>7. pc[1] = s /\ pc[2] = i /\ Instruction = code[s][i]
  BY <1>5 DEF Instruction
<1>8. \/ PlainFits(code[s][i], p[<<s, i>>], p[<<s, i + 1>>], main)
      \/ /\ code[s][i].op2 # Undefined
         /\ JumpsTo(code, p, s, code[s][i], p[<<s, i>>], p[<<s, i + 1>>], Len(code) + 1)
  BY <1>6 DEF RunsBy, Program, CodeFits, Pending
<1> QED
  BY <1>2, <1>5, <1>6, <1>7, <1>8

\* A plain instruction is followed.
LEMMA Follows ==
    ASSUME NEW p, RunsBy(p), ~AtNull, ~AtEnd, UNCHANGED <<code, main>>, Advance,
           AtPoint(p[<<pc[1], pc[2] + 1>>], operands', scopes', todo', blocks', value', main)
    PROVE  RunsBy(p)'
<1>1. pc' = <<pc[1], pc[2] + 1>>
  BY DEF Advance
<1>2. pc[2] + 1 \in 1..(Len(code[pc[1]]) + 1) /\ pc[1] \in 1..Len(code)
  BY AtInstruction
<1>3. Place(code, pc')
  BY <1>1, <1>2 DEF Place
<1> QED
  BY <1>1, <1>3 DEF RunsBy

\* The remainder of a small negative offset in eight bits.
LEMMA Remainder ==
    ASSUME NEW o \in Int, o < 0, o >= -256
    PROVE  o % 256 = o + 256
BY SMT

\* The mark "undefined" is 255 in eight bits.
LEMMA UndefinedInEightBits == -1 % 256 = 255
<1>1. -1 \in Int /\ -1 < 0 /\ -1 >= -256
  OBVIOUS
<1>2. -1 % 256 = -1 + 256
  BY <1>1, Remainder
<1> QED
  BY <1>2

\* CHK_JMP leads to the target.
LEMMA JumpLands ==
    ASSUME NEW p, NEW left, RunsBy(p), StatementsAreShort, ~AtNull, ~AtEnd,
           UNCHANGED <<code, main, scopes, todo, blocks, value>>,
           CHK_JMP(Instruction, left),
           Instruction.op2 # Undefined,
           NEW h, NEW s, IsSeq(left), Len(left) = h, Shaped(left, s, value),
           IF Instruction.op2 = pc[1]
           THEN /\ Instruction.op1 \in 1..Len(code[pc[1]])
                /\ Hit(p[pc], value, p[pc].b, h, s, p[<<pc[1], Instruction.op1 + 1>>])
           ELSE /\ Instruction.op2 \in 1..(Len(code) + 1)
                /\ Hit(p[pc], value, p[pc].b, 0, Free, p[<<Instruction.op2, 1>>])
    PROVE  RunsBy(p)'
<1>0. /\ pc[1] \in 1..Len(code) /\ Len(code) \in Nat /\ Len(code[pc[1]]) \in Nat
      /\ \A z \in 1..Len(code) : Len(code[z]) \in Nat
  BY AtInstruction, Joined DEF RunsBy, Program, Lists
<1>1. /\ value \in p[pc].may /\ Same(<<todo, blocks>>, <<p[pc].k, p[pc].b>>, value)
      /\ IsSeq(p[pc].b) /\ scopes = Scopes0(main) \o p[pc].b
  BY DEF RunsBy, AtPoint
<1>2. CASE Instruction.op2 = pc[1]
  <2>1. Instruction.op1 \in Nat /\ Instruction.op1 < 255 /\ Instruction.op1 <= Len(code[pc[1]])
    <3>1. pc[1] \in DOMAIN code
      BY <1>0, Joined DEF RunsBy, Program, Lists
    <3> QED
      BY <1>0, <1>2, <3>1 DEF StatementsAreShort, Width
  <2>2. Instruction.op1 % 256 = Instruction.op1 /\ -1 % 256 = 255
    BY <2>1, UndefinedInEightBits
  <2>3. pc' = <<pc[1], Instruction.op1 + 1>> /\ operands' = left
    BY <1>2, <2>1, <2>2 DEF CHK_JMP, Undefined, Width
  <2>4. Place(code, pc')
    BY <1>0, <2>1, <2>3 DEF Place
  <2>5. AtPoint(p[pc'], left, scopes, todo, blocks, value, main)
    <3>1. Hit(p[pc], value, p[pc].b, h, s, p[pc'])
      BY <1>2, <2>3
    <3> QED
      BY <1>1, <3>1, Lands
  <2> QED
    BY <2>3, <2>4, <2>5 DEF RunsBy
<1>3. CASE Instruction.op2 # pc[1]
  <2>1. pc' = <<Instruction.op2, 1>> /\ operands' = <<>>
    BY <1>3 DEF CHK_JMP, GoTo
  <2>2. Place(code, pc')
    <3>1. CASE Instruction.op2 = Len(code) + 1
      BY <2>1, <3>1 DEF Place
    <3>2. CASE Instruction.op2 \in 1..Len(code)
      <4>1. 1 \in 1..(Len(code[Instruction.op2]) + 1)
        BY <1>0, <3>2
      <4> QED
        BY <2>1, <3>2, <4>1 DEF Place
    <3> QED
      BY <1>0, <1>3, <3>1, <3>2
  <2>3. IsSeq(<<>>) /\ Len(<<>>) = 0 /\ Shaped(<<>>, Free, value)
    BY ShortSeqs DEF Shaped, Free
  <2>4. AtPoint(p[pc'], <<>>, scopes, todo, blocks, value, main)
    <3>1. Hit(p[pc], value, p[pc].b, 0, Free, p[pc'])
      BY <1>3, <2>1
    <3> QED
      BY <1>1, <2>3, <3>1, Lands
  <2> QED
    BY <2>1, <2>2, <2>4 DEF RunsBy
<1> QED
  BY <1>2, <1>3

-----------------------------------------------------------------------------
(* The steps of the machine.                                                *)

\* What the plan says of the machine where it stands.
LEMMA PointNow ==
    ASSUME NEW p, RunsBy(p)
    PROVE  /\ value \in p[pc].may /\ Same(<<todo, blocks>>, <<p[pc].k, p[pc].b>>, value)
           /\ IsSeq(operands) /\ Len(operands) = p[pc].h /\ Shaped(operands, p[pc].s, value)
           /\ IsSeq(p[pc].b) /\ scopes = Scopes0(main) \o p[pc].b
           /\ p[pc].h \in Nat
BY Joined DEF RunsBy, AtPoint

\* What the program's meaning has to evaluate is the instruction's evaluation.
LEMMA Agrees ==
    ASSUME NEW p, RunsBy(p), Running, NEW h, NEW u, Yields(Instruction, p[pc], value, h, u)
    PROVE  /\ todo # <<>> /\ Head(todo).id = Instruction.id
           /\ Head(todo).yields = Instruction.yields
           /\ blocks = p[pc].b
           /\ Accepts(Instruction.yields, Tail(todo), blocks, h, u)
<1> DEFINE t == p[pc]
<1>1. PICK n, K :
        /\ n.kind \in {"value", "apply"} /\ n.id = Instruction.id
        /\ n.yields = Instruction.yields
        /\ IsSeq(K) /\ Same(<<t.k, t.b>>, <<<<n>> \o K, t.b>>, value)
        /\ Accepts(Instruction.yields, K, t.b, h, u)
  BY DEF Yields
<1>2. <<n>> \o K # <<>> /\ Head(<<n>> \o K) = n /\ Tail(<<n>> \o K) = K
  BY <1>1, ConsFacts
<1>3. Same(<<todo, blocks>>, <<<<n>> \o K, t.b>>, value)
  <2>1. Same(<<todo, blocks>>, <<t.k, t.b>>, value)
    BY PointNow
  <2>2. Same(<<t.k, t.b>>, <<<<n>> \o K, t.b>>, value)
    BY <1>1
  <2> HIDE DEF t
  <2> DEFINE e == <<<<n>> \o K, t.b>>
  <2> HIDE DEF e
  <2>3. Same(<<t.k, t.b>>, e, value)
    BY <2>2 DEF e
  <2>4. Same(<<todo, blocks>>, e, value)
    BY <2>1, <2>3, SameIsEquivalence
  <2> QED
    BY <2>4 DEF e
<1>4. Meaning!Settled(<<n>> \o K) /\ Meaning!Settled(todo)
  BY <1>1, <1>2 DEF Meaning!Settled, Running
<1>5. <<todo, blocks>> = <<<<n>> \o K, t.b>>
  <2> DEFINE c == <<todo, blocks>>
             d == <<<<n>> \o K, t.b>>
  <2>1. Meaning!Settled(c[1]) /\ Meaning!Settled(d[1]) /\ Same(c, d, value)
    BY <1>3, <1>4
  <2> HIDE DEF c, d
  <2>2. c = d
    BY <2>1, SettledSame
  <2> QED
    BY <2>2 DEF c, d
<1>6. todo = <<n>> \o K /\ blocks = t.b
  BY <1>5
<1> QED
  BY <1>1, <1>2, <1>6

\* An evaluation follows the meaning, and the point after it holds.
LEMMA Evaluates ==
    ASSUME NEW p, RunsBy(p), Running, NEW h, NEW u, Yields(Instruction, p[pc], value, h, u),
           NEW v \in Instruction.yields, Follow(Instruction.id, v), UNCHANGED <<scopes, main>>,
           NEW ops, IsSeq(ops), Len(ops) = h, ops[Len(ops)] = v
    PROVE  /\ AtPoint(u, ops, scopes', todo', blocks', value', main)
           /\ Meaning!Evaluate
           /\ status' = "running"
<1>1. todo' = Tail(todo) /\ value' = v /\ blocks' = blocks /\ status' = status /\ beat' = 1 - beat
  BY Agrees DEF Follow
<1>2. Meaning!Evaluate
  BY <1>1, Agrees DEF Running, Meaning!Evaluate
<1>3. /\ v \in u.may /\ Same(<<Tail(todo), blocks>>, <<u.k, u.b>>, v)
      /\ u.b = p[pc].b /\ u.h = h /\ u.s \in {OnTop, Free}
  <2>1. Accepts(Instruction.yields, Tail(todo), blocks, h, u) /\ blocks = p[pc].b
    BY Agrees
  <2> QED
    BY <2>1 DEF Accepts
<1>4. Shaped(ops, u.s, v)
  BY <1>3 DEF Shaped, OnTop, Free
<1>5. IsSeq(u.b) /\ scopes' = Scopes0(main) \o u.b
  BY <1>3, PointNow
<1> QED
  BY <1>1, <1>2, <1>3, <1>4, <1>5 DEF AtPoint, Running

\* The operands after one more is pushed.
LEMMA Pushed ==
    ASSUME NEW ops, IsSeq(ops), NEW v
    PROVE  /\ IsSeq(Append(ops, v)) /\ Len(Append(ops, v)) = Len(ops) + 1 /\ Len(ops) \in Nat
           /\ Append(ops, v)[Len(ops) + 1] = v
           /\ \A i \in 1..Len(ops) : Append(ops, v)[i] = ops[i]
<1>1. PICK S : ops \in Seq(S)
  BY DEF IsSeq
<1>2. ops \in Seq(S \cup {v})
  BY <1>1
<1>3. Append(ops, v) \in Seq(S \cup {v})
  BY <1>2
<1>4. IsSeq(Append(ops, v))
  BY <1>3 DEF IsSeq
<1> QED
  BY <1>2, <1>4

\* The operands after the last n are dropped.
LEMMA Dropped ==
    ASSUME NEW ops, IsSeq(ops), NEW n \in 0..Len(ops)
    PROVE  /\ IsSeq(SubSeq(ops, 1, Len(ops) - n))
           /\ Len(SubSeq(ops, 1, Len(ops) - n)) = Len(ops) - n /\ Len(ops) \in Nat
           /\ \A i \in 1..(Len(ops) - n) : SubSeq(ops, 1, Len(ops) - n)[i] = ops[i]
<1>1. PICK S : ops \in Seq(S)
  BY DEF IsSeq
<1>2. Len(ops) \in Nat /\ n \in Nat
  BY <1>1
<1>3. SubSeq(ops, 1, Len(ops) - n) \in Seq(S)
  BY <1>1, <1>2
<1>4. IsSeq(SubSeq(ops, 1, Len(ops) - n))
  BY <1>3 DEF IsSeq
<1> QED
  BY <1>1, <1>2, <1>4

\* What the plan says of the instruction that comes next, a plain one or a
\* jump.
LEMMA OpsOf ==
    ASSUME NEW p, RunsBy(p), ~AtNull, ~AtEnd
    PROVE  /\ Instruction.op \in PlainOps => PlainHit(Instruction, p[pc], value,
                                                     p[<<pc[1], pc[2] + 1>>], main)
           /\ Instruction.op \in JumpOps =>
                 /\ Instruction.op2 # Undefined
                 /\ IF Instruction.op2 = pc[1]
                    THEN /\ Instruction.op1 \in 1..Len(code[pc[1]])
                         /\ JumpHit(Instruction.op, p[pc], value, p[<<pc[1], pc[2] + 1>>],
                                    p[<<pc[1], Instruction.op1 + 1>>], TRUE)
                    ELSE /\ Instruction.op2 \in 1..(Len(code) + 1)
                         /\ JumpHit(Instruction.op, p[pc], value, p[<<pc[1], pc[2] + 1>>],
                                    p[<<Instruction.op2, 1>>], FALSE)
<1>1. value \in p[pc].may
  BY PointNow
<1>2. \/ PlainFits(Instruction, p[pc], p[<<pc[1], pc[2] + 1>>], main)
      \/ /\ Instruction.op2 # Undefined
         /\ JumpsTo(code, p, pc[1], Instruction, p[pc], p[<<pc[1], pc[2] + 1>>], Len(code) + 1)
  BY AtInstruction
<1>3. PlainOps \cap JumpOps = {}
  BY DEF PlainOps, JumpOps
<1> QED
  BY <1>1, <1>2, <1>3 DEF PlainFits, JumpsTo, JumpFits

\* A load or an operator evaluates what the program's meaning evaluates
\* next, with the same outcome.
LEMMA LoadStep ==
    ASSUME NEW p, RunsBy(p), Load \/ Operator
    PROVE  RunsBy(p)' /\ Meaning!Evaluate /\ status' = "running"
<1> DEFINE u == p[<<pc[1], pc[2] + 1>>]
<1>1. CASE Load
  <2>1. Running /\ ~AtNull /\ ~AtEnd /\ Instruction.op = "LOAD"
    BY <1>1 DEF Load, At
  <2>2. Yields(Instruction, p[pc], value, p[pc].h + 1, u)
    BY <2>1, OpsOf DEF PlainOps, PlainHit
  <2>3. PICK v \in Instruction.yields :
            operands' = Append(operands, v) /\ Follow(Instruction.id, v)
    BY <1>1 DEF Load
  <2>4. IsSeq(operands') /\ Len(operands') = p[pc].h + 1 /\ operands'[Len(operands')] = v
    <3>1. IsSeq(operands) /\ Len(operands) = p[pc].h
      BY PointNow
    <3> QED
      BY <2>3, <3>1, Pushed
  <2>5. UNCHANGED <<code, scopes, main>> /\ Advance
    BY <1>1 DEF Load, compilerVars
  <2>6. /\ AtPoint(u, operands', scopes', todo', blocks', value', main)
        /\ Meaning!Evaluate /\ status' = "running"
    BY <2>1, <2>2, <2>3, <2>4, <2>5, Evaluates
  <2> QED
    BY <2>1, <2>5, <2>6, Follows
<1>2. CASE Operator
  <2>1. Running /\ ~AtNull /\ ~AtEnd /\ Instruction.op = "APPLY"
    BY <1>2 DEF Operator, At
  <2>2. p[pc].h >= 2 /\ Yields(Instruction, p[pc], value, p[pc].h - 1, u)
    BY <2>1, OpsOf DEF PlainOps, PlainHit
  <2>3. PICK v \in Instruction.yields :
            operands' = Append(Drop(2), v) /\ Follow(Instruction.id, v)
    BY <1>2 DEF Operator
  <2>4. IsSeq(operands') /\ Len(operands') = p[pc].h - 1 /\ operands'[Len(operands')] = v
    <3>1. IsSeq(operands) /\ Len(operands) = p[pc].h /\ p[pc].h \in Nat
      BY PointNow
    <3>2. 2 \in 0..Len(operands)
      BY <2>2, <3>1
    <3>3. IsSeq(Drop(2)) /\ Len(Drop(2)) = p[pc].h - 2
      BY <3>1, <3>2, Dropped DEF Drop
    <3> DEFINE d == Drop(2)
    <3> HIDE DEF d
    <3>4. IsSeq(Append(d, v)) /\ Len(Append(d, v)) = p[pc].h - 1
          /\ Append(d, v)[Len(Append(d, v))] = v
      <4>1. IsSeq(d) /\ Len(d) = p[pc].h - 2
        BY <3>3 DEF d
      <4> QED
        BY <3>1, <4>1, Pushed
    <3> QED
      BY <2>3, <3>4 DEF d
  <2>5. UNCHANGED <<code, scopes, main>> /\ Advance
    BY <1>2 DEF Operator, compilerVars
  <2>6. /\ AtPoint(u, operands', scopes', todo', blocks', value', main)
        /\ Meaning!Evaluate /\ status' = "running"
    BY <2>1, <2>2, <2>3, <2>4, <2>5, Evaluates
  <2> QED
    BY <2>1, <2>5, <2>6, Follows
<1> QED
  BY <1>1, <1>2

\* An instruction that evaluates nothing.
LEMMA SilentStep ==
    ASSUME NEW p, RunsBy(p), ~AtNull, ~AtEnd, Advance,
           UNCHANGED <<code, main, todo, blocks, value>>,
           NEW b, NEW h, NEW s, Hit(p[pc], value, b, h, s, p[<<pc[1], pc[2] + 1>>]),
           IsSeq(operands'), Len(operands') = h, Shaped(operands', s, value),
           IsSeq(b), scopes' = Scopes0(main) \o b
    PROVE  RunsBy(p)'
<1>1. value \in p[pc].may /\ Same(<<todo, blocks>>, <<p[pc].k, p[pc].b>>, value)
  BY PointNow
<1>2. AtPoint(p[<<pc[1], pc[2] + 1>>], operands', scopes', todo, blocks, value, main)
  BY <1>1, Lands
<1> QED
  BY <1>2, Follows

\* An instruction that only prepares leaves the program's meaning alone.
LEMMA PartStep ==
    ASSUME NEW p, RunsBy(p), Part
    PROVE  RunsBy(p)' /\ UNCHANGED programVars
<1> DEFINE u == p[<<pc[1], pc[2] + 1>>]
<1>1. /\ ~AtNull /\ ~AtEnd /\ Instruction.op = "PART" /\ Advance
      /\ UNCHANGED <<code, main, operands, scopes, todo, blocks, value, beat, status>>
  BY DEF Part, At, compilerVars, programVars
<1>2. Hit(p[pc], value, p[pc].b, p[pc].h, Free, u)
  BY <1>1, OpsOf DEF PlainOps, PlainHit
<1>3. IsSeq(operands) /\ Len(operands) = p[pc].h /\ IsSeq(p[pc].b)
      /\ scopes = Scopes0(main) \o p[pc].b /\ Shaped(operands, Free, value)
  BY PointNow DEF Shaped, Free
<1> QED
  BY <1>1, <1>2, <1>3, SilentStep DEF programVars

\* Loading a label of a case leaves the program's meaning alone.
LEMMA LoadCaseStep ==
    ASSUME NEW p, RunsBy(p), LoadCase
    PROVE  RunsBy(p)' /\ UNCHANGED programVars
<1> DEFINE u == p[<<pc[1], pc[2] + 1>>]
<1>1. /\ ~AtNull /\ ~AtEnd /\ Instruction.op = "CASE" /\ Advance
      /\ operands' = Append(operands, Instruction.label)
      /\ UNCHANGED <<code, main, scopes, todo, blocks, value, beat, status>>
  BY DEF LoadCase, At, compilerVars, programVars
<1>2. /\ p[pc].h >= 1 /\ p[pc].s = OnTop
      /\ Hit(p[pc], value, p[pc].b, p[pc].h + 1, LabelOn(Instruction.label), u)
  BY <1>1, OpsOf DEF PlainOps, PlainHit
<1>3. IsSeq(operands) /\ Len(operands) = p[pc].h /\ IsSeq(p[pc].b) /\ p[pc].h \in Nat
      /\ scopes = Scopes0(main) \o p[pc].b /\ Shaped(operands, p[pc].s, value)
  BY PointNow
<1>4. operands[p[pc].h] = value
  BY <1>2, <1>3 DEF Shaped, OnTop
<1>5. /\ IsSeq(operands') /\ Len(operands') = p[pc].h + 1
      /\ operands'[p[pc].h + 1] = Instruction.label /\ operands'[p[pc].h] = value
  BY <1>1, <1>2, <1>3, <1>4, Pushed
<1>6. Shaped(operands', LabelOn(Instruction.label), value)
  BY <1>3, <1>5 DEF Shaped, LabelOn
<1> QED
  BY <1>1, <1>2, <1>3, <1>5, <1>6, SilentStep DEF programVars

\* So does comparing it with the value of the switch.
LEMMA EqualCaseStep ==
    ASSUME NEW p, RunsBy(p), EqualCase
    PROVE  RunsBy(p)' /\ UNCHANGED programVars
<1> DEFINE u == p[<<pc[1], pc[2] + 1>>]
           l == p[pc].s.label
           d == Drop(1)
           r == IF Top = operands[Len(operands) - 1] THEN 1 ELSE 0
<1>1. /\ ~AtNull /\ ~AtEnd /\ Instruction.op = "EQU" /\ Advance
      /\ operands' = Append(d, r)
      /\ UNCHANGED <<code, main, scopes, todo, blocks, value, beat, status>>
  BY DEF EqualCase, At, compilerVars, programVars
<1>2. /\ p[pc].h >= 2 /\ p[pc].s = LabelOn(l)
      /\ Hit(p[pc], value, p[pc].b, p[pc].h, EqualOn(l), u)
  BY <1>1, OpsOf DEF PlainOps, PlainHit
<1>3. IsSeq(operands) /\ Len(operands) = p[pc].h /\ IsSeq(p[pc].b) /\ p[pc].h \in Nat
      /\ scopes = Scopes0(main) \o p[pc].b /\ Shaped(operands, p[pc].s, value)
  BY PointNow
<1>4. operands[p[pc].h] = l /\ operands[p[pc].h - 1] = value
  <2>1. p[pc].s.kind = "label"
    BY <1>2 DEF LabelOn
  <2> QED
    BY <1>3, <2>1 DEF Shaped
<1>5. IsSeq(d) /\ Len(d) = p[pc].h - 1 /\ d[p[pc].h - 1] = value
  <2>1. 1 \in 0..Len(operands) /\ p[pc].h - 1 \in 1..(Len(operands) - 1)
    BY <1>2, <1>3
  <2> QED
    BY <1>3, <1>4, <2>1, Dropped, SMTT(30) DEF Drop
<1>6. r = IF value = l THEN 1 ELSE 0
  BY <1>3, <1>4 DEF Top
<1> HIDE DEF d, r, l
<1>7. /\ IsSeq(operands') /\ Len(operands') = p[pc].h
      /\ operands'[p[pc].h] = r /\ operands'[p[pc].h - 1] = value
  <2>1. p[pc].h - 1 \in 1..Len(d)
    BY <1>2, <1>3, <1>5
  <2> QED
    BY <1>1, <1>2, <1>3, <1>5, <2>1, Pushed
<1>8. Shaped(operands', EqualOn(l), value)
  BY <1>6, <1>7 DEF Shaped, EqualOn
<1> QED
  BY <1>1, <1>2, <1>3, <1>7, <1>8, SilentStep DEF programVars

\* Pushing or popping a scope does to the scopes what the meaning did to the
\* blocks.
LEMMA ScopeStep ==
    ASSUME NEW p, RunsBy(p), OpenScope \/ CloseScope
    PROVE  RunsBy(p)' /\ UNCHANGED programVars
<1> DEFINE u == p[<<pc[1], pc[2] + 1>>]
<1>0. IsSeq(operands) /\ Len(operands) = p[pc].h /\ IsSeq(p[pc].b) /\ p[pc].h \in Nat
      /\ scopes = Scopes0(main) \o p[pc].b /\ Shaped(operands, p[pc].s, value)
  BY PointNow
<1>1. CASE OpenScope
  <2>1. /\ ~AtNull /\ ~AtEnd /\ Instruction.op = "PUSH_SCOPE" /\ Advance
        /\ scopes' = Append(scopes, Instruction.scope)
        /\ UNCHANGED <<code, main, operands, todo, blocks, value, beat, status>>
    BY <1>1 DEF OpenScope, At, compilerVars, programVars
  <2> DEFINE b == Append(p[pc].b, Instruction.scope)
  <2>2. Hit(p[pc], value, b, p[pc].h, p[pc].s, u)
    BY <2>1, OpsOf DEF PlainOps, PlainHit
  <2>3. IsSeq(b)
    BY <1>0, Pushed
  <2>4. scopes' = Scopes0(main) \o b
    <3> DEFINE S == Scopes0(main)
    <3>1. IsSeq(S)
      BY ShortSeqs DEF Scopes0
    <3> DEFINE B == p[pc].b
               x == Instruction.scope
    <3>2. Append(S \o B, x) = S \o Append(B, x)
      <4>1. IsSeq(B)
        BY <1>0
      <4> HIDE DEF S, B, x
      <4> QED
        BY <3>1, <4>1, JoinedAppend
    <3> QED
      BY <1>0, <2>1, <3>2
  <2> HIDE DEF b
  <2> QED
    BY <1>0, <2>1, <2>2, <2>3, <2>4, SilentStep DEF programVars
<1>2. CASE CloseScope
  <2>1. /\ ~AtNull /\ ~AtEnd /\ Instruction.op = "POP_SCOPE" /\ Advance
        /\ scopes' = IF scopes = <<>> THEN <<>> ELSE SubSeq(scopes, 1, Len(scopes) - 1)
        /\ UNCHANGED <<code, main, operands, todo, blocks, value, beat, status>>
    BY <1>2 DEF CloseScope, At, compilerVars, programVars
  <2>2. PICK b, x : /\ IsSeq(b) /\ p[pc].b = Append(b, x)
                    /\ Hit(p[pc], value, b, p[pc].h, p[pc].s, u)
    BY <2>1, OpsOf DEF PlainOps, PlainHit
  <2>3. scopes' = Scopes0(main) \o b
    BY <1>0, <2>1, <2>2, ShortSeqs DEF Scopes0, IsSeq
  <2> QED
    BY <1>0, <2>1, <2>2, <2>3, SilentStep DEF programVars
<1> QED
  BY <1>1, <1>2

\* At the end of a statement the operands are reset and the next one begins.
LEMMA NextStatementStep ==
    ASSUME NEW p, RunsBy(p), NextStatement
    PROVE  RunsBy(p)' /\ UNCHANGED programVars
<1>1. /\ AtEnd /\ ~AtNull /\ pc' = <<pc[1] + 1, 1>> /\ operands' = <<>>
      /\ UNCHANGED <<code, main, scopes, todo, blocks, value, beat, status>>
  BY DEF NextStatement, AtEnd, GoTo, compilerVars, programVars
<1>2. IsSeq(code) /\ \A s \in 1..Len(code) : IsSeq(code[s])
  BY DEF RunsBy, Program, Lists
<1>3. Len(code) \in Nat /\ \A s \in 1..Len(code) : Len(code[s]) \in Nat
  BY <1>2, Joined
<1>4. PICK s \in 1..Len(code) : \E i \in 1..(Len(code[s]) + 1) : pc = <<s, i>>
  BY <1>1, <1>3 DEF RunsBy, Place, AtNull
<1>5. pc = <<s, Len(code[s]) + 1>>
  BY <1>1, <1>3, <1>4 DEF AtEnd
<1>6. Enter(p[pc], p[<<s + 1, 1>>])
  BY <1>3, <1>5 DEF RunsBy, Program, Ends
<1>7. Hit(p[pc], value, p[pc].b, 0, Free, p[pc'])
  BY <1>1, <1>5, <1>6, PointNow DEF Enter
<1>8. IsSeq(<<>>) /\ Len(<<>>) = 0 /\ Shaped(<<>>, Free, value)
  BY ShortSeqs DEF Shaped, Free
<1>9. AtPoint(p[pc'], <<>>, scopes, todo, blocks, value, main)
  BY <1>7, <1>8, PointNow, Lands
<1>10. Place(code, pc')
  <2>1. CASE s = Len(code)
    BY <1>1, <1>5, <2>1 DEF Place
  <2>2. CASE s + 1 \in 1..Len(code)
    <3>1. 1 \in 1..(Len(code[s + 1]) + 1)
      BY <1>3, <2>2
    <3> QED
      BY <1>1, <1>5, <2>2, <3>1 DEF Place
  <2> QED
    BY <1>3, <1>4, <2>1, <2>2
<1> QED
  BY <1>1, <1>9, <1>10 DEF RunsBy, programVars

\* A jump without condition comes to the point of its target.
LEMMA JumpAlwaysStep ==
    ASSUME NEW p, RunsBy(p), StatementsAreShort, JumpAlways
    PROVE  RunsBy(p)' /\ UNCHANGED programVars
<1>1. /\ ~AtNull /\ ~AtEnd /\ Instruction.op = "JMP" /\ CHK_JMP(Instruction, operands)
      /\ UNCHANGED <<code, main, scopes, todo, blocks, value, beat, status>>
  BY DEF JumpAlways, At, compilerVars, programVars
<1>2. IsSeq(operands) /\ Len(operands) = p[pc].h /\ Shaped(operands, p[pc].s, value)
  BY PointNow
<1>3. /\ Instruction.op2 # Undefined
      /\ IF Instruction.op2 = pc[1]
         THEN /\ Instruction.op1 \in 1..Len(code[pc[1]])
              /\ Hit(p[pc], value, p[pc].b, p[pc].h, p[pc].s, p[<<pc[1], Instruction.op1 + 1>>])
         ELSE /\ Instruction.op2 \in 1..(Len(code) + 1)
              /\ Hit(p[pc], value, p[pc].b, 0, Free, p[<<Instruction.op2, 1>>])
  BY <1>1, OpsOf DEF JumpOps, JumpHit
<1> QED
  BY <1>1, <1>2, <1>3, JumpLands DEF programVars

\* A jump with one goes, or stays, as the program's meaning says.
LEMMA JumpIfStep ==
    ASSUME NEW p, RunsBy(p), StatementsAreShort, JumpIf
    PROVE  RunsBy(p)' /\ UNCHANGED programVars
<1> DEFINE u == p[<<pc[1], pc[2] + 1>>]
           s == p[pc].s
           d == Drop(1)
           h == p[pc].h - 1
           within == Instruction.op2 = pc[1]
           target == IF within THEN p[<<pc[1], Instruction.op1 + 1>>]
                     ELSE p[<<Instruction.op2, 1>>]
<1>1. /\ ~AtNull /\ ~AtEnd /\ Instruction.op \in {"JT", "JNT"}
      /\ IF (Instruction.op = "JT") <=> (Top # 0)
         THEN CHK_JMP(Instruction, d) ELSE Advance /\ operands' = d
      /\ UNCHANGED <<code, main, scopes, todo, blocks, value, beat, status>>
  BY DEF JumpIf, At, compilerVars, programVars
<1>2. IsSeq(operands) /\ Len(operands) = p[pc].h /\ Shaped(operands, s, value)
      /\ p[pc].h \in Nat /\ IsSeq(p[pc].b) /\ scopes = Scopes0(main) \o p[pc].b
  BY PointNow
<1>3. /\ Instruction.op2 # Undefined
      /\ IF within THEN Instruction.op1 \in 1..Len(code[pc[1]])
         ELSE Instruction.op2 \in 1..(Len(code) + 1)
      /\ JumpHit(Instruction.op, p[pc], value, u, target, within)
  BY <1>1, OpsOf DEF JumpOps
<1>4. /\ p[pc].h >= 1 /\ s \in {OnTop, EqualOn(s.label)}
      /\ s.kind = "equal" => p[pc].h >= 2
      /\ IF Takes(Instruction.op, s, value)
         THEN Hit(p[pc], value, p[pc].b, IF within THEN h ELSE 0,
                  IF within THEN Left(s) ELSE Free, target)
         ELSE Hit(p[pc], value, p[pc].b, h, Left(s), u)
  BY <1>1, <1>3 DEF JumpHit
<1>5. s.kind = "value" \/ s.kind = "equal"
  BY <1>4 DEF OnTop, EqualOn
<1>6. ((Instruction.op = "JT") <=> (Top # 0)) <=> Takes(Instruction.op, s, value)
  <2>1. CASE s.kind = "value"
    BY <1>2, <2>1 DEF Shaped, Takes, Top
  <2>2. CASE s.kind = "equal"
    BY <1>2, <2>2 DEF Shaped, Takes, Top
  <2> QED
    BY <1>5, <2>1, <2>2
<1>7. IsSeq(d) /\ Len(d) = h /\ \A i \in 1..h : d[i] = operands[i]
  <2>1. 1 \in 0..Len(operands)
    BY <1>2, <1>4
  <2> QED
    BY <1>2, <2>1, Dropped DEF Drop
<1>8. Shaped(d, Left(s), value)
  <2>1. CASE s.kind = "value"
    BY <2>1 DEF Shaped, Left, Free
  <2>2. CASE s.kind = "equal"
    <3>1. h \in 1..h /\ operands[h] = value
      BY <1>2, <1>4, <2>2 DEF Shaped
    <3>2. d[h] = value
      BY <1>7, <3>1
    <3> QED
      BY <1>7, <2>2, <3>2 DEF Shaped, Left, OnTop
  <2> QED
    BY <1>5, <2>1, <2>2
<1>9. CASE Takes(Instruction.op, s, value)
  <2>1. CHK_JMP(Instruction, d)
    BY <1>1, <1>6, <1>9
  <2>2. Hit(p[pc], value, p[pc].b, IF within THEN h ELSE 0,
            IF within THEN Left(s) ELSE Free, target)
    BY <1>4, <1>9
  <2>3. IF Instruction.op2 = pc[1]
        THEN /\ Instruction.op1 \in 1..Len(code[pc[1]])
             /\ Hit(p[pc], value, p[pc].b, h, Left(s), p[<<pc[1], Instruction.op1 + 1>>])
        ELSE /\ Instruction.op2 \in 1..(Len(code) + 1)
             /\ Hit(p[pc], value, p[pc].b, 0, Free, p[<<Instruction.op2, 1>>])
    BY <1>3, <2>2
  <2> HIDE DEF d, h, s
  <2>4. RunsBy(p)'
    BY <1>1, <1>3, <1>7, <1>8, <2>1, <2>3, JumpLands
  <2> QED
    BY <1>1, <2>4 DEF programVars
<1>10. CASE ~Takes(Instruction.op, s, value)
  <2>1. Advance /\ operands' = d
    BY <1>1, <1>6, <1>10
  <2>2. Hit(p[pc], value, p[pc].b, h, Left(s), u)
    BY <1>4, <1>10
  <2> HIDE DEF d, h, s
  <2>3. RunsBy(p)'
    BY <1>1, <1>2, <1>7, <1>8, <2>1, <2>2, SilentStep
  <2> QED
    BY <1>1, <2>3 DEF programVars
<1> QED
  BY <1>9, <1>10

\* The run ends when the program does, and main leaves no scope.
LEMMA ExitStep ==
    ASSUME NEW p, RunsBy(p), ExitFunction
    PROVE  Meaning!End /\ scopes' = <<>> /\ status' = "ended"
<1>1. /\ status = "running" /\ Meaning!Settled(todo) /\ status' = "ended"
      /\ scopes' = (IF main THEN scopes ELSE <<>>)
      /\ UNCHANGED <<todo, value, blocks, beat>>
  BY DEF ExitFunction, Running
<1>2. Same(<<todo, blocks>>, <<<<>>, p[pc].b>>, value) /\ (main => p[pc].b = <<>>)
  <2>1. CASE AtNull
    <3>1. Len(code) \in Nat
      BY Joined DEF RunsBy, Program, Lists
    <3>2. pc = <<Len(code) + 1, 1>>
      BY <2>1, <3>1 DEF RunsBy, Place, AtNull
    <3>3. p[pc].k = <<>> /\ p[pc].b = <<>>
      BY <3>2 DEF RunsBy, Program
    <3> QED
      BY <3>3, PointNow
  <2>2. CASE ~AtNull
    <3>1. ~AtEnd /\ Instruction.op = "RET"
      BY <2>2 DEF ExitFunction, At
    <3>2. Same(<<p[pc].k, p[pc].b>>, <<<<>>, p[pc].b>>, value) /\ (main => p[pc].b = <<>>)
      BY <2>2, <3>1, OpsOf DEF PlainOps, PlainHit
    <3>3. Same(<<todo, blocks>>, <<p[pc].k, p[pc].b>>, value)
      BY PointNow
    <3> QED
      BY <3>2, <3>3, SameIsEquivalence
  <2> QED
    BY <2>1, <2>2
<1>3. todo = <<>>
  <2> DEFINE c == <<todo, blocks>>
             d == <<<<>>, p[pc].b>>
  <2>1. Meaning!Settled(c[1]) /\ Meaning!Settled(d[1]) /\ Same(c, d, value)
    BY <1>1, <1>2 DEF Meaning!Settled
  <2> HIDE DEF c, d
  <2>2. c = d
    BY <2>1, SettledSame
  <2> QED
    BY <2>2 DEF c, d
<1>4. main => scopes = <<>>
  <2> SUFFICES ASSUME main PROVE scopes = <<>>
    OBVIOUS
  <2>1. scopes = <<>> \o <<>>
    BY <1>2, PointNow DEF Scopes0
  <2> QED
    BY <2>1, ShortSeqs, Empty
<1> QED
  BY <1>1, <1>3, <1>4 DEF Meaning!End

\* The meaning unfolds to a settled state without the machine.
LEMMA UnfoldStep ==
    ASSUME NEW p, RunsBy(p), Unfold
    PROVE  RunsBy(p)' /\ Meaning!Unfold /\ status' = "running"
<1>1. /\ status = "running" /\ status' = status /\ ~Meaning!Settled(todo)
      /\ todo' = Meaning!Unfolded(todo, value)
      /\ blocks' = Meaning!BlocksAt(Head(todo), blocks)
      /\ UNCHANGED <<code, main, pc, operands, scopes, value>>
  BY DEF Unfold, Meaning!Unfold, compilerVars, machineVars
<1>2. Same(<<todo', blocks'>>, <<p[pc].k, p[pc].b>>, value)
  <2> DEFINE c == <<todo, blocks>>
  <2>1. <<todo', blocks'>> = Step(c, value)
    BY <1>1 DEF Step
  <2>2. Same(c, Step(c, value), value)
    <3>1. ~Meaning!Settled(c[1])
      BY <1>1
    <3> HIDE DEF c
    <3> QED
      BY <3>1, SameStep
  <2>3. Same(c, <<p[pc].k, p[pc].b>>, value)
    BY PointNow
  <2> DEFINE e == <<p[pc].k, p[pc].b>>
  <2> HIDE DEF c, e
  <2>4. Same(c, e, value)
    BY <2>3 DEF e
  <2>5. Same(Step(c, value), e, value)
    BY <2>2, <2>4, SameIsEquivalence
  <2> QED
    BY <2>1, <2>5 DEF e
<1>3. AtPoint(p[pc], operands, scopes, todo', blocks', value, main)
  BY <1>2, PointNow DEF AtPoint
<1> QED
  BY <1>1, <1>3 DEF RunsBy, Unfold

\* Every step of the machine is one of the program's meaning or none, and
\* the machine goes on running by the plan until the program ends.
LEMMA MachineStep ==
    ASSUME NEW p, RunsBy(p), StatementsAreShort, Execute
    PROVE  /\ Meaning!Next \/ UNCHANGED programVars
           /\ status = "running"
           /\ \/ status' = "running" /\ RunsBy(p)'
              \/ status' = "ended" /\ scopes' = <<>>
<1>0. status = "running"
  BY DEF Execute, Unfold, Meaning!Unfold, NextStatement, Part, Load, Operator, LoadCase,
         EqualCase, JumpAlways, JumpIf, OpenScope, CloseScope, ExitFunction, At, Running
<1>1. CASE Unfold
  BY <1>0, <1>1, UnfoldStep DEF Meaning!Next
<1>2. CASE NextStatement
  BY <1>0, <1>2, NextStatementStep DEF programVars
<1>3. CASE Part
  BY <1>0, <1>3, PartStep DEF programVars
<1>4. CASE Load \/ Operator
  BY <1>0, <1>4, LoadStep DEF Meaning!Next
<1>5. CASE LoadCase
  BY <1>0, <1>5, LoadCaseStep DEF programVars
<1>6. CASE EqualCase
  BY <1>0, <1>6, EqualCaseStep DEF programVars
<1>7. CASE JumpAlways
  BY <1>0, <1>7, JumpAlwaysStep DEF programVars
<1>8. CASE JumpIf
  BY <1>0, <1>8, JumpIfStep DEF programVars
<1>9. CASE OpenScope \/ CloseScope
  BY <1>0, <1>9, ScopeStep DEF programVars
<1>10. CASE ExitFunction
  BY <1>0, <1>10, ExitStep DEF Meaning!Next
<1> QED
  BY <1>1, <1>2, <1>3, <1>4, <1>5, <1>6, <1>7, <1>8, <1>9, <1>10 DEF Execute

-----------------------------------------------------------------------------
(* The compiler.  What holds where it has come to is an entry: a point, and  *)
(* whether the last statement is open, how many statements there are since   *)
(* some time, and the variables that may hold marks: `inner` those of jumps  *)
(* within the open statement, `waits` the others.  A target is what holds    *)
(* where the jumps of a variable lead.                                       *)

Entry(k, b, h, s, may, open, n, waits, inner) ==
    [k |-> k, b |-> b, h |-> h, s |-> s, may |-> may, open |-> open, n |-> n,
     waits |-> waits, inner |-> inner]

Target(k, b, h, s, may, lands, n) ==
    [k |-> k, b |-> b, h |-> h, s |-> s, may |-> may, lands |-> lands, n |-> n]

\* The variables of the first c calls.
Vars(c) == {x \in Nat \X Nat : x[1] < c}

\* An entry after c calls.
EntryOK(t, c) ==
    /\ IsSeq(t.k) /\ IsSeq(t.b) /\ t.h \in Nat /\ t.n \in Nat /\ t.open \in BOOLEAN
    /\ t.may \subseteq Int
    /\ t.waits \subseteq Vars(c) /\ t.inner \subseteq Vars(c)
    /\ ~t.open => t.h = 0 /\ t.s = Free /\ t.inner = {}

\* Entry u says no more than t.
Keeps(t, u)  == t.waits \subseteq u.waits /\ t.inner \subseteq u.inner
Weaker(t, u) == Sub(t, u) /\ t.open = u.open /\ u.n <= t.n /\ Keeps(t, u)

\* For each thing to do, the entries before and after it.
BeginFits(t, u) ==
    Enter(t, u) /\ u.open /\ u.n = t.n + 1 /\ t.waits \subseteq u.waits /\ t.inner = {}

InsertFits(ins, t, u, m) ==
    PlainFits(ins, t, u, m) /\ t.open /\ u.open /\ u.n <= t.n /\ Keeps(t, u)

WaitFits(op, x, t, u, G) ==
    /\ G[x].lands \in {"next", "here"}
    /\ JumpFits(op, t, u, G[x], G[x].lands = "here")
    /\ t.open /\ u.open /\ u.n <= t.n /\ Keeps(t, u)
    /\ IF G[x].lands = "here" THEN x \in u.inner ELSE x \in u.waits

StartFits(x, t, u, G) ==
    /\ G[x].lands = "back" /\ G[x].n \in Nat /\ t.n <= G[x].n
    /\ Enter(t, u) /\ Sub(G[x], u)
    /\ ~u.open /\ u.n <= t.n /\ t.inner = {}
    /\ x \notin t.waits /\ t.waits \cup {x} \subseteq u.waits

BackFits(op, x, t, u, G) ==
    /\ G[x].lands = "back" /\ t.n >= G[x].n + 2
    /\ JumpFits(op, t, u, G[x], FALSE)
    /\ t.open /\ u.open /\ u.n <= t.n
    /\ t.waits \subseteq u.waits \cup {x} /\ t.inner \subseteq u.inner

NextFits(x, t, u, G) ==
    /\ G[x].lands = "next"
    /\ Enter(t, u) /\ Sub(G[x], u)
    /\ ~u.open /\ u.n <= t.n /\ t.inner = {}
    /\ t.waits \subseteq u.waits \cup {x}

HereFits(x, t, u, G) ==
    /\ G[x].lands = "here"
    /\ Sub(t, u) /\ Sub(G[x], u)
    /\ t.open /\ u.open /\ u.n <= t.n
    /\ t.waits \subseteq u.waits /\ t.inner \subseteq u.inner \cup {x}

\* From k1 and b1 the program comes to k2 and b2, if the last value is in V.
Goes(k1, b1, k2, b2, V) == \A v \in V : Same(<<k1, b1>>, <<k2, b2>>, v)

\* The values there may be after a node.
After(n) == IF n.kind \in {"value", "operator"} THEN n.yields ELSE Int

\* After these the last statement may get more instructions.
Opens(n) == n.kind \in Expressions \cup {"body", "do", "for", "return"}

\* In main a return is not within a block.
Good(n, b, m) ==
    /\ n \in Nodes
    /\ m => \/ n \in QuietNodes \/ n.kind \in Expressions
            \/ n.kind = "return" /\ b = <<>>

\* A node is what comes next at t, and at u it is over.
NodeFits(n, t, u, m) ==
    /\ Good(n, t.b, m)
    /\ Goes(t.k, t.b, <<n>> \o u.k, t.b, t.may)
    /\ u.b = t.b /\ After(n) \subseteq u.may
    /\ IF n.kind \in Expressions THEN u.h = 1 /\ u.s = OnTop ELSE u.h = 0 /\ u.s = Free
    /\ u.open = Opens(n) /\ u.n <= t.n + 1
    /\ t.waits \subseteq u.waits /\ t.inner = {}

\* The same of an expression within a statement, or of what is left of a value.
InsideFits(e, t, u, m) ==
    /\ e.kind \in Expressions
    /\ \E n : /\ Goes(t.k, t.b, <<n>> \o u.k, t.b, t.may)
              /\ IF e.kind = "value"
                 THEN /\ n.kind = "value" /\ n.id = e.id /\ n.yields = e.yields
                      /\ e = [kind |-> "value", id |-> e.id, yields |-> e.yields, size |-> e.size]
                      /\ e.size \in Nat \ {0}
                 ELSE n = e /\ Good(e, t.b, m)
    /\ u.b = t.b /\ After(e) \subseteq u.may
    /\ u.h = t.h + 1 /\ u.s = OnTop
    /\ t.open /\ u.open /\ u.n <= t.n /\ Keeps(t, u)

\* The tests of a group let through the values it is not for.
Elements(s) == {s[i] : i \in DOMAIN s}

TestsFit(labels, x, t, u, G) ==
    /\ labels \in Seq(Int)
    /\ G[x].lands = "next"
    /\ t.h = 1 /\ t.s = OnTop /\ u.h = 1 /\ u.s = OnTop
    /\ \A v \in t.may :
          IF v \in Elements(labels) \/ Default \in Elements(labels)
          THEN Hit(t, v, t.b, 0, Free, G[x])
          ELSE Hit(t, v, t.b, 1, OnTop, u)
    /\ t.open /\ u.open /\ u.n <= t.n /\ Keeps(t, u) /\ x \in u.waits

\* The body of a group comes where its tests lead, and nothing comes from above.
CaseFits(y, t, u, G, m) ==
    /\ G[y.var].lands = "next" /\ (~y.last => G[y.end].lands = "next")
    /\ t.may = {}
    /\ y.body.kind = "body"
    /\ \E K, b :
          /\ IsSeq(K) /\ IsSeq(b)
          /\ Good(y.body, b, m)
          /\ Sub(G[y.var], Target(<<y.body>> \o K, b, 0, Free, Int, "next", 0))
          /\ LET end == Target(K, b, 0, Free, Int, "next", 0)
             IN  IF y.last THEN Sub(end, u) ELSE Sub(end, G[y.end]) /\ y.end \in u.waits
    /\ u.open /\ u.n <= t.n /\ t.waits \subseteq u.waits \cup {y.var} /\ t.inner = {}

\* One thing to do leads from t to u.
Fits(x, t, u, G, c, m) ==
    \/ x.kind = "statement" /\ BeginFits(t, u)
    \/ x.kind = "insert" /\ InsertFits(x.ins, t, u, m)
    \/ x.kind = "jump"   /\ x.var \in Vars(c) /\ WaitFits(x.op, x.var, t, u, G)
    \/ x.kind = "start"  /\ x.var \in Vars(c) /\ StartFits(x.var, t, u, G)
    \/ x.kind = "back"   /\ x.var \in Vars(c) /\ BackFits(x.op, x.var, t, u, G)
    \/ x.kind = "next"   /\ x.var \in Vars(c) /\ NextFits(x.var, t, u, G)
    \/ x.kind = "here"   /\ x.var \in Vars(c) /\ HereFits(x.var, t, u, G)
    \/ x.kind = "inside" /\ InsideFits(x.of, t, u, m)
    \/ x.kind = "tests"  /\ x.var \in Vars(c) /\ TestsFit(x.labels, x.var, t, u, G)
    \/ /\ x.kind = "case" /\ x.var \in Vars(c) /\ (~x.last => x.end \in Vars(c))
       /\ CaseFits(x, t, u, G, m)
    \/ x.kind \in Expressions \cup {"body", "if", "while", "do", "for", "switch", "return"}
       /\ NodeFits(x, t, u, m)

\* A list of things to do leads from t to f.
Way(list, ty, G, c, m) ==
    \A i \in 1..Len(list) :
        /\ EntryOK(ty[i], c)
        /\ \E w : EntryOK(w, c) /\ Fits(list[i], ty[i], w, G, c, m) /\ Weaker(w, ty[i + 1])

Leads(list, t, f, G, c, m) ==
    \E ty : /\ Way(list, ty, G, c, m)
            /\ Weaker(t, ty[1]) /\ ty[Len(list) + 1] = f /\ EntryOK(f, c)

\* An entry says no less than itself.
LEMMA WeakerSelf == \A t, c : EntryOK(t, c) => Weaker(t, t)
BY SubSelf DEF Weaker, Keeps, EntryOK

\* An entry that says less than one that says less does so too.
LEMMA WeakerTrans ==
    ASSUME NEW t, NEW u, NEW w, NEW c, EntryOK(t, c), EntryOK(u, c), EntryOK(w, c),
           Weaker(t, u), Weaker(u, w)
    PROVE  Weaker(t, w)
BY SubTrans DEF Weaker, Keeps, EntryOK

\* An empty list leads from an entry to what is weaker.
LEMMA Nothing ==
    ASSUME NEW t, NEW u, NEW G, NEW c, NEW m, EntryOK(u, c), Weaker(t, u)
    PROVE  Leads(<<>>, t, u, G, c, m)
<1> DEFINE ty == <<u>>
<1>1. ty[1] = u /\ Len(<<>>) = 0
  OBVIOUS
<1> HIDE DEF ty
<1>2. Way(<<>>, ty, G, c, m)
  BY <1>1 DEF Way
<1> QED
  BY <1>1, <1>2 DEF Leads

\* A single thing that fits leads on.
LEMMA One ==
    ASSUME NEW x, NEW t, NEW u, NEW G, NEW c, NEW m, EntryOK(t, c), EntryOK(u, c),
           Fits(x, t, u, G, c, m)
    PROVE  Leads(<<x>>, t, u, G, c, m)
<1> DEFINE ty == <<t, u>>
<1>1. ty[1] = t /\ ty[2] = u /\ Len(<<x>>) = 1 /\ <<x>>[1] = x
  OBVIOUS
<1> DEFINE list == <<x>>
<1> HIDE DEF ty, list
<1>2. Way(list, ty, G, c, m)
  <2>1. EntryOK(u, c) /\ Fits(list[1], ty[1], u, G, c, m) /\ Weaker(u, ty[1 + 1])
    BY <1>1, WeakerSelf DEF list
  <2>2. EntryOK(ty[1], c)
    BY <1>1
  <2>3. Len(list) = 1
    BY <1>1 DEF list
  <2> QED
    BY <2>1, <2>2, <2>3 DEF Way
<1>3. Weaker(t, ty[1])
  BY <1>1, WeakerSelf
<1> QED
  BY <1>1, <1>2, <1>3 DEF Leads, list

\* Two lists that lead on lead on when joined.
LEMMA Compose ==
    ASSUME NEW A, NEW B, NEW t, NEW u, NEW f, NEW G, NEW c, NEW m, IsSeq(A), IsSeq(B),
           Leads(A, t, u, G, c, m), Leads(B, u, f, G, c, m), EntryOK(t, c)
    PROVE  Leads(A \o B, t, f, G, c, m)
<1>1. PICK ta : /\ Way(A, ta, G, c, m) /\ Weaker(t, ta[1]) /\ ta[Len(A) + 1] = u /\ EntryOK(u, c)
  BY DEF Leads
<1>2. PICK tb : /\ Way(B, tb, G, c, m) /\ Weaker(u, tb[1]) /\ tb[Len(B) + 1] = f /\ EntryOK(f, c)
  BY DEF Leads
<1> DEFINE a == Len(A)
           b == Len(B)
           C == A \o B
           ty == [i \in 1..(a + b + 1) |-> IF i <= a THEN ta[i] ELSE tb[i - a]]
<1>3. /\ a \in Nat /\ b \in Nat /\ Len(C) = a + b
      /\ \A i \in 1..a : C[i] = A[i]
      /\ \A i \in 1..b : C[a + i] = B[i]
  BY Joined
<1>4. EntryOK(tb[1], c)
  <2>1. CASE b = 0
    BY <1>2, <2>1
  <2>2. CASE b # 0
    <3>1. 1 \in 1..b
      BY <1>3, <2>2
    <3> QED
      BY <1>2, <3>1 DEF Way
  <2> QED
    BY <2>1, <2>2
<1>5. \A i \in 1..a : ty[i] = ta[i]
  BY <1>3
<1>6. \A j \in 1..(b + 1) : ty[a + j] = tb[j]
  BY <1>3
<1> HIDE DEF ty, C, a, b
<1>7. Way(C, ty, G, c, m)
  <2> SUFFICES ASSUME NEW i \in 1..Len(C)
               PROVE  /\ EntryOK(ty[i], c)
                      /\ \E w : /\ EntryOK(w, c) /\ Fits(C[i], ty[i], w, G, c, m)
                                /\ Weaker(w, ty[i + 1])
    BY DEF Way
  <2>1. CASE i < a
    <3>1. i \in 1..a /\ i + 1 \in 1..a
      BY <1>3, <2>1
    <3>2. C[i] = A[i] /\ ty[i] = ta[i] /\ ty[i + 1] = ta[i + 1]
      BY <1>3, <1>5, <3>1
    <3> QED
      BY <1>1, <3>1, <3>2 DEF Way, a
  <2>2. CASE i = a
    <3>1. i \in 1..a /\ 1 \in 1..(b + 1)
      BY <1>3, <2>2
    <3>2. C[i] = A[i] /\ ty[i] = ta[i] /\ ty[i + 1] = tb[1] /\ ta[i + 1] = u
      BY <1>1, <1>3, <1>5, <1>6, <2>2, <3>1 DEF a
    <3>3. EntryOK(ta[i], c)
      BY <1>1, <3>1 DEF Way, a
    <3>4. PICK w : EntryOK(w, c) /\ Fits(A[i], ta[i], w, G, c, m) /\ Weaker(w, ta[i + 1])
      BY <1>1, <3>1 DEF Way, a
    <3>5. Weaker(w, tb[1])
      BY <1>1, <1>2, <1>4, <3>2, <3>4, WeakerTrans
    <3> QED
      BY <3>2, <3>3, <3>4, <3>5
  <2>3. CASE i > a
    <3>1. i - a \in 1..b /\ i - a \in 1..(b + 1) /\ i - a + 1 \in 1..(b + 1)
      BY <1>3, <2>3
    <3> DEFINE j == i - a
    <3>2. i = a + j /\ i + 1 = a + (j + 1)
      BY <1>3, <3>1
    <3> HIDE DEF j
    <3>3. C[i] = B[j] /\ ty[i] = tb[j] /\ ty[i + 1] = tb[j + 1]
      BY <1>3, <1>6, <3>1, <3>2 DEF j
    <3>4. j \in 1..Len(B)
      BY <3>1 DEF j, b
    <3> QED
      BY <1>2, <3>3, <3>4 DEF Way
  <2> QED
    BY <1>3, <2>1, <2>2, <2>3
<1>8. Weaker(t, ty[1])
  <2>1. CASE a = 0
    <3>1. ty[1] = tb[1]
      <4>1. 1 \in 1..(b + 1) /\ a + 1 = 1
        BY <1>3, <2>1
      <4> QED
        BY <1>6, <4>1
    <3>2. Weaker(t, u)
      BY <1>1, <2>1 DEF a
    <3> QED
      BY <1>1, <1>2, <1>4, <3>1, <3>2, WeakerTrans
  <2>2. CASE a # 0
    <3>1. 1 \in 1..a
      BY <1>3, <2>2
    <3> QED
      BY <1>1, <1>5, <3>1
  <2> QED
    BY <2>1, <2>2
<1>9. ty[Len(C) + 1] = f
  <2>1. b + 1 \in 1..(b + 1) /\ Len(C) + 1 = a + (b + 1)
    BY <1>3
  <2> QED
    BY <1>2, <1>6, <2>1 DEF b
<1> QED
  BY <1>2, <1>7, <1>8, <1>9 DEF Leads, C

\* So do a thing that fits and a list after it.
LEMMA Cons ==
    ASSUME NEW x, NEW B, NEW t, NEW u, NEW f, NEW G, NEW c, NEW m, IsSeq(B),
           EntryOK(t, c), EntryOK(u, c), Fits(x, t, u, G, c, m), Leads(B, u, f, G, c, m)
    PROVE  Leads(<<x>> \o B, t, f, G, c, m)
BY One, Compose, ShortSeqs

\* A list that leads on does so by its first thing and by the rest of it.
LEMMA Uncons ==
    ASSUME NEW list, NEW t, NEW f, NEW G, NEW c, NEW m, IsSeq(list), list # <<>>,
           Leads(list, t, f, G, c, m)
    PROVE  \E u, w : /\ EntryOK(u, c) /\ EntryOK(w, c) /\ Weaker(t, u)
                     /\ Fits(Head(list), u, w, G, c, m)
                     /\ Leads(Tail(list), w, f, G, c, m) /\ IsSeq(Tail(list))
<1>1. PICK ty : /\ Way(list, ty, G, c, m) /\ Weaker(t, ty[1]) /\ ty[Len(list) + 1] = f
                /\ EntryOK(f, c)
  BY DEF Leads
<1>2. PICK S : list \in Seq(S)
  BY DEF IsSeq
<1> DEFINE L == Tail(list)
           t2 == [i \in 1..Len(list) |-> ty[i + 1]]
<1>3. /\ Len(list) \in Nat \ {0} /\ Len(L) = Len(list) - 1 /\ L \in Seq(S)
      /\ Head(list) = list[1]
      /\ \A i \in 1..Len(L) : L[i] = list[i + 1]
  BY <1>2
<1>4. 1 \in 1..Len(list)
  BY <1>3
<1>5. PICK w : EntryOK(w, c) /\ Fits(list[1], ty[1], w, G, c, m) /\ Weaker(w, ty[2])
  BY <1>1, <1>4 DEF Way
<1>6. EntryOK(ty[1], c)
  BY <1>1, <1>4 DEF Way
<1>7. \A i \in 1..Len(list) : t2[i] = ty[i + 1]
  OBVIOUS
<1> HIDE DEF L, t2
<1>8. Way(L, t2, G, c, m)
  <2> SUFFICES ASSUME NEW i \in 1..Len(L)
               PROVE  /\ EntryOK(t2[i], c)
                      /\ \E z : /\ EntryOK(z, c) /\ Fits(L[i], t2[i], z, G, c, m)
                                /\ Weaker(z, t2[i + 1])
    BY DEF Way
  <2>1. i \in 1..Len(list) /\ i + 1 \in 1..Len(list)
    BY <1>3
  <2>2. L[i] = list[i + 1] /\ t2[i] = ty[i + 1] /\ t2[i + 1] = ty[i + 1 + 1]
    BY <1>3, <1>7, <2>1
  <2> QED
    BY <1>1, <2>1, <2>2 DEF Way
<1>9. Weaker(w, t2[1]) /\ t2[Len(L) + 1] = f
  BY <1>1, <1>3, <1>4, <1>5, <1>7
<1>10. Leads(L, w, f, G, c, m)
  BY <1>1, <1>8, <1>9 DEF Leads
<1>11. IsSeq(L)
  BY <1>3 DEF IsSeq
<1> QED
  BY <1>1, <1>3, <1>5, <1>6, <1>10, <1>11 DEF L

\* A call makes variables of its own; those before it stay as they are.
Extends(G, G2, c) == \A x \in Vars(c) : G2[x] = G[x]

\* An entry stays one when there are more calls.
LEMMA EntryGrows ==
    ASSUME NEW c \in Nat, NEW t, EntryOK(t, c)
    PROVE  EntryOK(t, c + 1)
<1>1. Vars(c) \subseteq Vars(c + 1)
  BY DEF Vars
<1> QED
  BY <1>1 DEF EntryOK

\* A thing that fits goes on fitting when a later call has variables of its
\* own.
LEMMA FitsGrows ==
    ASSUME NEW c \in Nat, NEW G, NEW G2, Extends(G, G2, c), NEW x, NEW t, NEW u, NEW m,
           Fits(x, t, u, G, c, m)
    PROVE  Fits(x, t, u, G2, c + 1, m)
<1>1. Vars(c) \subseteq Vars(c + 1)
  BY DEF Vars
<1>2. ASSUME x.var \in Vars(c) PROVE G2[x.var] = G[x.var] /\ x.var \in Vars(c + 1)
  BY <1>1, <1>2 DEF Extends
<1>3. ASSUME x.end \in Vars(c) PROVE G2[x.end] = G[x.end] /\ x.end \in Vars(c + 1)
  BY <1>1, <1>3 DEF Extends
<1>4. CASE x.kind = "jump"
  BY <1>2, <1>4 DEF Fits, WaitFits, Expressions
<1>5. CASE x.kind = "start"
  BY <1>2, <1>5 DEF Fits, StartFits, Expressions
<1>6. CASE x.kind = "back"
  BY <1>2, <1>6 DEF Fits, BackFits, Expressions
<1>7. CASE x.kind = "next"
  BY <1>2, <1>7 DEF Fits, NextFits, Expressions
<1>8. CASE x.kind = "here"
  BY <1>2, <1>8 DEF Fits, HereFits, Expressions
<1>9. CASE x.kind = "tests"
  BY <1>2, <1>9 DEF Fits, TestsFit, Expressions
<1>10. CASE x.kind = "case"
  <2>1. x.var \in Vars(c) /\ (~x.last => x.end \in Vars(c)) /\ CaseFits(x, t, u, G, m)
    BY <1>10 DEF Fits, Expressions
  <2>2. CaseFits(x, t, u, G2, m)
    BY <1>2, <1>3, <2>1 DEF CaseFits
  <2> QED
    BY <1>2, <1>3, <1>10, <2>1, <2>2 DEF Fits
<1> QED
  BY <1>4, <1>5, <1>6, <1>7, <1>8, <1>9, <1>10 DEF Fits

\* So does a list that leads on.
LEMMA LeadsGrows ==
    ASSUME NEW c \in Nat, NEW G, NEW G2, Extends(G, G2, c), NEW list, NEW t, NEW f, NEW m,
           Leads(list, t, f, G, c, m)
    PROVE  Leads(list, t, f, G2, c + 1, m)
<1>1. PICK ty : /\ Way(list, ty, G, c, m) /\ Weaker(t, ty[1]) /\ ty[Len(list) + 1] = f
                /\ EntryOK(f, c)
  BY DEF Leads
<1>2. Way(list, ty, G2, c + 1, m)
  <2> SUFFICES ASSUME NEW i \in 1..Len(list)
               PROVE  /\ EntryOK(ty[i], c + 1)
                      /\ \E w : /\ EntryOK(w, c + 1) /\ Fits(list[i], ty[i], w, G2, c + 1, m)
                                /\ Weaker(w, ty[i + 1])
    BY DEF Way
  <2>1. PICK w : EntryOK(w, c) /\ Fits(list[i], ty[i], w, G, c, m) /\ Weaker(w, ty[i + 1])
    BY <1>1 DEF Way
  <2>2. EntryOK(ty[i], c)
    BY <1>1 DEF Way
  <2> QED
    BY <2>1, <2>2, EntryGrows, FitsGrows
<1> QED
  BY <1>1, <1>2, EntryGrows DEF Leads

-----------------------------------------------------------------------------
(* The code so far, its marks and a plan for it.  q is the point a run       *)
(* starts at.                                                                *)

\* The place where the compiler adds code, and the last statement there is a
\* point for.
Spot(cd, t)   == IF t.open THEN <<Len(cd), Len(cd[Len(cd)]) + 1>> ELSE <<Len(cd) + 1, 1>>
LastTo(cd, t) == IF t.open THEN Len(cd) ELSE Len(cd) + 1

\* A mark of a loop's start, or of a jump.
MarkFits(k, cd, p, G, t) ==
    /\ k = [var |-> k.var, at |-> k.at]
    /\ IF G[k.var].lands = "back"
       THEN \E s \in 1..LastTo(cd, t) :
               /\ k.at = <<s, 0>> /\ k.var \in t.waits
               /\ Sub(G[k.var], p[<<s, 1>>])
               /\ G[k.var].n \in Nat /\ t.n + s <= Len(cd) + 1 + G[k.var].n
       ELSE \E s \in 1..Len(cd) : \E i \in 1..Len(cd[s]) :
               /\ k.at = <<s, i>>
               /\ \E op \in JumpOps : cd[s][i] = JumpIns(op)
               /\ IF G[k.var].lands = "here" THEN s = Len(cd) /\ k.var \in t.inner
                  ELSE k.var \in t.waits

\* All marks do, and each is the only one of its place, or of its loop.
MarksFit(mk, cd, p, G, t) ==
    /\ \A k \in mk : MarkFits(k, cd, p, G, t)
    /\ \A k, j \in mk : k.at = j.at /\ k.at[2] # 0 => k = j
    /\ \A k, j \in mk : k.var = j.var /\ G[k.var].lands = "back" => k = j

\* The code and its marks fit plan p, and t is the entry at its end.
Static(cd, mk, c, p, G, q, t, m) ==
    /\ Lists(cd) /\ EntryOK(t, c) /\ (t.open => cd # <<>>)
    /\ p[Spot(cd, t)] = t
    /\ Sub(q, p[<<1, 1>>])
    /\ CodeFits(cd, mk, p, G, LastTo(cd, t), m)
    /\ Ends(cd, p, LastTo(cd, t))
    /\ MarksFit(mk, cd, p, G, t)

\* The plan with another point at one place.
Put(p, z, u) == [y \in Nat \X Nat |-> IF y = z THEN u ELSE p[y]]

\* A plan changed at one place.
LEMMA PutFacts ==
    ASSUME NEW p, NEW z \in Nat \X Nat, NEW u
    PROVE  /\ Put(p, z, u)[z] = u
           /\ \A y \in Nat \X Nat : y # z => Put(p, z, u)[y] = p[y]
BY DEF Put

\* The lengths of the statements of a code.
LEMMA ListFacts ==
    ASSUME NEW cd, Lists(cd)
    PROVE  /\ Len(cd) \in Nat /\ \A s \in 1..Len(cd) : Len(cd[s]) \in Nat /\ IsSeq(cd[s])
           /\ IsSeq(cd) /\ (cd # <<>> => Len(cd) \in 1..Len(cd))
<1>1. IsSeq(cd) /\ \A s \in 1..Len(cd) : IsSeq(cd[s])
  BY DEF Lists
<1>2. Len(cd) \in Nat /\ \A s \in 1..Len(cd) : Len(cd[s]) \in Nat
  BY <1>1, Joined
<1>3. cd # <<>> => Len(cd) # 0
  BY <1>1 DEF IsSeq
<1> QED
  BY <1>1, <1>2, <1>3

\* Entering a statement whose point says less.
LEMMA EnterSub ==
    ASSUME NEW t, NEW u, NEW w, Enter(t, u), Sub(u, w)
    PROVE  Enter(t, w)
<1> SUFFICES ASSUME NEW v \in t.may PROVE Hit(t, v, t.b, 0, Free, w)
  BY DEF Enter
<1>1. Hit(t, v, t.b, 0, Free, u)
  BY DEF Enter
<1> QED
  BY <1>1, HitSub

\* A plan may say less where no instruction is yet.
LEMMA Replan ==
    ASSUME NEW cd, Lists(cd), NEW mk, NEW p, NEW G, NEW last, NEW m,
           CodeFits(cd, mk, p, G, last, m), NEW p2,
           \A s \in 1..Len(cd) : \A i \in 1..Len(cd[s]) : p2[<<s, i>>] = p[<<s, i>>],
           \A s \in 1..Len(cd) : Sub(p[<<s, Len(cd[s]) + 1>>], p2[<<s, Len(cd[s]) + 1>>]),
           \A s \in 1..last : Sub(p[<<s, 1>>], p2[<<s, 1>>])
    PROVE  CodeFits(cd, mk, p2, G, last, m)
<1>0. \A s \in 1..Len(cd) : Len(cd[s]) \in Nat
  BY ListFacts
<1>1. ASSUME NEW s \in 1..Len(cd), NEW i \in 1..Len(cd[s])
      PROVE  Sub(p[<<s, i + 1>>], p2[<<s, i + 1>>])
  <2>1. CASE i + 1 \in 1..Len(cd[s])
    BY <2>1, SubSelf
  <2>2. CASE i = Len(cd[s])
    BY <2>2
  <2> QED
    BY <1>0, <2>1, <2>2
<1> SUFFICES ASSUME NEW s \in 1..Len(cd), NEW i \in 1..Len(cd[s])
             PROVE  \/ PlainFits(cd[s][i], p2[<<s, i>>], p2[<<s, i + 1>>], m)
                    \/ /\ cd[s][i].op2 = Undefined
                       /\ Pending(mk, G, <<s, i>>, cd[s][i], p2[<<s, i>>], p2[<<s, i + 1>>])
                    \/ /\ cd[s][i].op2 # Undefined
                       /\ JumpsTo(cd, p2, s, cd[s][i], p2[<<s, i>>], p2[<<s, i + 1>>], last)
  BY DEF CodeFits
<1> DEFINE t == p[<<s, i>>]
           u == p[<<s, i + 1>>]
           w == p2[<<s, i + 1>>]
           ins == cd[s][i]
<1>2. p2[<<s, i>>] = t /\ Sub(u, w)
  BY <1>1
<1>3. \/ PlainFits(ins, t, u, m)
      \/ ins.op2 = Undefined /\ Pending(mk, G, <<s, i>>, ins, t, u)
      \/ ins.op2 # Undefined /\ JumpsTo(cd, p, s, ins, t, u, last)
  BY DEF CodeFits
<1>4. CASE PlainFits(ins, t, u, m)
  <2> HIDE DEF t, u, w, ins
  <2>1. PlainFits(ins, t, w, m)
    BY <1>2, <1>4, PlainSub
  <2> QED
    BY <1>2, <2>1 DEF t, w, ins
<1>5. CASE ins.op2 = Undefined /\ Pending(mk, G, <<s, i>>, ins, t, u)
  <2> DEFINE at == <<s, i>>
  <2> HIDE DEF t, u, w, ins, at
  <2>1. ASSUME NEW k \in mk, k.at = at
        PROVE  JumpFits(ins.op, t, w, G[k.var], G[k.var].lands = "here")
    <3>1. JumpFits(ins.op, t, u, G[k.var], G[k.var].lands = "here")
      BY <1>5, <2>1 DEF Pending, at
    <3> QED
      BY <1>2, <3>1, JumpSub, SubSelf
  <2>2. Pending(mk, G, at, ins, t, w)
    BY <1>5, <2>1 DEF Pending, at
  <2> QED
    BY <1>2, <1>5, <2>2 DEF t, w, ins, at
<1>6. CASE ins.op2 # Undefined /\ JumpsTo(cd, p, s, ins, t, u, last)
  <2>1. CASE ins.op2 = s
    <3>1. ins.op1 \in 1..Len(cd[s]) /\ JumpFits(ins.op, t, u, p[<<s, ins.op1 + 1>>], TRUE)
      BY <1>6, <2>1 DEF JumpsTo
    <3> DEFINE x == p[<<s, ins.op1 + 1>>]
               y == p2[<<s, ins.op1 + 1>>]
    <3>2. Sub(x, y)
      BY <1>1, <3>1
    <3>3. JumpFits(ins.op, t, u, x, TRUE)
      BY <3>1
    <3>4. JumpFits(ins.op, t, w, y, TRUE)
      <4> HIDE DEF t, u, w, ins, x, y
      <4> QED
        BY <1>2, <3>2, <3>3, JumpSub
    <3>5. JumpsTo(cd, p2, s, ins, t, w, last)
      BY <2>1, <3>1, <3>4 DEF JumpsTo
    <3> QED
      BY <1>2, <1>6, <3>5
  <2>2. CASE ins.op2 # s
    <3>1. ins.op2 \in 1..last /\ JumpFits(ins.op, t, u, p[<<ins.op2, 1>>], FALSE)
      BY <1>6, <2>2 DEF JumpsTo
    <3> DEFINE x == p[<<ins.op2, 1>>]
               y == p2[<<ins.op2, 1>>]
    <3>2. Sub(x, y)
      BY <3>1
    <3>3. JumpFits(ins.op, t, u, x, FALSE)
      BY <3>1
    <3>4. JumpFits(ins.op, t, w, y, FALSE)
      <4> HIDE DEF t, u, w, ins, x, y
      <4> QED
        BY <1>2, <3>2, <3>3, JumpSub
    <3>5. JumpsTo(cd, p2, s, ins, t, w, last)
      BY <2>2, <3>1, <3>4 DEF JumpsTo
    <3> QED
      BY <1>2, <1>6, <3>5
  <2> QED
    BY <2>1, <2>2
<1> QED
  BY <1>3, <1>4, <1>5, <1>6

\* The same of the ends of the statements.
LEMMA ReplanEnds ==
    ASSUME NEW cd, Lists(cd), NEW p, NEW last, Ends(cd, p, last), NEW p2,
           \A s \in 1..Len(cd) : s + 1 <= last =>
               p2[<<s, Len(cd[s]) + 1>>] = p[<<s, Len(cd[s]) + 1>>],
           \A s \in 1..last : Sub(p[<<s, 1>>], p2[<<s, 1>>])
    PROVE  Ends(cd, p2, last)
<1> SUFFICES ASSUME NEW s \in 1..Len(cd), s + 1 <= last
             PROVE  Enter(p2[<<s, Len(cd[s]) + 1>>], p2[<<s + 1, 1>>])
  BY DEF Ends
<1>1. Enter(p[<<s, Len(cd[s]) + 1>>], p[<<s + 1, 1>>])
  BY DEF Ends
<1>2. s + 1 \in 1..last
  BY ListFacts
<1>3. Sub(p[<<s + 1, 1>>], p2[<<s + 1, 1>>])
  BY <1>2
<1>4. Enter(p[<<s, Len(cd[s]) + 1>>], p2[<<s + 1, 1>>])
  BY <1>1, <1>3, EnterSub
<1> QED
  BY <1>4

\* What stands where the compiler has come to may say less.
LEMMA WeakenPlan ==
    ASSUME NEW cd, NEW mk, NEW c, NEW p, NEW G, NEW q, NEW t, NEW m,
           Static(cd, mk, c, p, G, q, t, m), NEW u, Sub(t, u), t.open = u.open,
           NEW p2, p2 = Put(p, Spot(cd, t), u)
    PROVE  /\ CodeFits(cd, mk, p2, G, LastTo(cd, t), m)
           /\ Ends(cd, p2, LastTo(cd, t))
           /\ Sub(q, p2[<<1, 1>>])
           /\ p2[Spot(cd, t)] = u
           /\ \A s \in 1..LastTo(cd, t) : Sub(p[<<s, 1>>], p2[<<s, 1>>])
<1> DEFINE L == Len(cd)
           z == Spot(cd, t)
           last == LastTo(cd, t)
<1>1. /\ L \in Nat /\ (t.open => L \in 1..L) /\ Lists(cd)
      /\ \A s \in 1..L : Len(cd[s]) \in Nat
  BY ListFacts DEF Static
<1>2. Sub(t, u) /\ t.open = u.open /\ t.open \in BOOLEAN
  BY DEF EntryOK, Static
<1>3. z \in Nat \X Nat /\ p[z] = t
  BY <1>1 DEF Spot, Static
<1>4. last \in Nat
  BY <1>1, <1>2 DEF LastTo
<1>5. \A s \in 1..L : \A i \in 1..Len(cd[s]) : <<s, i>> # z /\ <<s, i>> \in Nat \X Nat
  BY <1>1, <1>2 DEF Spot
<1>6. p2[z] = u /\ \A y \in Nat \X Nat : y # z => p2[y] = p[y]
  <2>1. Put(p, z, u)[z] = u /\ \A y \in Nat \X Nat : y # z => Put(p, z, u)[y] = p[y]
    <3> HIDE DEF z
    <3> QED
      BY <1>3, PutFacts
  <2> QED
    BY <2>1
<1>7. \A y \in Nat \X Nat : Sub(p[y], p2[y])
  BY <1>2, <1>3, <1>6, SubSelf
<1>8. \A s \in 1..L : s + 1 <= last =>
         <<s, Len(cd[s]) + 1>> # z /\ <<s, Len(cd[s]) + 1>> \in Nat \X Nat
  BY <1>1, <1>2 DEF Spot, LastTo
<1>9. \A s \in Nat : <<s, 1>> \in Nat \X Nat
  OBVIOUS
<1>10. \A s \in 1..L : <<s, Len(cd[s]) + 1>> \in Nat \X Nat
  BY <1>1
<1> HIDE DEF z, last
<1>11. CodeFits(cd, mk, p, G, last, m) /\ Ends(cd, p, last)
  BY DEF Static, last
<1>12. \A s \in 1..last : Sub(p[<<s, 1>>], p2[<<s, 1>>])
  <2> SUFFICES ASSUME NEW s \in 1..last PROVE Sub(p[<<s, 1>>], p2[<<s, 1>>])
    OBVIOUS
  <2>1. <<s, 1>> \in Nat \X Nat
    BY <1>4
  <2> QED
    BY <1>7, <2>1
<1>13. CodeFits(cd, mk, p2, G, last, m)
  <2>1. \A s \in 1..L : \A i \in 1..Len(cd[s]) : p2[<<s, i>>] = p[<<s, i>>]
    BY <1>5, <1>6
  <2>2. \A s \in 1..L : Sub(p[<<s, Len(cd[s]) + 1>>], p2[<<s, Len(cd[s]) + 1>>])
    BY <1>7, <1>10
  <2> QED
    BY <1>1, <1>11, <1>12, <2>1, <2>2, Replan
<1>14. Ends(cd, p2, last)
  <2>1. \A s \in 1..L : s + 1 <= last => p2[<<s, Len(cd[s]) + 1>>] = p[<<s, Len(cd[s]) + 1>>]
    BY <1>6, <1>8
  <2> QED
    BY <1>1, <1>11, <1>12, <2>1, ReplanEnds
<1>15. Sub(q, p2[<<1, 1>>])
  <2>1. Sub(q, p[<<1, 1>>]) /\ Sub(p[<<1, 1>>], p2[<<1, 1>>])
    BY <1>7 DEF Static
  <2> QED
    BY <2>1, SubTrans
<1> QED
  BY <1>6, <1>12, <1>13, <1>14, <1>15 DEF last, z

\* So the entry may be replaced by a weaker one.
LEMMA Weaken ==
    ASSUME NEW cd, NEW mk, NEW c, NEW p, NEW G, NEW q, NEW t, NEW m,
           Static(cd, mk, c, p, G, q, t, m), NEW u, EntryOK(u, c), Weaker(t, u)
    PROVE  \E p2 : Static(cd, mk, c, p2, G, q, u, m)
<1> DEFINE L == Len(cd)
           p2 == Put(p, Spot(cd, t), u)
           last == LastTo(cd, t)
<1>1. /\ L \in Nat /\ (t.open => L \in 1..L) /\ Lists(cd)
      /\ \A s \in 1..L : Len(cd[s]) \in Nat
  BY ListFacts DEF Static
<1>2. Sub(t, u) /\ t.open = u.open /\ t.open \in BOOLEAN
  BY DEF Weaker, EntryOK, Static
<1>4. /\ last = LastTo(cd, u) /\ Spot(cd, t) = Spot(cd, u)
      /\ last \in Nat
  BY <1>1, <1>2 DEF LastTo, Spot
<1>6. /\ CodeFits(cd, mk, p2, G, last, m) /\ Ends(cd, p2, last)
      /\ Sub(q, p2[<<1, 1>>]) /\ p2[Spot(cd, t)] = u
      /\ \A s \in 1..last : Sub(p[<<s, 1>>], p2[<<s, 1>>])
  BY <1>2, WeakenPlan
<1> HIDE DEF p2, last
<1>16. MarksFit(mk, cd, p2, G, u)
  <2>1. MarksFit(mk, cd, p, G, t)
    BY DEF Static
  <2>2. ASSUME NEW k \in mk PROVE MarkFits(k, cd, p2, G, u)
    <3>1. MarkFits(k, cd, p, G, t)
      BY <2>1 DEF MarksFit
    <3>2. t.waits \subseteq u.waits /\ t.inner \subseteq u.inner /\ u.n <= t.n
          /\ t.n \in Nat /\ u.n \in Nat
      BY DEF Weaker, Keeps, Static, EntryOK
    <3>3. CASE G[k.var].lands = "back"
      <4>1. PICK s \in 1..last :
               /\ k.at = <<s, 0>> /\ k.var \in t.waits
               /\ Sub(G[k.var], p[<<s, 1>>])
               /\ G[k.var].n \in Nat /\ t.n + s <= Len(cd) + 1 + G[k.var].n
        BY <3>1, <3>3 DEF MarkFits, last
      <4>2. Sub(G[k.var], p2[<<s, 1>>])
        BY <1>6, <4>1, SubTrans
      <4>3. u.n + s <= Len(cd) + 1 + G[k.var].n
        BY <1>1, <1>4, <3>2, <4>1, SMTT(30)
      <4> QED
        BY <1>4, <3>1, <3>2, <3>3, <4>1, <4>2, <4>3 DEF MarkFits
    <3>4. CASE G[k.var].lands # "back"
      BY <3>1, <3>2, <3>4 DEF MarkFits
    <3> QED
      BY <3>3, <3>4
  <2> QED
    BY <2>1, <2>2 DEF MarksFit
<1> QED
  BY <1>1, <1>2, <1>4, <1>6, <1>16 DEF Static, last

\* Code that fits goes on fitting when jumps may lead further.
LEMMA CodeMore ==
    ASSUME NEW cd, NEW mk, NEW p, NEW G, NEW last \in Nat, NEW m,
           CodeFits(cd, mk, p, G, last, m), NEW more \in Nat, last <= more
    PROVE  CodeFits(cd, mk, p, G, more, m)
<1>1. 1..last \subseteq 1..more
  OBVIOUS
<1> QED
  BY <1>1, ZenonT(40) DEF CodeFits, JumpsTo

\* Between two statements there are no operands to be reset.
LEMMA ClosedSub ==
    ASSUME NEW t, NEW u, NEW c, EntryOK(t, c), ~t.open, Enter(t, u)
    PROVE  Sub(t, u)
BY DEF EntryOK, Enter, Sub

\* What comes to the next statement, or leads there, is at u.
LEMMA Land ==
    ASSUME NEW cd, NEW mk, NEW c, NEW p, NEW G, NEW q, NEW t, NEW m,
           Static(cd, mk, c, p, G, q, t, m), NEW u, Enter(t, u),
           NEW p2, p2 = Put(p, <<Len(cd) + 1, 1>>, u)
    PROVE  /\ CodeFits(cd, mk, p2, G, Len(cd) + 1, m)
           /\ Ends(cd, p2, Len(cd) + 1)
           /\ Sub(q, p2[<<1, 1>>])
           /\ p2[<<Len(cd) + 1, 1>>] = u
           /\ \A s \in 1..LastTo(cd, t) : Sub(p[<<s, 1>>], p2[<<s, 1>>])
<1> DEFINE L == Len(cd)
           z == <<L + 1, 1>>
           last == LastTo(cd, t)
<1>1. /\ L \in Nat /\ (t.open => L \in 1..L) /\ Lists(cd)
      /\ \A s \in 1..L : Len(cd[s]) \in Nat
  BY ListFacts DEF Static
<1>2. t.open \in BOOLEAN /\ EntryOK(t, c)
  BY DEF EntryOK, Static
<1>3. z \in Nat \X Nat
  BY <1>1
<1>4. last \in {L, L + 1} /\ (last = L => t.open) /\ (last = L + 1 => ~t.open)
  BY <1>1, <1>2 DEF LastTo
<1>5. p2[z] = u /\ \A y \in Nat \X Nat : y # z => p2[y] = p[y]
  <2>1. Put(p, z, u)[z] = u /\ \A y \in Nat \X Nat : y # z => Put(p, z, u)[y] = p[y]
    <3> HIDE DEF z
    <3> QED
      BY <1>3, PutFacts
  <2> QED
    BY <2>1
<1>6. ASSUME ~t.open PROVE Sub(p[z], p2[z])
  BY <1>2, <1>5, <1>6, ClosedSub DEF Static, Spot
<1>7. ASSUME NEW s \in 1..last PROVE Sub(p[<<s, 1>>], p2[<<s, 1>>])
  <2>1. CASE s = L + 1
    BY <1>1, <1>4, <1>6, <2>1
  <2>2. CASE s # L + 1
    <3>1. <<s, 1>> \in Nat \X Nat /\ <<s, 1>> # z
      BY <1>1, <1>4, <2>2
    <3> QED
      BY <1>5, <3>1, SubSelf
  <2> QED
    BY <2>1, <2>2
<1>8. \A s \in 1..L : \A i \in Nat : p2[<<s, i>>] = p[<<s, i>>]
  <2> SUFFICES ASSUME NEW s \in 1..L, NEW i \in Nat PROVE p2[<<s, i>>] = p[<<s, i>>]
    OBVIOUS
  <2>1. <<s, i>> \in Nat \X Nat /\ <<s, i>> # z
    BY <1>1
  <2> QED
    BY <1>5, <2>1
<1>9. \A s \in 1..L : p2[<<s, Len(cd[s]) + 1>>] = p[<<s, Len(cd[s]) + 1>>]
  BY <1>1, <1>8
<1>10. CodeFits(cd, mk, p, G, last, m) /\ Ends(cd, p, last)
  BY DEF Static
<1> HIDE DEF last
<1>11. CodeFits(cd, mk, p2, G, L + 1, m)
  <2>1. \A s \in 1..L : \A i \in 1..Len(cd[s]) : p2[<<s, i>>] = p[<<s, i>>]
    <3>1. \A s \in 1..L : 1..Len(cd[s]) \subseteq Nat
      BY <1>1
    <3> QED
      BY <1>8, <3>1
  <2>2. \A s \in 1..L : Sub(p[<<s, Len(cd[s]) + 1>>], p2[<<s, Len(cd[s]) + 1>>])
    BY <1>9, SubSelf
  <2>3. CodeFits(cd, mk, p2, G, last, m)
    BY <1>1, <1>7, <1>10, <2>1, <2>2, Replan
  <2> QED
    BY <1>1, <1>4, <2>3, CodeMore
<1>12. Ends(cd, p2, L + 1)
  <2>1. Ends(cd, p2, last)
    BY <1>1, <1>7, <1>9, <1>10, ReplanEnds
  <2>2. ASSUME t.open PROVE Enter(p2[<<L, Len(cd[L]) + 1>>], p2[<<L + 1, 1>>])
    <3>1. p[<<L, Len(cd[L]) + 1>>] = t
      BY <2>2 DEF Static, Spot
    <3> QED
      BY <1>1, <1>5, <1>9, <2>2, <3>1
  <2> SUFFICES ASSUME NEW s \in 1..L PROVE Enter(p2[<<s, Len(cd[s]) + 1>>], p2[<<s + 1, 1>>])
    BY DEF Ends
  <2>3. CASE s + 1 <= last
    BY <2>1, <2>3 DEF Ends
  <2>4. CASE ~(s + 1 <= last)
    <3>1. s = L /\ t.open
      BY <1>1, <1>2, <1>4, <2>4
    <3> QED
      BY <2>2, <3>1
  <2> QED
    BY <2>3, <2>4
<1>13. Sub(q, p2[<<1, 1>>])
  <2>1. Sub(q, p[<<1, 1>>])
    BY DEF Static
  <2>2. 1 \in 1..last
    BY <1>1, <1>4
  <2>3. Sub(p[<<1, 1>>], p2[<<1, 1>>])
    BY <1>7, <2>2
  <2> QED
    BY <2>1, <2>3, SubTrans
<1> QED
  BY <1>5, <1>7, <1>11, <1>12, <1>13 DEF last

\* The code after a new, empty, statement.
LEMMA Started ==
    ASSUME NEW cd, Lists(cd), NEW cd2, cd2 = Append(cd, <<>>)
    PROVE  /\ Lists(cd2) /\ Len(cd2) = Len(cd) + 1 /\ cd2 # <<>> /\ cd2[Len(cd) + 1] = <<>>
           /\ \A s \in 1..Len(cd) : cd2[s] = cd[s]
<1>1. IsSeq(cd) /\ Len(cd) \in Nat
  BY ListFacts
<1>2. /\ IsSeq(cd2) /\ Len(cd2) = Len(cd) + 1 /\ cd2[Len(cd) + 1] = <<>>
      /\ \A s \in 1..Len(cd) : cd2[s] = cd[s]
  BY <1>1, Pushed
<1>3. cd2 # <<>>
  BY <1>1, <1>2
<1>4. ASSUME NEW s \in 1..Len(cd2) PROVE IsSeq(cd2[s])
  <2>1. CASE s \in 1..Len(cd)
    BY <1>2, <2>1 DEF Lists
  <2>2. CASE s = Len(cd) + 1
    BY <1>2, <2>2, ShortSeqs
  <2> QED
    BY <1>1, <1>2, <2>1, <2>2
<1> QED
  BY <1>2, <1>3, <1>4 DEF Lists

\* newStatment: the new statement starts where the last one ends.
LEMMA StaticStatement ==
    ASSUME NEW cd, NEW mk, NEW c, NEW p, NEW G, NEW q, NEW t, NEW m,
           Static(cd, mk, c, p, G, q, t, m), NEW u, EntryOK(u, c), BeginFits(t, u)
    PROVE  \E p2 : Static(Append(cd, <<>>), mk, c, p2, G, q, u, m)
<1> DEFINE L == Len(cd)
           p2 == Put(p, <<L + 1, 1>>, u)
           cd2 == Append(cd, <<>>)
<1>1. /\ L \in Nat /\ Lists(cd) /\ \A s \in 1..L : Len(cd[s]) \in Nat
  BY ListFacts DEF Static
<1>2. /\ Lists(cd2) /\ Len(cd2) = L + 1 /\ cd2 # <<>> /\ cd2[L + 1] = <<>>
      /\ \A s \in 1..L : cd2[s] = cd[s]
  BY <1>1, Started
<1>3. /\ Enter(t, u) /\ u.open /\ u.n = t.n + 1 /\ t.waits \subseteq u.waits /\ t.inner = {}
      /\ t.n \in Nat
  BY DEF BeginFits, Static, EntryOK
<1>4. /\ CodeFits(cd, mk, p2, G, L + 1, m) /\ Ends(cd, p2, L + 1)
      /\ Sub(q, p2[<<1, 1>>]) /\ p2[<<L + 1, 1>>] = u
      /\ \A s \in 1..LastTo(cd, t) : Sub(p[<<s, 1>>], p2[<<s, 1>>])
  BY <1>3, Land
<1>5. LastTo(cd2, u) = L + 1 /\ Spot(cd2, u) = <<L + 1, 1>>
  BY <1>2, <1>3 DEF LastTo, Spot
<1>6. LastTo(cd, t) \in Nat /\ LastTo(cd, t) <= L + 1
  BY <1>1 DEF LastTo
<1> HIDE DEF p2, cd2
<1>7. CodeFits(cd2, mk, p2, G, L + 1, m)
  <2> SUFFICES ASSUME NEW s \in 1..Len(cd2), NEW i \in 1..Len(cd2[s])
               PROVE  \/ PlainFits(cd2[s][i], p2[<<s, i>>], p2[<<s, i + 1>>], m)
                      \/ /\ cd2[s][i].op2 = Undefined
                         /\ Pending(mk, G, <<s, i>>, cd2[s][i], p2[<<s, i>>], p2[<<s, i + 1>>])
                      \/ /\ cd2[s][i].op2 # Undefined
                         /\ JumpsTo(cd2, p2, s, cd2[s][i], p2[<<s, i>>], p2[<<s, i + 1>>], L + 1)
    BY DEF CodeFits
  <2>1. s \in 1..L
    <3>1. s # L + 1
      BY <1>2
    <3> QED
      BY <1>1, <1>2, <3>1
  <2>2. cd2[s] = cd[s]
    BY <1>2, <2>1
  <2> QED
    BY <1>4, <2>1, <2>2 DEF CodeFits, JumpsTo
<1>8. Ends(cd2, p2, L + 1)
  <2> SUFFICES ASSUME NEW s \in 1..Len(cd2), s + 1 <= L + 1
               PROVE  Enter(p2[<<s, Len(cd2[s]) + 1>>], p2[<<s + 1, 1>>])
    BY DEF Ends
  <2>1. s \in 1..L
    BY <1>1, <1>2
  <2>2. cd2[s] = cd[s]
    BY <1>2, <2>1
  <2> QED
    BY <1>4, <2>1, <2>2 DEF Ends
<1>9. MarksFit(mk, cd2, p2, G, u)
  <2>1. MarksFit(mk, cd, p, G, t)
    BY DEF Static
  <2>2. ASSUME NEW k \in mk PROVE MarkFits(k, cd2, p2, G, u)
    <3>1. MarkFits(k, cd, p, G, t)
      BY <2>1 DEF MarksFit
    <3>2. CASE G[k.var].lands = "back"
      <4>1. PICK s \in 1..LastTo(cd, t) :
               /\ k.at = <<s, 0>> /\ k.var \in t.waits
               /\ Sub(G[k.var], p[<<s, 1>>])
               /\ G[k.var].n \in Nat /\ t.n + s <= L + 1 + G[k.var].n
        BY <3>1, <3>2 DEF MarkFits
      <4>2. Sub(G[k.var], p2[<<s, 1>>])
        BY <1>4, <4>1, SubTrans
      <4>3. u.n + s <= Len(cd2) + 1 + G[k.var].n /\ s \in 1..LastTo(cd2, u)
        BY <1>1, <1>2, <1>3, <1>5, <1>6, <4>1
      <4> QED
        BY <1>3, <3>1, <3>2, <4>1, <4>2, <4>3 DEF MarkFits
    <3>3. CASE G[k.var].lands # "back"
      <4>1. PICK s \in 1..L : \E i \in 1..Len(cd[s]) :
               /\ k.at = <<s, i>>
               /\ \E op \in JumpOps : cd[s][i] = JumpIns(op)
               /\ IF G[k.var].lands = "here" THEN s = L /\ k.var \in t.inner
                  ELSE k.var \in t.waits
        BY <3>1, <3>3 DEF MarkFits
      <4>2. s \in 1..Len(cd2) /\ cd2[s] = cd[s]
        BY <1>1, <1>2
      <4> QED
        BY <1>3, <3>1, <3>3, <4>1, <4>2 DEF MarkFits
    <3> QED
      BY <3>2, <3>3
  <2> QED
    BY <2>1, <2>2 DEF MarksFit
<1>10. Static(cd2, mk, c, p2, G, q, u, m)
  BY <1>2, <1>3, <1>4, <1>5, <1>7, <1>8, <1>9 DEF Static
<1> QED
  BY <1>10 DEF cd2

\* A loop starts.
LEMMA StaticStart ==
    ASSUME NEW cd, NEW mk, NEW c, NEW p, NEW G, NEW q, NEW t, NEW m,
           Static(cd, mk, c, p, G, q, t, m), NEW x, NEW u, EntryOK(u, c), StartFits(x, t, u, G)
    PROVE  \E p2 : Static(cd, mk \cup {[var |-> x, at |-> <<Len(cd) + 1, 0>>]}, c, p2, G, q, u, m)
<1> DEFINE L == Len(cd)
           p2 == Put(p, <<L + 1, 1>>, u)
           new == [var |-> x, at |-> <<L + 1, 0>>]
           mk2 == mk \cup {new}
<1>1. /\ L \in Nat /\ Lists(cd) /\ \A s \in 1..L : Len(cd[s]) \in Nat
  BY ListFacts DEF Static
<1>2. /\ G[x].lands = "back" /\ G[x].n \in Nat /\ t.n <= G[x].n
      /\ Enter(t, u) /\ Sub(G[x], u)
      /\ ~u.open /\ u.n <= t.n /\ t.inner = {}
      /\ x \notin t.waits /\ t.waits \cup {x} \subseteq u.waits
      /\ t.n \in Nat /\ u.n \in Nat
  BY DEF StartFits, Static, EntryOK
<1>3. /\ CodeFits(cd, mk, p2, G, L + 1, m) /\ Ends(cd, p2, L + 1)
      /\ Sub(q, p2[<<1, 1>>]) /\ p2[<<L + 1, 1>>] = u
      /\ \A s \in 1..LastTo(cd, t) : Sub(p[<<s, 1>>], p2[<<s, 1>>])
  BY <1>2, Land
<1>4. LastTo(cd, u) = L + 1 /\ Spot(cd, u) = <<L + 1, 1>>
  BY <1>2 DEF LastTo, Spot
<1>5. LastTo(cd, t) \in Nat /\ LastTo(cd, t) <= L + 1
  BY <1>1 DEF LastTo
<1>6. MarksFit(mk, cd, p, G, t)
  BY DEF Static
<1>7. new.var = x /\ new.at = <<L + 1, 0>> /\ new = [var |-> new.var, at |-> new.at]
  OBVIOUS
<1> HIDE DEF p2, new
<1>8. CodeFits(cd, mk2, p2, G, L + 1, m)
  <2>1. \A s \in 1..L : \A i \in 1..Len(cd[s]) : new.at # <<s, i>>
    BY <1>7
  <2> QED
    BY <1>3, <2>1 DEF CodeFits, Pending
<1>9. ASSUME NEW k \in mk PROVE MarkFits(k, cd, p2, G, u) /\ (G[k.var].lands = "back" => k.var # x)
  <2>1. MarkFits(k, cd, p, G, t)
    BY <1>6 DEF MarksFit
  <2>2. CASE G[k.var].lands = "back"
    <3>1. PICK s \in 1..LastTo(cd, t) :
             /\ k.at = <<s, 0>> /\ k.var \in t.waits
             /\ Sub(G[k.var], p[<<s, 1>>])
             /\ G[k.var].n \in Nat /\ t.n + s <= L + 1 + G[k.var].n
      BY <2>1, <2>2 DEF MarkFits
    <3>2. Sub(G[k.var], p2[<<s, 1>>])
      BY <1>3, <3>1, SubTrans
    <3>3. u.n + s <= L + 1 + G[k.var].n /\ s \in 1..LastTo(cd, u)
      <4>1. s \in Nat /\ s \in 1..(L + 1)
        BY <1>1, <1>5
      <4> QED
        BY <1>1, <1>2, <1>4, <3>1, <4>1
    <3> QED
      BY <1>2, <2>1, <2>2, <3>1, <3>2, <3>3 DEF MarkFits
  <2>3. CASE G[k.var].lands # "back"
    BY <1>2, <2>1, <2>3 DEF MarkFits
  <2> QED
    BY <2>2, <2>3
<1>10. MarkFits(new, cd, p2, G, u)
  <2>1. L + 1 \in 1..LastTo(cd, u) /\ u.n + (L + 1) <= L + 1 + G[x].n
    BY <1>1, <1>2, <1>4
  <2> QED
    BY <1>2, <1>3, <1>7, <2>1 DEF MarkFits
<1>11. MarksFit(mk2, cd, p2, G, u)
  <2>1. \A k \in mk2 : MarkFits(k, cd, p2, G, u)
    BY <1>9, <1>10
  <2>2. ASSUME NEW k \in mk PROVE ~(k.at = new.at /\ k.at[2] # 0)
    BY <1>7
  <2> QED
    BY <1>2, <1>6, <1>7, <1>9, <2>1, <2>2 DEF MarksFit
<1>12. Static(cd, mk2, c, p2, G, q, u, m)
  BY <1>1, <1>2, <1>3, <1>4, <1>8, <1>11 DEF Static
<1> QED
  BY <1>12 DEF new

\* A function from 1..L is a list of L.
LEMMA FunctionIsSeq ==
    ASSUME NEW L \in Nat, NEW f, f = [i \in 1..L |-> f[i]]
    PROVE  IsSeq(f) /\ Len(f) = L
<1> DEFINE S == {f[i] : i \in 1..L}
<1>1. f \in [1..L -> S]
  OBVIOUS
<1>2. f \in Seq(S)
  BY <1>1
<1>3. DOMAIN f = 1..L
  OBVIOUS
<1>4. Len(f) = L
  BY <1>2, <1>3
<1> QED
  BY <1>2, <1>4 DEF IsSeq

\* The code after Lead.
Led(cd, mk, x, op1, op2) ==
    [s \in DOMAIN cd |-> [i \in DOMAIN cd[s] |->
        IF [var |-> x, at |-> <<s, i>>] \in mk
        THEN [cd[s][i] EXCEPT !.op1 = op1, !.op2 = op2]
        ELSE cd[s][i]]]

\* What is used of it.
IsLed(cd2, cd, mk, x, op1, op2) ==
    /\ Lists(cd2) /\ Len(cd2) = Len(cd)
    /\ \A s \in 1..Len(cd) :
          /\ Len(cd2[s]) = Len(cd[s])
          /\ \A i \in 1..Len(cd[s]) :
                cd2[s][i] = IF [var |-> x, at |-> <<s, i>>] \in mk
                            THEN [cd[s][i] EXCEPT !.op1 = op1, !.op2 = op2]
                            ELSE cd[s][i]

\* Leading jumps somewhere changes their operands only.
LEMMA LedFacts ==
    ASSUME NEW cd, Lists(cd), NEW mk, NEW x, NEW op1, NEW op2
    PROVE  IsLed(Led(cd, mk, x, op1, op2), cd, mk, x, op1, op2)
<1> DEFINE cd2 == Led(cd, mk, x, op1, op2)
<1>1. /\ IsSeq(cd) /\ Len(cd) \in Nat
      /\ \A s \in 1..Len(cd) : Len(cd[s]) \in Nat /\ IsSeq(cd[s])
  BY ListFacts
<1>2. DOMAIN cd = 1..Len(cd) /\ \A s \in 1..Len(cd) : DOMAIN cd[s] = 1..Len(cd[s])
  BY <1>1, Joined
<1>3. cd2 = [s \in 1..Len(cd) |-> cd2[s]]
  BY <1>2 DEF Led
<1>4. IsSeq(cd2) /\ Len(cd2) = Len(cd)
  BY <1>1, <1>3, FunctionIsSeq
<1>5. ASSUME NEW s \in 1..Len(cd)
      PROVE  /\ IsSeq(cd2[s]) /\ Len(cd2[s]) = Len(cd[s])
             /\ \A i \in 1..Len(cd[s]) :
                   cd2[s][i] = IF [var |-> x, at |-> <<s, i>>] \in mk
                               THEN [cd[s][i] EXCEPT !.op1 = op1, !.op2 = op2]
                               ELSE cd[s][i]
  <2>1. cd2[s] = [i \in 1..Len(cd[s]) |->
                     IF [var |-> x, at |-> <<s, i>>] \in mk
                     THEN [cd[s][i] EXCEPT !.op1 = op1, !.op2 = op2]
                     ELSE cd[s][i]]
    BY <1>2 DEF Led
  <2> DEFINE f == cd2[s]
  <2>2. f = [i \in 1..Len(cd[s]) |-> f[i]]
    BY <2>1
  <2> HIDE DEF f
  <2>3. IsSeq(f) /\ Len(f) = Len(cd[s])
    BY <1>1, <2>2, FunctionIsSeq
  <2> QED
    BY <2>1, <2>3 DEF f
<1> QED
  BY <1>4, <1>5 DEF Lists, IsLed

\* Jumps get a target whose point holds where they were to lead.
LEMMA LedFits ==
    ASSUME NEW cd, Lists(cd), NEW mk, NEW p, NEW p2, NEW G, NEW t, NEW m, NEW last,
           CodeFits(cd, mk, p2, G, last, m), MarksFit(mk, cd, p, G, t),
           NEW x, NEW op1, NEW op2, op2 # Undefined,
           \A s \in 1..Len(cd) : \A i \in 1..Len(cd[s]) :
              [var |-> x, at |-> <<s, i>>] \in mk =>
                 IF G[x].lands = "here"
                 THEN op2 = s /\ op1 \in 1..Len(cd[s]) /\ Sub(G[x], p2[<<s, op1 + 1>>])
                 ELSE op2 # s /\ op2 \in 1..last /\ Sub(G[x], p2[<<op2, 1>>]),
           NEW cd2, cd2 = Led(cd, mk, x, op1, op2),
           NEW mk2, mk2 = {k \in mk : k.var # x}
    PROVE  CodeFits(cd2, mk2, p2, G, last, m)
<1>1. /\ Lists(cd2) /\ Len(cd2) = Len(cd)
      /\ \A s \in 1..Len(cd) :
            /\ Len(cd2[s]) = Len(cd[s])
            /\ \A i \in 1..Len(cd[s]) :
                  cd2[s][i] = IF [var |-> x, at |-> <<s, i>>] \in mk
                              THEN [cd[s][i] EXCEPT !.op1 = op1, !.op2 = op2]
                              ELSE cd[s][i]
  <2>1. IsLed(Led(cd, mk, x, op1, op2), cd, mk, x, op1, op2)
    BY LedFacts
  <2> QED
    BY <2>1 DEF IsLed
<1> SUFFICES ASSUME NEW s \in 1..Len(cd2), NEW i \in 1..Len(cd2[s])
             PROVE  \/ PlainFits(cd2[s][i], p2[<<s, i>>], p2[<<s, i + 1>>], m)
                    \/ /\ cd2[s][i].op2 = Undefined
                       /\ Pending(mk2, G, <<s, i>>, cd2[s][i], p2[<<s, i>>], p2[<<s, i + 1>>])
                    \/ /\ cd2[s][i].op2 # Undefined
                       /\ JumpsTo(cd2, p2, s, cd2[s][i], p2[<<s, i>>], p2[<<s, i + 1>>], last)
  BY DEF CodeFits
<1>2. s \in 1..Len(cd) /\ i \in 1..Len(cd[s]) /\ Len(cd2[s]) = Len(cd[s])
  BY <1>1
<1> DEFINE new == [var |-> x, at |-> <<s, i>>]
           ins == cd[s][i]
           a == p2[<<s, i>>]
           b == p2[<<s, i + 1>>]
<1>3. \/ PlainFits(ins, a, b, m)
      \/ ins.op2 = Undefined /\ Pending(mk, G, <<s, i>>, ins, a, b)
      \/ ins.op2 # Undefined /\ JumpsTo(cd, p2, s, ins, a, b, last)
  BY <1>2 DEF CodeFits
<1>4. CASE new \in mk
  <2>1. MarkFits(new, cd, p, G, t) /\ new.var = x /\ new.at = <<s, i>>
    BY <1>4 DEF MarksFit
  <2>2. PICK op \in JumpOps : ins = JumpIns(op)
    <3>1. G[x].lands # "back"
      <4> SUFFICES ASSUME G[x].lands = "back" PROVE FALSE
        OBVIOUS
      <4>1. PICK z \in 1..LastTo(cd, t) : <<s, i>> = <<z, 0>>
        BY <2>1 DEF MarkFits
      <4>2. i = 0
        BY <4>1
      <4> QED
        BY <1>2, <4>2, ListFacts
    <3>2. PICK z \in 1..Len(cd) : \E j \in 1..Len(cd[z]) :
             <<s, i>> = <<z, j>> /\ \E op \in JumpOps : cd[z][j] = JumpIns(op)
      BY <2>1, <3>1 DEF MarkFits
    <3> QED
      BY <3>2
  <2>3. /\ ins.op = op /\ ins.op2 = Undefined
        /\ cd2[s][i] = [op |-> op, op1 |-> op1, op2 |-> op2]
        /\ cd2[s][i].op = op /\ cd2[s][i].op1 = op1 /\ cd2[s][i].op2 = op2
    <3>1. ins = [op |-> op, op1 |-> Undefined, op2 |-> Undefined]
      BY <2>2 DEF JumpIns
    <3>2. cd2[s][i] = [ins EXCEPT !.op1 = op1, !.op2 = op2]
      BY <1>1, <1>2, <1>4
    <3>3. cd2[s][i] = [op |-> op, op1 |-> op1, op2 |-> op2]
      <4> HIDE DEF ins
      <4> QED
        BY <3>1, <3>2
    <3> QED
      BY <3>1, <3>3
  <2>4. JumpFits(op, a, b, G[x], G[x].lands = "here")
    <3>1. PlainOps \cap JumpOps = {}
      BY DEF PlainOps, JumpOps
    <3>2. Pending(mk, G, <<s, i>>, ins, a, b)
      BY <1>3, <2>3, <3>1 DEF PlainFits
    <3> QED
      BY <1>4, <2>1, <2>3, <3>2 DEF Pending
  <2> HIDE DEF a, b
  <2>5. CASE G[x].lands = "here"
    <3>1. op2 = s /\ op1 \in 1..Len(cd[s]) /\ Sub(G[x], p2[<<s, op1 + 1>>])
      BY <1>2, <1>4, <2>5
    <3> DEFINE y == p2[<<s, op1 + 1>>]
               w == G[x]
    <3>2. JumpFits(op, a, b, y, TRUE)
      <4>1. JumpFits(op, a, b, w, TRUE) /\ Sub(w, y)
        BY <2>4, <2>5, <3>1
      <4> HIDE DEF y, w
      <4> QED
        BY <4>1, JumpSub, SubSelf
    <3>3. JumpsTo(cd2, p2, s, cd2[s][i], a, b, last)
      BY <1>2, <2>3, <3>1, <3>2 DEF JumpsTo
    <3> QED
      BY <2>3, <3>3 DEF a, b
  <2>6. CASE G[x].lands # "here"
    <3>1. op2 # s /\ op2 \in 1..last /\ Sub(G[x], p2[<<op2, 1>>])
      BY <1>2, <1>4, <2>6
    <3> DEFINE y == p2[<<op2, 1>>]
               w == G[x]
    <3>2. JumpFits(op, a, b, y, FALSE)
      <4>1. JumpFits(op, a, b, w, FALSE) /\ Sub(w, y)
        BY <2>4, <2>6, <3>1
      <4> HIDE DEF y, w
      <4> QED
        BY <4>1, JumpSub, SubSelf
    <3>3. JumpsTo(cd2, p2, s, cd2[s][i], a, b, last)
      BY <2>3, <3>1, <3>2 DEF JumpsTo
    <3> QED
      BY <2>3, <3>3 DEF a, b
  <2> QED
    BY <2>5, <2>6
<1>5. CASE new \notin mk
  <2>1. cd2[s][i] = ins
    BY <1>1, <1>2, <1>5
  <2> HIDE DEF a, b, ins
  <2>2. CASE PlainFits(ins, a, b, m)
    BY <2>1, <2>2 DEF a, b
  <2>3. CASE ins.op2 = Undefined /\ Pending(mk, G, <<s, i>>, ins, a, b)
    <3>1. \A k \in mk : k.at = <<s, i>> => k.var # x
      <4> SUFFICES ASSUME NEW k \in mk, k.at = <<s, i>>, k.var = x PROVE FALSE
        OBVIOUS
      <4>1. k = [var |-> k.var, at |-> k.at]
        BY DEF MarksFit, MarkFits
      <4> QED
        BY <1>5, <4>1
    <3>2. Pending(mk2, G, <<s, i>>, ins, a, b)
      BY <2>3, <3>1 DEF Pending
    <3> QED
      BY <2>1, <2>3, <3>2 DEF a, b
  <2>4. CASE ins.op2 # Undefined /\ JumpsTo(cd, p2, s, ins, a, b, last)
    <3>1. JumpsTo(cd2, p2, s, ins, a, b, last)
      BY <1>2, <2>4 DEF JumpsTo
    <3> QED
      BY <2>1, <2>4, <3>1 DEF a, b
  <2> QED
    BY <1>3, <2>2, <2>3, <2>4 DEF a, b, ins
<1> QED
  BY <1>4, <1>5

\* The other marks stay.
LEMMA LedMarks ==
    ASSUME NEW cd, Lists(cd), NEW mk, NEW p, NEW p2, NEW G, NEW t, NEW u,
           MarksFit(mk, cd, p, G, t), NEW c, EntryOK(t, c), EntryOK(u, c),
           NEW x, NEW op1, NEW op2, NEW cd2, cd2 = Led(cd, mk, x, op1, op2),
           NEW mk2, mk2 = {k \in mk : k.var # x},
           LastTo(cd, t) \in Nat, LastTo(cd, u) \in Nat, LastTo(cd, t) <= LastTo(cd, u),
           \A s \in 1..LastTo(cd, t) : Sub(p[<<s, 1>>], p2[<<s, 1>>]),
           u.n <= t.n, t.waits \subseteq u.waits \cup {x}, t.inner \subseteq u.inner \cup {x}
    PROVE  MarksFit(mk2, cd2, p2, G, u)
<1>1. /\ Lists(cd2) /\ Len(cd2) = Len(cd)
      /\ \A s \in 1..Len(cd) :
            /\ Len(cd2[s]) = Len(cd[s])
            /\ \A i \in 1..Len(cd[s]) :
                  cd2[s][i] = IF [var |-> x, at |-> <<s, i>>] \in mk
                              THEN [cd[s][i] EXCEPT !.op1 = op1, !.op2 = op2]
                              ELSE cd[s][i]
  <2>1. IsLed(Led(cd, mk, x, op1, op2), cd, mk, x, op1, op2)
    BY LedFacts
  <2> QED
    BY <2>1 DEF IsLed
<1>2. LastTo(cd2, u) = LastTo(cd, u)
  BY <1>1 DEF LastTo
<1>3. t.n \in Nat /\ u.n \in Nat /\ Len(cd) \in Nat
  BY ListFacts DEF EntryOK
<1>4. ASSUME NEW k \in mk, k.var # x PROVE MarkFits(k, cd2, p2, G, u)
  <2>1. MarkFits(k, cd, p, G, t)
    BY DEF MarksFit
  <2>2. CASE G[k.var].lands = "back"
    <3>1. PICK s \in 1..LastTo(cd, t) :
             /\ k.at = <<s, 0>> /\ k.var \in t.waits
             /\ Sub(G[k.var], p[<<s, 1>>])
             /\ G[k.var].n \in Nat /\ t.n + s <= Len(cd) + 1 + G[k.var].n
      BY <2>1, <2>2 DEF MarkFits
    <3>2. Sub(G[k.var], p2[<<s, 1>>])
      BY <3>1, SubTrans
    <3>3. s \in Nat /\ s \in 1..LastTo(cd2, u)
      BY <1>2
    <3>5. Len(cd2) = Len(cd) /\ G[k.var].n \in Nat
      BY <1>1, <3>1
    <3>6. \A z \in Nat : t.n + s <= Len(cd) + 1 + z => u.n + s <= Len(cd) + 1 + z
      BY <1>3, <3>3
    <3>4. u.n + s <= Len(cd2) + 1 + G[k.var].n
      BY <3>1, <3>5, <3>6
    <3> QED
      BY <1>4, <2>1, <2>2, <3>1, <3>2, <3>3, <3>4 DEF MarkFits
  <2>3. CASE G[k.var].lands # "back"
    <3>1. PICK s \in 1..Len(cd) : \E i \in 1..Len(cd[s]) :
               /\ k.at = <<s, i>>
               /\ \E op \in JumpOps : cd[s][i] = JumpIns(op)
               /\ IF G[k.var].lands = "here" THEN s = Len(cd) /\ k.var \in t.inner
                  ELSE k.var \in t.waits
      BY <2>1, <2>3 DEF MarkFits
    <3>2. PICK i \in 1..Len(cd[s]) :
               /\ k.at = <<s, i>>
               /\ \E op \in JumpOps : cd[s][i] = JumpIns(op)
               /\ IF G[k.var].lands = "here" THEN s = Len(cd) /\ k.var \in t.inner
                  ELSE k.var \in t.waits
      BY <3>1
    <3>3. [var |-> x, at |-> <<s, i>>] \notin mk
      <4> DEFINE new == [var |-> x, at |-> <<s, i>>]
      <4> SUFFICES ASSUME new \in mk PROVE FALSE
        OBVIOUS
      <4>1. new.at = k.at /\ k.at[2] # 0 /\ new.var = x
        BY <3>2
      <4> HIDE DEF new
      <4>2. k = new
        BY <4>1 DEF MarksFit
      <4> QED
        BY <1>4, <4>1, <4>2
    <3>4. s \in 1..Len(cd2) /\ i \in 1..Len(cd2[s]) /\ cd2[s][i] = cd[s][i]
      BY <1>1, <3>3
    <3>5. IF G[k.var].lands = "here" THEN s = Len(cd2) /\ k.var \in u.inner ELSE k.var \in u.waits
      BY <1>1, <1>4, <3>2
    <3> QED
      BY <2>1, <2>3, <3>2, <3>4, <3>5 DEF MarkFits
  <2> QED
    BY <2>2, <2>3
<1> QED
  BY <1>4 DEF MarksFit

\* The marks that are left when the jumps of x have a target.
Freed(mk, x) == {k \in mk : k.var # x}

\* The jumps to a variable are led to the next statement, that they were to
\* reach.
LEMMA StaticNext ==
    ASSUME NEW cd, NEW mk, NEW c, NEW p, NEW G, NEW q, NEW t, NEW m,
           Static(cd, mk, c, p, G, q, t, m), NEW x, NEW u, EntryOK(u, c), NextFits(x, t, u, G),
           NEW cd2, cd2 = Led(cd, mk, x, Undefined, Len(cd) + 1),
           NEW mk2, mk2 = Freed(mk, x)
    PROVE  \E p2 : Static(cd2, mk2, c, p2, G, q, u, m)
<1> DEFINE L == Len(cd)
           p2 == Put(p, <<L + 1, 1>>, u)
<1>1. /\ L \in Nat /\ Lists(cd) /\ \A s \in 1..L : Len(cd[s]) \in Nat
  BY ListFacts DEF Static
<1>2. /\ G[x].lands = "next" /\ Enter(t, u) /\ Sub(G[x], u)
      /\ ~u.open /\ u.n <= t.n /\ t.inner = {}
      /\ t.waits \subseteq u.waits \cup {x}
  BY DEF NextFits
<1>3. /\ CodeFits(cd, mk, p2, G, L + 1, m) /\ Ends(cd, p2, L + 1)
      /\ Sub(q, p2[<<1, 1>>]) /\ p2[<<L + 1, 1>>] = u
      /\ \A s \in 1..LastTo(cd, t) : Sub(p[<<s, 1>>], p2[<<s, 1>>])
  BY <1>2, Land
<1>4. LastTo(cd, u) = L + 1
  BY <1>2 DEF LastTo
<1>5. LastTo(cd, t) \in Nat /\ LastTo(cd, t) <= L + 1
  BY <1>1 DEF LastTo
<1>6. /\ MarksFit(mk, cd, p, G, t) /\ EntryOK(t, c)
  BY DEF Static
<1> HIDE DEF p2
<1>7. /\ Lists(cd2) /\ Len(cd2) = L /\ \A s \in 1..L : Len(cd2[s]) = Len(cd[s])
  <2>1. IsLed(cd2, cd, mk, x, Undefined, L + 1)
    BY <1>1, LedFacts
  <2> QED
    BY <2>1 DEF IsLed
<1>8. MarksFit(mk2, cd2, p2, G, u)
  <2>1. LastTo(cd, u) \in Nat /\ LastTo(cd, t) <= LastTo(cd, u)
    BY <1>1, <1>4, <1>5
  <2>2. t.inner \subseteq u.inner \cup {x}
    BY <1>2
  <2> QED
    BY <1>1, <1>2, <1>3, <1>5, <1>6, <2>1, <2>2, LedMarks DEF Freed
<1>9. CodeFits(cd2, mk2, p2, G, L + 1, m)
  <2>1. L + 1 # Undefined
    BY <1>1 DEF Undefined
  <2>2. \A s \in 1..L : \A i \in 1..Len(cd[s]) :
           [var |-> x, at |-> <<s, i>>] \in mk =>
              IF G[x].lands = "here"
              THEN L + 1 = s /\ Undefined \in 1..Len(cd[s]) /\ Sub(G[x], p2[<<s, Undefined + 1>>])
              ELSE L + 1 # s /\ L + 1 \in 1..(L + 1) /\ Sub(G[x], p2[<<L + 1, 1>>])
    BY <1>1, <1>2, <1>3
  <2> QED
    BY <1>1, <1>3, <1>6, <2>1, <2>2, LedFits DEF Freed
<1>10. Ends(cd2, p2, L + 1)
  BY <1>3, <1>7 DEF Ends
<1>11. LastTo(cd2, u) = L + 1 /\ Spot(cd2, u) = <<L + 1, 1>>
  BY <1>2, <1>7 DEF LastTo, Spot
<1>12. Static(cd2, mk2, c, p2, G, q, u, m)
  BY <1>2, <1>3, <1>7, <1>8, <1>9, <1>10, <1>11 DEF Static
<1> QED
  BY <1>12

\* Those within a statement are led to the place behind its last
\* instruction.
LEMMA StaticHere ==
    ASSUME NEW cd, NEW mk, NEW c, NEW p, NEW G, NEW q, NEW t, NEW m,
           Static(cd, mk, c, p, G, q, t, m), NEW x, NEW u, EntryOK(u, c), HereFits(x, t, u, G),
           NEW cd2, cd2 = Led(cd, mk, x, Len(cd[Len(cd)]), Len(cd)),
           NEW mk2, mk2 = Freed(mk, x)
    PROVE  \E p2 : Static(cd2, mk2, c, p2, G, q, u, m)
<1> DEFINE L == Len(cd)
           N == Len(cd[L])
           p2 == Put(p, Spot(cd, t), u)
<1>1. /\ L \in Nat /\ L \in 1..L /\ Lists(cd) /\ \A s \in 1..L : Len(cd[s]) \in Nat
  BY ListFacts DEF Static, HereFits
<1>2. /\ G[x].lands = "here" /\ Sub(t, u) /\ Sub(G[x], u)
      /\ t.open /\ u.open /\ u.n <= t.n /\ t.open = u.open
      /\ t.waits \subseteq u.waits /\ t.inner \subseteq u.inner \cup {x}
  BY DEF HereFits, Static, EntryOK
<1>3. /\ CodeFits(cd, mk, p2, G, LastTo(cd, t), m) /\ Ends(cd, p2, LastTo(cd, t))
      /\ Sub(q, p2[<<1, 1>>]) /\ p2[Spot(cd, t)] = u
      /\ \A s \in 1..LastTo(cd, t) : Sub(p[<<s, 1>>], p2[<<s, 1>>])
  <2>1. Sub(t, u) /\ t.open = u.open
    BY <1>2
  <2> QED
    BY ONLY <2>1, WeakenPlan, Static(cd, mk, c, p, G, q, t, m)
<1>4. LastTo(cd, t) = L /\ LastTo(cd, u) = L /\ Spot(cd, t) = <<L, N + 1>>
  BY <1>2 DEF LastTo, Spot
<1>6. /\ MarksFit(mk, cd, p, G, t) /\ EntryOK(t, c)
  BY DEF Static
<1> HIDE DEF p2
<1>7. /\ Lists(cd2) /\ Len(cd2) = L /\ \A s \in 1..L : Len(cd2[s]) = Len(cd[s])
  <2>1. IsLed(cd2, cd, mk, x, N, L)
    BY <1>1, LedFacts
  <2> QED
    BY <2>1 DEF IsLed
<1>8. MarksFit(mk2, cd2, p2, G, u)
  <2>1. LastTo(cd, t) \in Nat /\ LastTo(cd, u) \in Nat /\ LastTo(cd, t) <= LastTo(cd, u)
    BY <1>1, <1>4
  <2>2. t.waits \subseteq u.waits \cup {x}
    BY <1>2
  <2> QED
    BY <1>1, <1>2, <1>3, <1>6, <2>1, <2>2, LedMarks DEF Freed
<1>9. CodeFits(cd2, mk2, p2, G, L, m)
  <2>1. L # Undefined
    BY <1>1 DEF Undefined
  <2>2. ASSUME NEW s \in 1..L, NEW i \in 1..Len(cd[s]), [var |-> x, at |-> <<s, i>>] \in mk
        PROVE  L = s /\ N \in 1..Len(cd[s]) /\ Sub(G[x], p2[<<s, N + 1>>])
    <3> DEFINE new == [var |-> x, at |-> <<s, i>>]
    <3>1. MarkFits(new, cd, p, G, t) /\ new.var = x /\ new.at = <<s, i>>
      BY <1>6, <2>2 DEF MarksFit
    <3> HIDE DEF new
    <3>2. \E z \in 1..L : \E j \in 1..Len(cd[z]) : <<s, i>> = <<z, j>> /\ z = L
      BY <1>2, <3>1 DEF MarkFits
    <3>3. s = L
      BY <3>2
    <3>4. N \in 1..Len(cd[s])
      BY <1>1, <3>3
    <3> QED
      BY <1>2, <1>3, <1>4, <3>3, <3>4
  <2>3. \A s \in 1..L : \A i \in 1..Len(cd[s]) :
           [var |-> x, at |-> <<s, i>>] \in mk =>
              IF G[x].lands = "here"
              THEN L = s /\ N \in 1..Len(cd[s]) /\ Sub(G[x], p2[<<s, N + 1>>])
              ELSE L # s /\ L \in 1..L /\ Sub(G[x], p2[<<L, 1>>])
    BY <1>2, <2>2
  <2>4. CodeFits(cd, mk, p2, G, L, m)
    BY <1>3, <1>4
  <2> QED
    BY <1>1, <1>6, <2>1, <2>3, <2>4, LedFits DEF Freed
<1>10. Ends(cd2, p2, L)
  BY <1>3, <1>4, <1>7 DEF Ends
<1>11. LastTo(cd2, u) = L /\ Spot(cd2, u) = <<L, N + 1>> /\ cd2 # <<>>
  <2>1. cd2 # <<>>
    BY <1>1, <1>7
  <2> QED
    BY <1>1, <1>2, <1>7, <2>1 DEF LastTo, Spot
<1>12. Static(cd2, mk2, c, p2, G, q, u, m)
  BY <1>3, <1>4, <1>7, <1>8, <1>9, <1>10, <1>11 DEF Static
<1> QED
  BY <1>12

\* The code after Add.
Added(cd, ins) == [cd EXCEPT ![Len(cd)] = Append(@, ins)]

\* What is used of it.
IsAdded(cd2, cd, ins) ==
    /\ Lists(cd2) /\ Len(cd2) = Len(cd) /\ cd2 # <<>>
    /\ \A s \in 1..Len(cd) : s # Len(cd) => cd2[s] = cd[s]
    /\ Len(cd2[Len(cd)]) = Len(cd[Len(cd)]) + 1
    /\ \A i \in 1..Len(cd[Len(cd)]) : cd2[Len(cd)][i] = cd[Len(cd)][i]
    /\ cd2[Len(cd)][Len(cd[Len(cd)]) + 1] = ins

\* The code after one more instruction in the last statement.
LEMMA AddedFacts ==
    ASSUME NEW cd, Lists(cd), cd # <<>>, NEW ins
    PROVE  IsAdded(Added(cd, ins), cd, ins)
<1> DEFINE L == Len(cd)
           cd2 == Added(cd, ins)
<1>1. /\ IsSeq(cd) /\ L \in Nat /\ L \in 1..L
      /\ \A s \in 1..L : Len(cd[s]) \in Nat /\ IsSeq(cd[s])
  BY ListFacts
<1>2. DOMAIN cd = 1..L
  BY <1>1, Joined
<1>3. cd2 = [s \in 1..L |-> IF s = L THEN Append(cd[L], ins) ELSE cd[s]]
  BY <1>1, <1>2 DEF Added
<1>4. cd2 = [s \in 1..L |-> cd2[s]]
  BY <1>3
<1> HIDE DEF cd2
<1>5. IsSeq(cd2) /\ Len(cd2) = L
  BY <1>1, <1>4, FunctionIsSeq
<1>6. cd2[L] = Append(cd[L], ins) /\ \A s \in 1..L : s # L => cd2[s] = cd[s]
  BY <1>1, <1>3
<1>7. /\ IsSeq(cd2[L]) /\ Len(cd2[L]) = Len(cd[L]) + 1 /\ cd2[L][Len(cd[L]) + 1] = ins
      /\ \A i \in 1..Len(cd[L]) : cd2[L][i] = cd[L][i]
  BY <1>1, <1>6, Pushed
<1>8. cd2 # <<>>
  BY <1>1, <1>5
<1>9. Lists(cd2)
  BY <1>1, <1>5, <1>6, <1>7 DEF Lists
<1> QED
  BY <1>5, <1>6, <1>7, <1>8, <1>9 DEF IsAdded, cd2

\* How an instruction fits at the end of the code.
Last(ins, cd, mk, p, G, t, u, m) ==
    \/ PlainFits(ins, t, u, m)
    \/ ins.op2 = Undefined /\ Pending(mk, G, <<Len(cd), Len(cd[Len(cd)]) + 1>>, ins, t, u)
    \/ /\ ins.op2 # Undefined /\ ins.op2 \in 1..(Len(cd) - 1)
       /\ JumpFits(ins.op, t, u, p[<<ins.op2, 1>>], FALSE)

\* The same jumps have marks, but for one place.
SameMarks(mk, mk2, at) == \A k : k.at[2] # 0 /\ k.at # at => (k \in mk2 <=> k \in mk)

\* The plan of the code with one more instruction.
LEMMA Grown ==
    ASSUME NEW cd, NEW mk, NEW c, NEW p, NEW G, NEW q, NEW t, NEW m,
           Static(cd, mk, c, p, G, q, t, m), t.open,
           NEW u, u.open, NEW ins, NEW mk2, Last(ins, cd, mk2, p, G, t, u, m),
           SameMarks(mk, mk2, <<Len(cd), Len(cd[Len(cd)]) + 1>>),
           NEW cd2, cd2 = Added(cd, ins),
           NEW p2, p2 = Put(p, <<Len(cd), Len(cd[Len(cd)]) + 2>>, u)
    PROVE  /\ IsAdded(cd2, cd, ins)
           /\ Spot(cd2, u) = <<Len(cd), Len(cd[Len(cd)]) + 2>> /\ p2[Spot(cd2, u)] = u
           /\ LastTo(cd2, u) = Len(cd) /\ LastTo(cd, t) = Len(cd)
           /\ CodeFits(cd2, mk2, p2, G, Len(cd), m)
           /\ Ends(cd2, p2, Len(cd))
           /\ Sub(q, p2[<<1, 1>>])
           /\ \A s \in 1..Len(cd) : p2[<<s, 1>>] = p[<<s, 1>>]
<1> DEFINE L == Len(cd)
           N == Len(cd[L])
           z == <<L, N + 2>>
<1>1. /\ Lists(cd) /\ cd # <<>> /\ L \in Nat /\ L \in 1..L /\ N \in Nat
      /\ \A s \in 1..L : Len(cd[s]) \in Nat
  BY ListFacts DEF Static
<1>2. IsAdded(cd2, cd, ins)
  BY <1>1, AddedFacts
<1>3. /\ Lists(cd2) /\ Len(cd2) = L /\ Len(cd2[L]) = N + 1 /\ cd2[L][N + 1] = ins
      /\ \A s \in 1..L : s # L => cd2[s] = cd[s]
      /\ \A i \in 1..N : cd2[L][i] = cd[L][i]
  BY <1>2 DEF IsAdded
<1>4. LastTo(cd2, u) = L /\ LastTo(cd, t) = L /\ Spot(cd2, u) = z /\ Spot(cd, t) = <<L, N + 1>>
  BY <1>1, <1>3 DEF LastTo, Spot
<1>5. p[<<L, N + 1>>] = t /\ CodeFits(cd, mk, p, G, L, m) /\ Ends(cd, p, L)
      /\ Sub(q, p[<<1, 1>>])
  BY <1>4 DEF Static
<1>6. z \in Nat \X Nat
  BY <1>1
<1>7. p2[z] = u /\ \A y \in Nat \X Nat : y # z => p2[y] = p[y]
  <2>1. Put(p, z, u)[z] = u /\ \A y \in Nat \X Nat : y # z => Put(p, z, u)[y] = p[y]
    <3> HIDE DEF z
    <3> QED
      BY <1>6, PutFacts
  <2> QED
    BY <2>1
<1>8. \A s \in 1..L : \A i \in 1..(Len(cd[s]) + 1) : p2[<<s, i>>] = p[<<s, i>>]
  <2> SUFFICES ASSUME NEW s \in 1..L, NEW i \in 1..(Len(cd[s]) + 1)
               PROVE  p2[<<s, i>>] = p[<<s, i>>]
    OBVIOUS
  <2>1. <<s, i>> \in Nat \X Nat /\ <<s, i>> # z
    BY <1>1
  <2> QED
    BY <1>7, <2>1
<1>9. \A s \in 1..L : p2[<<s, 1>>] = p[<<s, 1>>]
  <2> SUFFICES ASSUME NEW s \in 1..L PROVE p2[<<s, 1>>] = p[<<s, 1>>]
    OBVIOUS
  <2>1. 1 \in 1..(Len(cd[s]) + 1)
    BY <1>1
  <2> QED
    BY <1>8, <2>1
<1>10. Sub(q, p2[<<1, 1>>])
  <2>1. 1 \in 1..L
    BY <1>1
  <2> QED
    BY <1>5, <1>9, <2>1
<1>11. Ends(cd2, p2, L)
  <2> SUFFICES ASSUME NEW s \in 1..Len(cd2), s + 1 <= L
               PROVE  Enter(p2[<<s, Len(cd2[s]) + 1>>], p2[<<s + 1, 1>>])
    BY DEF Ends
  <2>1. s \in 1..L /\ s # L /\ s + 1 \in 1..L
    BY <1>1, <1>3
  <2>2. cd2[s] = cd[s] /\ Len(cd[s]) + 1 \in 1..(Len(cd[s]) + 1)
    BY <1>1, <1>3, <2>1
  <2>3. Enter(p[<<s, Len(cd[s]) + 1>>], p[<<s + 1, 1>>])
    BY <1>5, <2>1 DEF Ends
  <2>4. p2[<<s, Len(cd[s]) + 1>>] = p[<<s, Len(cd[s]) + 1>>] /\ p2[<<s + 1, 1>>] = p[<<s + 1, 1>>]
    BY <1>8, <1>9, <2>1, <2>2
  <2> QED
    BY <2>2, <2>3, <2>4
<1>12. CodeFits(cd2, mk2, p2, G, L, m)
  <2> SUFFICES ASSUME NEW s \in 1..Len(cd2), NEW i \in 1..Len(cd2[s])
               PROVE  \/ PlainFits(cd2[s][i], p2[<<s, i>>], p2[<<s, i + 1>>], m)
                      \/ /\ cd2[s][i].op2 = Undefined
                         /\ Pending(mk2, G, <<s, i>>, cd2[s][i], p2[<<s, i>>], p2[<<s, i + 1>>])
                      \/ /\ cd2[s][i].op2 # Undefined
                         /\ JumpsTo(cd2, p2, s, cd2[s][i], p2[<<s, i>>], p2[<<s, i + 1>>], L)
    BY DEF CodeFits
  <2>1. CASE s = L /\ i = N + 1
    <3>1. p2[<<s, i>>] = t /\ p2[<<s, i + 1>>] = u /\ cd2[s][i] = ins
      <4>1. N + 1 \in 1..(N + 1) /\ i + 1 = N + 2
        BY <1>1, <2>1
      <4> QED
        BY <1>1, <1>3, <1>5, <1>7, <1>8, <2>1, <4>1
    <3>2. CASE ins.op2 # Undefined /\ ins.op2 \in 1..(L - 1)
               /\ JumpFits(ins.op, t, u, p[<<ins.op2, 1>>], FALSE)
      <4>1. ins.op2 \in 1..L /\ ins.op2 # L
        BY <1>1, <3>2
      <4>2. JumpFits(ins.op, t, u, p2[<<ins.op2, 1>>], FALSE)
        BY <1>9, <3>2, <4>1
      <4>3. JumpsTo(cd2, p2, s, ins, t, u, L)
        BY <2>1, <4>1, <4>2 DEF JumpsTo
      <4> QED
        BY <3>1, <3>2, <4>3
    <3> QED
      BY <2>1, <3>1, <3>2 DEF Last
  <2>2. CASE ~(s = L /\ i = N + 1)
    <3>1. s \in 1..L /\ i \in 1..Len(cd[s]) /\ cd2[s][i] = cd[s][i]
      <4>1. CASE s = L
        BY <1>1, <1>3, <2>2, <4>1
      <4>2. CASE s # L
        BY <1>3, <4>2
      <4> QED
        BY <4>1, <4>2
    <3>2. p2[<<s, i>>] = p[<<s, i>>] /\ p2[<<s, i + 1>>] = p[<<s, i + 1>>]
      <4>1. i \in 1..(Len(cd[s]) + 1) /\ i + 1 \in 1..(Len(cd[s]) + 1)
        BY <1>1, <3>1, SMTT(30)
      <4> QED
        BY <1>8, <3>1, <4>1
    <3> DEFINE ins2 == cd[s][i]
               a == p[<<s, i>>]
               b == p[<<s, i + 1>>]
    <3>3. \/ PlainFits(ins2, a, b, m)
          \/ ins2.op2 = Undefined /\ Pending(mk, G, <<s, i>>, ins2, a, b)
          \/ ins2.op2 # Undefined /\ JumpsTo(cd, p, s, ins2, a, b, L)
      BY <1>5, <3>1 DEF CodeFits
    <3>4. ASSUME ins2.op2 = Undefined, Pending(mk, G, <<s, i>>, ins2, a, b)
          PROVE  Pending(mk2, G, <<s, i>>, ins2, a, b)
      <4>1. \A k : k.at = <<s, i>> => (k \in mk2 <=> k \in mk)
        <5> SUFFICES ASSUME NEW k, k.at = <<s, i>> PROVE k \in mk2 <=> k \in mk
          OBVIOUS
        <5>1. k.at[2] # 0 /\ k.at # <<L, N + 1>>
          BY <1>1, <2>2, <3>1
        <5> QED
          BY <5>1 DEF SameMarks
      <4> QED
        BY <3>4, <4>1 DEF Pending
    <3>5. ASSUME ins2.op2 # Undefined, JumpsTo(cd, p, s, ins2, a, b, L)
          PROVE  JumpsTo(cd2, p2, s, ins2, a, b, L)
      <4> HIDE DEF ins2, a, b
      <4>1. CASE ins2.op2 = s
        <5>1. ins2.op1 \in 1..Len(cd[s]) /\ JumpFits(ins2.op, a, b, p[<<s, ins2.op1 + 1>>], TRUE)
          BY <3>5, <4>1 DEF JumpsTo
        <5>2. Len(cd[s]) \in Nat /\ Len(cd2[s]) \in {Len(cd[s]), Len(cd[s]) + 1}
          <6>1. CASE s = L
            BY <1>1, <1>3, <6>1
          <6>2. CASE s # L
            BY <1>1, <1>3, <3>1, <6>2
          <6> QED
            BY <6>1, <6>2
        <5>3. ins2.op1 + 1 \in 1..(Len(cd[s]) + 1) /\ ins2.op1 \in 1..Len(cd2[s])
          <6>1. \A h \in Nat : \A o \in 1..h : o + 1 \in 1..(h + 1) /\ o \in 1..(h + 1)
            OBVIOUS
          <6> QED
            BY <5>1, <5>2, <6>1
        <5> QED
          BY <1>8, <3>1, <4>1, <5>1, <5>3 DEF JumpsTo
      <4>2. CASE ins2.op2 # s
        BY <1>9, <3>5, <4>2 DEF JumpsTo
      <4> QED
        BY <4>1, <4>2
    <3> QED
      BY <3>1, <3>2, <3>3, <3>4, <3>5
  <2> QED
    BY <2>1, <2>2
<1> QED
  BY <1>2, <1>4, <1>7, <1>9, <1>10, <1>11, <1>12

\* Marks that stay when an instruction is added.
LEMMA GrownMark ==
    ASSUME NEW cd, NEW cd2, NEW ins, Lists(cd), IsAdded(cd2, cd, ins), cd # <<>>,
           NEW p, NEW p2, NEW G, NEW t, NEW u, NEW k, MarkFits(k, cd, p, G, t),
           \A s \in 1..Len(cd) : p2[<<s, 1>>] = p[<<s, 1>>],
           LastTo(cd2, u) = Len(cd), LastTo(cd, t) = Len(cd),
           t.n \in Nat, u.n \in Nat, u.n <= t.n,
           k.var \in t.waits => k.var \in u.waits, k.var \in t.inner => k.var \in u.inner
    PROVE  /\ MarkFits(k, cd2, p2, G, u)
           /\ k.at # <<Len(cd), Len(cd[Len(cd)]) + 1>>
<1>1. Len(cd) \in Nat /\ \A s \in 1..Len(cd) : Len(cd[s]) \in Nat
  BY ListFacts
<1>2. /\ Len(cd2) = Len(cd) /\ Len(cd2[Len(cd)]) = Len(cd[Len(cd)]) + 1
      /\ \A s \in 1..Len(cd) : s # Len(cd) => cd2[s] = cd[s]
      /\ \A i \in 1..Len(cd[Len(cd)]) : cd2[Len(cd)][i] = cd[Len(cd)][i]
  BY DEF IsAdded
<1>3. CASE G[k.var].lands = "back"
  <2>1. PICK s \in 1..Len(cd) :
             /\ k.at = <<s, 0>> /\ k.var \in t.waits
             /\ Sub(G[k.var], p[<<s, 1>>])
             /\ G[k.var].n \in Nat /\ t.n + s <= Len(cd) + 1 + G[k.var].n
    BY <1>3 DEF MarkFits
  <2>2. \A z \in Nat : t.n + s <= Len(cd) + 1 + z => u.n + s <= Len(cd) + 1 + z
    BY <1>1
  <2>3. u.n + s <= Len(cd2) + 1 + G[k.var].n /\ s \in 1..LastTo(cd2, u) /\ Sub(G[k.var], p2[<<s, 1>>])
    BY <1>2, <2>1, <2>2
  <2>4. k.at # <<Len(cd), Len(cd[Len(cd)]) + 1>>
    <3>1. Len(cd[Len(cd)]) \in Nat
      BY <1>1, ListFacts
    <3> QED
      BY <2>1, <3>1
  <2> QED
    BY <1>3, <2>1, <2>3, <2>4 DEF MarkFits
<1>4. CASE G[k.var].lands # "back"
  <2>1. PICK s \in 1..Len(cd) : \E i \in 1..Len(cd[s]) :
               /\ k.at = <<s, i>>
               /\ \E op \in JumpOps : cd[s][i] = JumpIns(op)
               /\ IF G[k.var].lands = "here" THEN s = Len(cd) /\ k.var \in t.inner
                  ELSE k.var \in t.waits
    BY <1>4 DEF MarkFits
  <2>2. PICK i \in 1..Len(cd[s]) :
               /\ k.at = <<s, i>>
               /\ \E op \in JumpOps : cd[s][i] = JumpIns(op)
               /\ IF G[k.var].lands = "here" THEN s = Len(cd) /\ k.var \in t.inner
                  ELSE k.var \in t.waits
    BY <2>1
  <2>3. s \in 1..Len(cd2) /\ i \in 1..Len(cd2[s]) /\ cd2[s][i] = cd[s][i]
    <3>1. CASE s = Len(cd)
      BY <1>1, <1>2, <3>1
    <3>2. CASE s # Len(cd)
      BY <1>2, <3>2
    <3> QED
      BY <3>1, <3>2
  <2>4. k.at # <<Len(cd), Len(cd[Len(cd)]) + 1>>
    BY <1>1, <2>2
  <2>5. IF G[k.var].lands = "here" THEN s = Len(cd2) /\ k.var \in u.inner ELSE k.var \in u.waits
    BY <1>2, <2>2
  <2>6. k = [var |-> k.var, at |-> k.at]
    BY DEF MarkFits
  <2> QED
    BY <1>4, <2>2, <2>3, <2>4, <2>5, <2>6 DEF MarkFits
<1> QED
  BY <1>3, <1>4

\* An instruction is added where it fits.
LEMMA StaticInsert ==
    ASSUME NEW cd, NEW mk, NEW c, NEW p, NEW G, NEW q, NEW t, NEW m,
           Static(cd, mk, c, p, G, q, t, m), NEW ins, NEW u, EntryOK(u, c), InsertFits(ins, t, u, m)
    PROVE  \E p2 : Static(Added(cd, ins), mk, c, p2, G, q, u, m)
<1> DEFINE L == Len(cd)
           N == Len(cd[L])
           p2 == Put(p, <<L, N + 2>>, u)
           cd2 == Added(cd, ins)
<1>1. /\ PlainFits(ins, t, u, m) /\ t.open /\ u.open /\ u.n <= t.n
      /\ t.waits \subseteq u.waits /\ t.inner \subseteq u.inner
      /\ Lists(cd) /\ cd # <<>> /\ t.n \in Nat /\ u.n \in Nat
      /\ MarksFit(mk, cd, p, G, t)
  BY DEF InsertFits, Keeps, Static, EntryOK
<1>2. Last(ins, cd, mk, p, G, t, u, m) /\ SameMarks(mk, mk, <<L, N + 1>>)
  BY <1>1 DEF Last, SameMarks
<1>3. /\ IsAdded(cd2, cd, ins)
      /\ p2[Spot(cd2, u)] = u
      /\ LastTo(cd2, u) = L /\ LastTo(cd, t) = L
      /\ CodeFits(cd2, mk, p2, G, L, m)
      /\ Ends(cd2, p2, L)
      /\ Sub(q, p2[<<1, 1>>])
      /\ \A s \in 1..L : p2[<<s, 1>>] = p[<<s, 1>>]
  BY <1>1, <1>2, Grown, SMTT(30)
<1> HIDE DEF p2, cd2
<1>4. MarksFit(mk, cd2, p2, G, u)
  <2>1. ASSUME NEW k \in mk PROVE MarkFits(k, cd2, p2, G, u)
    <3>1. MarkFits(k, cd, p, G, t)
      BY <1>1 DEF MarksFit
    <3>2. (k.var \in t.waits => k.var \in u.waits) /\ (k.var \in t.inner => k.var \in u.inner)
      BY <1>1
    <3> QED
      BY <1>1, <1>3, <3>1, <3>2, GrownMark
  <2> QED
    BY <1>1, <2>1 DEF MarksFit
<1>5. Lists(cd2) /\ cd2 # <<>>
  BY <1>3 DEF IsAdded
<1>6. Static(cd2, mk, c, p2, G, q, u, m)
  BY <1>3, <1>4, <1>5 DEF Static
<1> QED
  BY <1>6 DEF cd2

\* A jump is added whose target is not known yet; a mark keeps its place.
LEMMA StaticJump ==
    ASSUME NEW cd, NEW mk, NEW c, NEW p, NEW G, NEW q, NEW t, NEW m,
           Static(cd, mk, c, p, G, q, t, m), NEW op, NEW x, NEW u, EntryOK(u, c),
           WaitFits(op, x, t, u, G)
    PROVE  \E p2 : Static(Added(cd, JumpIns(op)),
                          mk \cup {[var |-> x, at |-> <<Len(cd), Len(cd[Len(cd)]) + 1>>]},
                          c, p2, G, q, u, m)
<1> DEFINE L == Len(cd)
           N == Len(cd[L])
           p2 == Put(p, <<L, N + 2>>, u)
           ins == JumpIns(op)
           cd2 == Added(cd, ins)
           new == [var |-> x, at |-> <<L, N + 1>>]
           mk2 == mk \cup {new}
<1>1. /\ G[x].lands \in {"next", "here"}
      /\ JumpFits(op, t, u, G[x], G[x].lands = "here")
      /\ t.open /\ u.open /\ u.n <= t.n
      /\ t.waits \subseteq u.waits /\ t.inner \subseteq u.inner
      /\ IF G[x].lands = "here" THEN x \in u.inner ELSE x \in u.waits
      /\ Lists(cd) /\ cd # <<>> /\ t.n \in Nat /\ u.n \in Nat
      /\ MarksFit(mk, cd, p, G, t)
  BY DEF WaitFits, Keeps, Static, EntryOK
<1>2. L \in Nat /\ L \in 1..L /\ N \in Nat
  BY <1>1, ListFacts
<1>3. new.var = x /\ new.at = <<L, N + 1>> /\ new.at[2] # 0 /\ new = [var |-> new.var, at |-> new.at]
  BY <1>2
<1>4. ins.op = op /\ ins.op2 = Undefined /\ op \in JumpOps
  BY <1>1 DEF JumpIns, JumpFits
<1> HIDE DEF ins, new
<1>5. ASSUME NEW k \in mk
      PROVE  /\ k.at # <<L, N + 1>>
             /\ (k.var \in t.waits => k.var \in u.waits) /\ (k.var \in t.inner => k.var \in u.inner)
             /\ MarkFits(k, cd, p, G, t)
  <2>1. MarkFits(k, cd, p, G, t)
    BY <1>1 DEF MarksFit
  <2>2. k.at # <<L, N + 1>>
    <3>1. CASE G[k.var].lands = "back"
      <4>1. PICK s \in 1..LastTo(cd, t) : k.at = <<s, 0>>
        BY <2>1, <3>1 DEF MarkFits
      <4> QED
        BY <1>2, <4>1
    <3>2. CASE G[k.var].lands # "back"
      <4>1. PICK s \in 1..L : \E i \in 1..Len(cd[s]) : k.at = <<s, i>>
        BY <2>1, <3>2 DEF MarkFits
      <4> QED
        BY <1>2, <4>1
    <3> QED
      BY <3>1, <3>2
  <2> QED
    BY <1>1, <2>1, <2>2
<1>6. Last(ins, cd, mk2, p, G, t, u, m)
  <2>1. \A k \in mk2 : k.at = <<L, N + 1>> => k = new
    BY <1>5
  <2>2. Pending(mk2, G, <<L, N + 1>>, ins, t, u)
    BY <1>1, <1>3, <1>4, <2>1 DEF Pending
  <2> QED
    BY <1>4, <2>2 DEF Last
<1>7. SameMarks(mk, mk2, <<L, N + 1>>)
  BY <1>3 DEF SameMarks
<1>8. /\ IsAdded(cd2, cd, ins)
      /\ p2[Spot(cd2, u)] = u
      /\ LastTo(cd2, u) = L /\ LastTo(cd, t) = L
      /\ CodeFits(cd2, mk2, p2, G, L, m)
      /\ Ends(cd2, p2, L)
      /\ Sub(q, p2[<<1, 1>>])
      /\ \A s \in 1..L : p2[<<s, 1>>] = p[<<s, 1>>]
  <2> HIDE DEF mk2
  <2> QED
    BY <1>1, <1>6, <1>7, Grown
<1> HIDE DEF p2, cd2
<1>9. \A k \in mk : MarkFits(k, cd2, p2, G, u)
  BY <1>1, <1>5, <1>8, GrownMark
<1>10. MarkFits(new, cd2, p2, G, u)
  <2>1. Len(cd2) = L /\ L \in 1..Len(cd2) /\ N + 1 \in 1..Len(cd2[L]) /\ cd2[L][N + 1] = JumpIns(op)
    BY <1>2, <1>8 DEF IsAdded, ins
  <2> QED
    BY <1>1, <1>3, <1>4, <2>1 DEF MarkFits
<1>11. MarksFit(mk2, cd2, p2, G, u)
  <2>1. ~(G[new.var].lands = "back")
    BY <1>1, <1>3
  <2> QED
    BY <1>1, <1>3, <1>5, <1>9, <1>10, <2>1 DEF MarksFit
<1>12. Lists(cd2) /\ cd2 # <<>>
  BY <1>8 DEF IsAdded
<1>13. Static(cd2, mk2, c, p2, G, q, u, m)
  BY <1>1, <1>8, <1>11, <1>12 DEF Static
<1> QED
  BY <1>13 DEF cd2, ins, new

\* A jump back to the start of a loop is added, where its mark is.
LEMMA StaticBack ==
    ASSUME NEW cd, NEW mk, NEW c, NEW p, NEW G, NEW q, NEW t, NEW m,
           Static(cd, mk, c, p, G, q, t, m), NEW op, NEW x, NEW u, EntryOK(u, c),
           BackFits(op, x, t, u, G), NEW k \in mk, k.var = x
    PROVE  \E p2 : Static(Added(cd, [JumpIns(op) EXCEPT !.op2 = k.at[1]]), mk \ {k},
                          c, p2, G, q, u, m)
<1> DEFINE L == Len(cd)
           N == Len(cd[L])
           p2 == Put(p, <<L, N + 2>>, u)
           ins == [JumpIns(op) EXCEPT !.op2 = k.at[1]]
           cd2 == Added(cd, ins)
           mk2 == mk \ {k}
<1>1. /\ G[x].lands = "back" /\ t.n >= G[x].n + 2
      /\ JumpFits(op, t, u, G[x], FALSE)
      /\ t.open /\ u.open /\ u.n <= t.n
      /\ t.waits \subseteq u.waits \cup {x} /\ t.inner \subseteq u.inner
      /\ Lists(cd) /\ cd # <<>> /\ t.n \in Nat /\ u.n \in Nat
      /\ MarksFit(mk, cd, p, G, t)
  BY DEF BackFits, Static, EntryOK
<1>2. L \in Nat /\ L \in 1..L /\ N \in Nat
  BY <1>1, ListFacts
<1>3. PICK s \in 1..LastTo(cd, t) :
             /\ k.at = <<s, 0>> /\ Sub(G[x], p[<<s, 1>>])
             /\ G[x].n \in Nat /\ t.n + s <= L + 1 + G[x].n
  BY <1>1 DEF MarksFit, MarkFits
<1>4. s \in 1..(L - 1) /\ s # Undefined
  <2>1. s \in Nat /\ s >= 1
    OBVIOUS
  <2>2. \A z \in Nat : t.n >= z + 2 /\ t.n + s <= L + 1 + z => s <= L - 1
    BY <1>1, <1>2, <2>1
  <2> QED
    BY <1>1, <1>2, <1>3, <2>1, <2>2, SMTT(30) DEF Undefined
<1>5. ins.op = op /\ ins.op2 = s
  BY <1>3 DEF JumpIns
<1> HIDE DEF ins
<1>6. Last(ins, cd, mk2, p, G, t, u, m)
  <2> DEFINE y == p[<<s, 1>>]
             w == G[x]
  <2>1. JumpFits(op, t, u, w, FALSE) /\ Sub(w, y)
    BY <1>1, <1>3
  <2> HIDE DEF y, w
  <2>2. JumpFits(op, t, u, y, FALSE)
    BY <2>1, JumpSub, SubSelf
  <2> QED
    BY <1>4, <1>5, <2>2 DEF Last, y
<1>7. SameMarks(mk, mk2, <<L, N + 1>>)
  BY <1>3 DEF SameMarks
<1>8. /\ IsAdded(cd2, cd, ins)
      /\ p2[Spot(cd2, u)] = u
      /\ LastTo(cd2, u) = L /\ LastTo(cd, t) = L
      /\ CodeFits(cd2, mk2, p2, G, L, m)
      /\ Ends(cd2, p2, L)
      /\ Sub(q, p2[<<1, 1>>])
      /\ \A z \in 1..L : p2[<<z, 1>>] = p[<<z, 1>>]
  <2> HIDE DEF mk2
  <2> QED
    <3>1. t.open /\ u.open
      BY <1>1
    <3> QED
      BY ONLY <3>1, <1>6, <1>7, Grown, Static(cd, mk, c, p, G, q, t, m)
<1> HIDE DEF p2, cd2
<1>9. ASSUME NEW j \in mk2 PROVE MarkFits(j, cd2, p2, G, u)
  <2>1. j \in mk /\ j # k /\ MarkFits(j, cd, p, G, t)
    BY <1>1 DEF MarksFit
  <2>2. j.var # x
    BY <1>1, <2>1 DEF MarksFit
  <2>3. (j.var \in t.waits => j.var \in u.waits) /\ (j.var \in t.inner => j.var \in u.inner)
    BY <1>1, <2>2
  <2> QED
    BY <1>1, <1>8, <2>1, <2>3, GrownMark
<1>10. MarksFit(mk2, cd2, p2, G, u)
  BY <1>1, <1>9 DEF MarksFit
<1>11. Lists(cd2) /\ cd2 # <<>>
  BY <1>8 DEF IsAdded
<1>12. Static(cd2, mk2, c, p2, G, q, u, m)
  BY <1>1, <1>8, <1>10, <1>11 DEF Static
<1> QED
  BY <1>12 DEF cd2, ins

\* When nothing is left to do, the plan is one for the program.
LEMMA StaticProgram ==
    ASSUME NEW cd, NEW mk, NEW c, NEW p, NEW G, NEW q, NEW t, NEW m,
           Static(cd, mk, c, p, G, q, t, m), t.k = <<>>, t.b = <<>>, t.waits = {}, t.inner = {}
    PROVE  \E p2 : Program(cd, p2, m) /\ Sub(q, p2[<<1, 1>>])
<1> DEFINE u == Entry(t.k, t.b, 0, Free, t.may, FALSE, t.n, {}, {})
           p2 == Put(p, <<Len(cd) + 1, 1>>, u)
<1>1. Enter(t, u) /\ u.k = <<>> /\ u.b = <<>>
  BY SameIsEquivalence DEF Entry, Enter, Hit
<1> HIDE DEF u
<1>2. /\ CodeFits(cd, mk, p2, G, Len(cd) + 1, m)
      /\ Ends(cd, p2, Len(cd) + 1) /\ Sub(q, p2[<<1, 1>>]) /\ p2[<<Len(cd) + 1, 1>>] = u
  BY <1>1, Land
<1>3. mk = {}
  <2> SUFFICES ASSUME NEW k \in mk PROVE FALSE
    OBVIOUS
  <2>1. MarkFits(k, cd, p, G, t)
    BY DEF Static, MarksFit
  <2> QED
    BY <2>1 DEF MarkFits
<1> HIDE DEF p2
<1>4. CodeFits(cd, {}, p2, <<>>, Len(cd) + 1, m)
  BY <1>2, <1>3 DEF CodeFits, Pending
<1>5. Program(cd, p2, m)
  BY <1>1, <1>2, <1>4 DEF Program, Static
<1> QED
  BY <1>2, <1>5

\* A call makes no code.
LEMMA StaticGrows ==
    ASSUME NEW cd, NEW mk, NEW c \in Nat, NEW p, NEW G, NEW q, NEW t, NEW m,
           Static(cd, mk, c, p, G, q, t, m), NEW G2, Extends(G, G2, c)
    PROVE  Static(cd, mk, c + 1, p, G2, q, t, m)
<1>1. EntryOK(t, c) /\ MarksFit(mk, cd, p, G, t)
  BY DEF Static
<1>2. \A k \in mk : k.var \in Vars(c)
  BY <1>1 DEF MarksFit, MarkFits, EntryOK
<1>3. \A k \in mk : G2[k.var] = G[k.var]
  BY <1>2 DEF Extends
<1>4. CodeFits(cd, mk, p, G2, LastTo(cd, t), m)
  <2>1. \A at, ins, x, y : Pending(mk, G, at, ins, x, y) => Pending(mk, G2, at, ins, x, y)
    BY <1>3 DEF Pending
  <2>2. CodeFits(cd, mk, p, G, LastTo(cd, t), m)
    BY DEF Static
  <2> QED
    BY <2>1, <2>2 DEF CodeFits
<1>5. MarksFit(mk, cd, p, G2, t)
  BY <1>1, <1>3 DEF MarksFit, MarkFits
<1>6. EntryOK(t, c + 1)
  BY <1>1, EntryGrows
<1> QED
  BY <1>4, <1>5, <1>6 DEF Static

-----------------------------------------------------------------------------
(* What a call gives leads where the call was to lead.                       *)

Compiles(x, t, u, G, c, m) ==
    \E G2 : /\ Extends(G, G2, c)
            /\ IsSeq(ast2asm(x, c))
            /\ Leads(ast2asm(x, c), t, u, G2, c + 1, m)

\* The variables of call c get the targets f.
NewVars(G, c, f) == [x \in Nat \X Nat |-> IF x[1] = c THEN f[x[2]] ELSE G[x]]

\* The variables of a call, and those of the calls before.
LEMMA NewVarsFacts ==
    ASSUME NEW G, NEW c \in Nat, NEW f
    PROVE  /\ Extends(G, NewVars(G, c, f), c)
           /\ \A i \in Nat : NewVars(G, c, f)[<<c, i>>] = f[i]
           /\ Extends(G, G, c)
           /\ \A i \in Nat : <<c, i>> \in Vars(c + 1) /\ <<c, i>> \notin Vars(c)
           /\ Vars(c) \subseteq Vars(c + 1)
BY DEF Extends, NewVars, Vars

\* The same, as one formula.
LEMMA NewVarsAt ==
    \A c \in Nat : \A G, f : /\ Extends(G, NewVars(G, c, f), c)
                            /\ \A i \in Nat : NewVars(G, c, f)[<<c, i>>] = f[i]
BY DEF Extends, NewVars, Vars

\* At most two of them.
TwoVars(G, c, x1, x2) == NewVars(G, c, [i \in Nat |-> IF i = 1 THEN x1 ELSE x2])

\* The two variables of a call.
LEMMA TwoVarsAt ==
    ASSUME NEW G, NEW c \in Nat, NEW x1, NEW x2
    PROVE  /\ TwoVars(G, c, x1, x2)[<<c, 1>>] = x1
           /\ TwoVars(G, c, x1, x2)[<<c, 2>>] = x2
           /\ Extends(G, TwoVars(G, c, x1, x2), c)
<1> DEFINE f == [i \in Nat |-> IF i = 1 THEN x1 ELSE x2]
<1>1. f[1] = x1 /\ f[2] = x2
  OBVIOUS
<1> HIDE DEF f
<1>2. \A i \in Nat : NewVars(G, c, f)[<<c, i>>] = f[i]
  BY NewVarsAt
<1>3. Extends(G, NewVars(G, c, f), c)
  BY NewVarsAt
<1> QED
  BY <1>1, <1>2, <1>3 DEF TwoVars, f

\* What ProgramsAssumption says of the nodes.
LEMMA NodesAre ==
    /\ QuietNodes \subseteq Nodes
    /\ \A n \in Nodes : WellFormed(n, Nodes)
    /\ \A n \in QuietNodes : WellFormed(n, QuietNodes) /\ n.kind # "return"
BY ProgramsAssumption

\* The parts of a node are good where the node is.
LEMMA GoodParts ==
    ASSUME NEW n, NEW b, NEW m, Good(n, b, m)
    PROVE  \E S : /\ WellFormed(n, S)
                  /\ \A e \in S : e.kind \in Expressions => \A x : Good(e, x, m)
                  /\ n.kind \notin Expressions \cup {"return"} =>
                        \A e \in S : \A x : Good(e, x, m)
<1>1. CASE n \in QuietNodes
  BY <1>1, NodesAre DEF Good
<1>2. CASE n \notin QuietNodes
  BY <1>2, NodesAre DEF Good
<1> QED
  BY <1>1, <1>2

\* The operands of an expression are expressions, good wherever it is.
LEMMA ExpressionParts ==
    ASSUME NEW n, NEW b, NEW m, Good(n, b, m), n.kind \in Expressions
    PROVE  /\ \A x : Good(n, x, m)
           /\ n.kind = "value" =>
                 /\ n.yields \subseteq Int /\ n.size \in Nat \ {0}
                 /\ n = [kind |-> "value", id |-> n.id, yields |-> n.yields, size |-> n.size]
           /\ n.kind = "operator" =>
                 /\ n.yields \subseteq Int
                 /\ n.left.kind \in Expressions /\ \A x : Good(n.left, x, m)
                 /\ n.right.kind \in Expressions /\ \A x : Good(n.right, x, m)
           /\ n.kind = "ternary" =>
                 /\ n.cond.kind \in Expressions /\ \A x : Good(n.cond, x, m)
                 /\ n.then.kind \in Expressions /\ \A x : Good(n.then, x, m)
                 /\ n.else.kind \in Expressions /\ \A x : Good(n.else, x, m)
           /\ After(n) \subseteq Int
<1>1. PICK S : /\ WellFormed(n, S)
               /\ \A e \in S : e.kind \in Expressions => \A x : Good(e, x, m)
  BY GoodParts
<1>2. \A x : Good(n, x, m)
  BY DEF Good
<1>3. CASE n.kind = "value"
  BY <1>1, <1>2, <1>3 DEF WellFormed, After
<1>4. CASE n.kind = "operator"
  BY <1>1, <1>2, <1>4 DEF WellFormed, IsExpression, After
<1>5. CASE n.kind = "ternary"
  BY <1>1, <1>2, <1>5 DEF WellFormed, IsExpression, After
<1> QED
  BY <1>3, <1>4, <1>5 DEF Expressions

\* A program comes to itself.
LEMMA GoesSelf == \A k, b, V : Goes(k, b, k, b, V)
BY SameIsEquivalence DEF Goes

\* Coming to is transitive.
LEMMA GoesTrans ==
    ASSUME NEW k1, NEW b1, NEW k2, NEW b2, NEW k3, NEW b3, NEW V,
           Goes(k1, b1, k2, b2, V), Goes(k2, b2, k3, b3, V)
    PROVE  Goes(k1, b1, k3, b3, V)
<1> SUFFICES ASSUME NEW v \in V PROVE Same(<<k1, b1>>, <<k3, b3>>, v)
  BY DEF Goes
<1>1. Same(<<k1, b1>>, <<k2, b2>>, v) /\ Same(<<k2, b2>>, <<k3, b3>>, v)
  BY DEF Goes
<1> QED
  BY <1>1, SameIsEquivalence

\* gacExpression of an expression that is a statement: a statement and its
\* code.
LEMMA CompilesExpression ==
    ASSUME NEW n, NEW t, NEW u, NEW G, NEW c \in Nat, NEW m, EntryOK(t, c), EntryOK(u, c),
           n.kind \in Expressions, NodeFits(n, t, u, m)
    PROVE  Compiles(n, t, u, G, c, m)
<1> DEFINE w == Entry(t.k, t.b, 0, Free, t.may, TRUE, t.n + 1, t.waits, {})
<1>1. EntryOK(t, c + 1) /\ EntryOK(u, c + 1)
  BY EntryGrows
<1>2. EntryOK(w, c + 1)
  BY <1>1 DEF Entry, EntryOK
<1>3. BeginFits(t, w)
  BY SameIsEquivalence DEF NodeFits, BeginFits, Entry, Enter, Hit
<1>4. InsideFits(n, w, u, m)
  <2>1. Good(n, t.b, m) /\ Goes(t.k, t.b, <<n>> \o u.k, t.b, t.may)
        /\ u.b = t.b /\ After(n) \subseteq u.may /\ u.h = 1 /\ u.s = OnTop
        /\ u.open /\ u.n <= t.n + 1 /\ t.waits \subseteq u.waits
    BY DEF NodeFits, Opens
  <2>2. n.kind = "value" =>
           /\ n.size \in Nat \ {0}
           /\ n = [kind |-> "value", id |-> n.id, yields |-> n.yields, size |-> n.size]
    BY <2>1, ExpressionParts
  <2> QED
    BY <2>1, <2>2 DEF InsideFits, Entry, Keeps
<1>5. Fits(newStatment, t, w, G, c + 1, m)
  BY <1>3 DEF Fits, newStatment
<1>6. Fits(Inside(n), w, u, G, c + 1, m)
  BY <1>4 DEF Fits, Inside
<1> HIDE DEF w
<1>7. Leads(<<Inside(n)>>, w, u, G, c + 1, m)
  BY <1>1, <1>2, <1>6, One
<1>8. Leads(<<newStatment>> \o <<Inside(n)>>, t, u, G, c + 1, m)
  BY <1>1, <1>2, <1>5, <1>7, ShortSeqs, Cons
<1>9. ast2asm(n, c) = <<newStatment, Inside(n)>>
  BY DEF ast2asm, Expressions
<1>10. Leads(ast2asm(n, c), t, u, G, c + 1, m) /\ IsSeq(ast2asm(n, c))
  BY <1>8, <1>9, ShortSeqs, Pair
<1> QED
  BY <1>10, NewVarsFacts DEF Compiles

\* A value: its instructions that prepare, and its load.
LEMMA CompilesValue ==
    ASSUME NEW e, NEW t, NEW u, NEW G, NEW c \in Nat, NEW m, EntryOK(t, c), EntryOK(u, c),
           e.kind = "value", InsideFits(e, t, u, m)
    PROVE  Compiles(Inside(e), t, u, G, c, m)
<1>0. EntryOK(t, c + 1) /\ EntryOK(u, c + 1)
  BY EntryGrows
<1>1. PICK n : /\ Goes(t.k, t.b, <<n>> \o u.k, t.b, t.may)
               /\ n.kind = "value" /\ n.id = e.id /\ n.yields = e.yields
               /\ e = [kind |-> "value", id |-> e.id, yields |-> e.yields, size |-> e.size]
               /\ e.size \in Nat \ {0}
  BY DEF InsideFits
<1>2. /\ u.b = t.b /\ e.yields \subseteq u.may
      /\ u.h = t.h + 1 /\ u.s = OnTop
      /\ t.open /\ u.open /\ u.n <= t.n /\ Keeps(t, u)
  BY DEF InsideFits, After
<1>3. ast2asm(Inside(e), c) = gacExpression(e, c)
  BY DEF ast2asm, Inside, Expressions
<1>4. CASE e.size = 1
  <2> DEFINE ins == [op |-> "LOAD", id |-> e.id, yields |-> e.yields]
  <2>1. gacExpression(e, c) = <<Insert(ins)>>
    BY <1>4 DEF gacExpression
  <2>2. ASSUME NEW v \in t.may PROVE Yields(ins, t, v, t.h + 1, u)
    <3>1. Same(<<t.k, t.b>>, <<<<n>> \o u.k, t.b>>, v)
      BY <1>1 DEF Goes
    <3>2. Accepts(ins.yields, u.k, t.b, t.h + 1, u)
      BY <1>2, SameIsEquivalence DEF Accepts
    <3>3. IsSeq(u.k)
      BY DEF EntryOK
    <3> QED
      BY <1>1, <3>1, <3>2, <3>3 DEF Yields
  <2>3. InsertFits(ins, t, u, m)
    BY <1>2, <2>2 DEF InsertFits, PlainFits, PlainHit, PlainOps
  <2>4. Fits(Insert(ins), t, u, G, c + 1, m)
    BY <2>3 DEF Fits, Insert
  <2> HIDE DEF ins
  <2>5. Leads(<<Insert(ins)>>, t, u, G, c + 1, m)
    BY <1>0, <2>4, One
  <2>6. Leads(ast2asm(Inside(e), c), t, u, G, c + 1, m) /\ IsSeq(ast2asm(Inside(e), c))
    BY <1>3, <2>1, <2>5, ShortSeqs
  <2> QED
    BY <2>6, NewVarsFacts DEF Compiles
<1>5. CASE e.size > 1
  <2> DEFINE ins == [op |-> "PART"]
             e2  == [e EXCEPT !.size = @ - 1]
             w   == Entry(t.k, t.b, t.h, Free, t.may, TRUE, t.n, t.waits, t.inner)
  <2>1. gacExpression(e, c) = <<Insert(ins), Inside(e2)>>
    BY <1>5 DEF gacExpression
  <2>2. InsertFits(ins, t, w, m)
    BY <1>2, SameIsEquivalence DEF InsertFits, PlainFits, PlainHit, PlainOps, Hit, Entry, Keeps, EntryOK
  <2>3. /\ e2.kind = "value" /\ e2.id = e.id /\ e2.yields = e.yields /\ e2.size \in Nat \ {0}
        /\ e2 = [kind |-> "value", id |-> e2.id, yields |-> e2.yields, size |-> e2.size]
    <3>1. e.size - 1 \in Nat \ {0}
      BY <1>1, <1>5
    <3>2. e2 = [kind |-> "value", id |-> e.id, yields |-> e.yields, size |-> e.size - 1]
      BY <1>1
    <3> QED
      BY <3>1, <3>2
  <2>4. InsideFits(e2, w, u, m)
    BY <1>1, <1>2, <2>3 DEF InsideFits, Entry, Keeps, After, Expressions
  <2>5. EntryOK(w, c + 1)
    BY <1>0, <1>2 DEF EntryOK, Entry
  <2>6. Fits(Insert(ins), t, w, G, c + 1, m)
    BY <2>2 DEF Fits, Insert
  <2>7. Fits(Inside(e2), w, u, G, c + 1, m)
    BY <2>4 DEF Fits, Inside
  <2> HIDE DEF ins, e2, w
  <2>8. Leads(<<Inside(e2)>>, w, u, G, c + 1, m)
    BY <1>0, <2>5, <2>7, One
  <2>9. Leads(<<Insert(ins)>> \o <<Inside(e2)>>, t, u, G, c + 1, m)
    BY <1>0, <2>5, <2>6, <2>8, ShortSeqs, Cons
  <2>10. Leads(ast2asm(Inside(e), c), t, u, G, c + 1, m) /\ IsSeq(ast2asm(Inside(e), c))
    BY <1>3, <2>1, <2>9, ShortSeqs, Pair
  <2> QED
    BY <2>10, NewVarsFacts DEF Compiles
<1> QED
  BY <1>1, <1>4, <1>5

-----------------------------------------------------------------------------
(* Lists that a function of the compiler gives are built from their end.     *)

\* One thing of a list, between two entries.
Leg(x, t, u, G, c, m) == EntryOK(t, c) /\ EntryOK(u, c) /\ Fits(x, t, u, G, c, m)

\* A list of one, and with one more before it.
LEMMA EndOfWay ==
    ASSUME NEW x, NEW t, NEW u, NEW G, NEW c, NEW m, Leg(x, t, u, G, c, m)
    PROVE  Leads(<<x>>, t, u, G, c, m)
BY One DEF Leg

\* The list with one more thing before it.
LEMMA StepBefore ==
    ASSUME NEW x, NEW B, NEW t, NEW u, NEW f, NEW G, NEW c, NEW m,
           Leg(x, t, u, G, c, m), IsSeq(B), Leads(B, u, f, G, c, m)
    PROVE  Leads(<<x>> \o B, t, f, G, c, m)
BY Cons DEF Leg

\* A list of two from its second on; the next ones are the same for longer
\* lists, which the compiler's functions write out.
LEMMA Before2 ==
    ASSUME NEW t, NEW u, NEW f, NEW G, NEW k, NEW m,
           NEW xa, NEW xb,
           Leg(xa, t, u, G, k, m), Leads(<<xb>>, u, f, G, k, m)
    PROVE  Leads(<<xa, xb>>, t, f, G, k, m)
<1>1. <<xa, xb>> = <<xa>> \o <<xb>>
  BY Pair
<1>2. <<xb>> \in Seq({xb})
  OBVIOUS
<1>3. IsSeq(<<xb>>)
  BY <1>2, SeqIs
<1>4. Leads(<<xa>> \o <<xb>>, t, f, G, k, m)
  BY <1>3, StepBefore
<1> QED
  BY ONLY <1>1, <1>4, Zenon

\* A list of three.
LEMMA Before3 ==
    ASSUME NEW t, NEW u, NEW f, NEW G, NEW k, NEW m,
           NEW xa, NEW xb, NEW xc,
           Leg(xa, t, u, G, k, m), Leads(<<xb, xc>>, u, f, G, k, m)
    PROVE  Leads(<<xa, xb, xc>>, t, f, G, k, m)
<1>1. <<xa, xb, xc>> = <<xa>> \o <<xb, xc>>
  OBVIOUS
<1>2. <<xb, xc>> \in Seq({xb, xc})
  OBVIOUS
<1>3. IsSeq(<<xb, xc>>)
  BY <1>2, SeqIs
<1>4. Leads(<<xa>> \o <<xb, xc>>, t, f, G, k, m)
  BY <1>3, StepBefore
<1> QED
  BY ONLY <1>1, <1>4, Zenon

\* A list of four.
LEMMA Before4 ==
    ASSUME NEW t, NEW u, NEW f, NEW G, NEW k, NEW m,
           NEW xa, NEW xb, NEW xc, NEW xd,
           Leg(xa, t, u, G, k, m), Leads(<<xb, xc, xd>>, u, f, G, k, m)
    PROVE  Leads(<<xa, xb, xc, xd>>, t, f, G, k, m)
<1>1. <<xa, xb, xc, xd>> = <<xa>> \o <<xb, xc, xd>>
  OBVIOUS
<1>2. <<xb, xc, xd>> \in Seq({xb, xc, xd})
  OBVIOUS
<1>3. IsSeq(<<xb, xc, xd>>)
  BY <1>2, SeqIs
<1>4. Leads(<<xa>> \o <<xb, xc, xd>>, t, f, G, k, m)
  BY <1>3, StepBefore
<1> QED
  BY ONLY <1>1, <1>4, Zenon

\* A list of five.
LEMMA Before5 ==
    ASSUME NEW t, NEW u, NEW f, NEW G, NEW k, NEW m,
           NEW xa, NEW xb, NEW xc, NEW xd, NEW xe,
           Leg(xa, t, u, G, k, m), Leads(<<xb, xc, xd, xe>>, u, f, G, k, m)
    PROVE  Leads(<<xa, xb, xc, xd, xe>>, t, f, G, k, m)
<1>1. <<xa, xb, xc, xd, xe>> = <<xa>> \o <<xb, xc, xd, xe>>
  OBVIOUS
<1>2. <<xb, xc, xd, xe>> \in Seq({xb, xc, xd, xe})
  OBVIOUS
<1>3. IsSeq(<<xb, xc, xd, xe>>)
  BY <1>2, SeqIs
<1>4. Leads(<<xa>> \o <<xb, xc, xd, xe>>, t, f, G, k, m)
  BY <1>3, StepBefore
<1> QED
  BY ONLY <1>1, <1>4, Zenon

\* A list of six.
LEMMA Before6 ==
    ASSUME NEW t, NEW u, NEW f, NEW G, NEW k, NEW m,
           NEW xa, NEW xb, NEW xc, NEW xd, NEW xe, NEW xf,
           Leg(xa, t, u, G, k, m), Leads(<<xb, xc, xd, xe, xf>>, u, f, G, k, m)
    PROVE  Leads(<<xa, xb, xc, xd, xe, xf>>, t, f, G, k, m)
<1>1. <<xa, xb, xc, xd, xe, xf>> = <<xa>> \o <<xb, xc, xd, xe, xf>>
  OBVIOUS
<1>2. <<xb, xc, xd, xe, xf>> \in Seq({xb, xc, xd, xe, xf})
  OBVIOUS
<1>3. IsSeq(<<xb, xc, xd, xe, xf>>)
  BY <1>2, SeqIs
<1>4. Leads(<<xa>> \o <<xb, xc, xd, xe, xf>>, t, f, G, k, m)
  BY <1>3, StepBefore
<1> QED
  BY ONLY <1>1, <1>4, Zenon

\* A list of seven.
LEMMA Before7 ==
    ASSUME NEW t, NEW u, NEW f, NEW G, NEW k, NEW m,
           NEW xa, NEW xb, NEW xc, NEW xd, NEW xe, NEW xf, NEW xg,
           Leg(xa, t, u, G, k, m), Leads(<<xb, xc, xd, xe, xf, xg>>, u, f, G, k, m)
    PROVE  Leads(<<xa, xb, xc, xd, xe, xf, xg>>, t, f, G, k, m)
<1>1. <<xa, xb, xc, xd, xe, xf, xg>> = <<xa>> \o <<xb, xc, xd, xe, xf, xg>>
  OBVIOUS
<1>2. <<xb, xc, xd, xe, xf, xg>> \in Seq({xb, xc, xd, xe, xf, xg})
  OBVIOUS
<1>3. IsSeq(<<xb, xc, xd, xe, xf, xg>>)
  BY <1>2, SeqIs
<1>4. Leads(<<xa>> \o <<xb, xc, xd, xe, xf, xg>>, t, f, G, k, m)
  BY <1>3, StepBefore
<1> QED
  BY ONLY <1>1, <1>4, Zenon

\* A list of eight.
LEMMA Before8 ==
    ASSUME NEW t, NEW u, NEW f, NEW G, NEW k, NEW m,
           NEW xa, NEW xb, NEW xc, NEW xd, NEW xe, NEW xf, NEW xg, NEW xh,
           Leg(xa, t, u, G, k, m), Leads(<<xb, xc, xd, xe, xf, xg, xh>>, u, f, G, k, m)
    PROVE  Leads(<<xa, xb, xc, xd, xe, xf, xg, xh>>, t, f, G, k, m)
<1>1. <<xa, xb, xc, xd, xe, xf, xg, xh>> = <<xa>> \o <<xb, xc, xd, xe, xf, xg, xh>>
  OBVIOUS
<1>2. <<xb, xc, xd, xe, xf, xg, xh>> \in Seq({xb, xc, xd, xe, xf, xg, xh})
  OBVIOUS
<1>3. IsSeq(<<xb, xc, xd, xe, xf, xg, xh>>)
  BY <1>2, SeqIs
<1>4. Leads(<<xa>> \o <<xb, xc, xd, xe, xf, xg, xh>>, t, f, G, k, m)
  BY <1>3, StepBefore
<1> QED
  BY ONLY <1>1, <1>4, Zenon

\* A list of nine.
LEMMA Before9 ==
    ASSUME NEW t, NEW u, NEW f, NEW G, NEW k, NEW m,
           NEW xa, NEW xb, NEW xc, NEW xd, NEW xe, NEW xf, NEW xg, NEW xh, NEW xi,
           Leg(xa, t, u, G, k, m), Leads(<<xb, xc, xd, xe, xf, xg, xh, xi>>, u, f, G, k, m)
    PROVE  Leads(<<xa, xb, xc, xd, xe, xf, xg, xh, xi>>, t, f, G, k, m)
<1>1. <<xa, xb, xc, xd, xe, xf, xg, xh, xi>> = <<xa>> \o <<xb, xc, xd, xe, xf, xg, xh, xi>>
  OBVIOUS
<1>2. <<xb, xc, xd, xe, xf, xg, xh, xi>> \in Seq({xb, xc, xd, xe, xf, xg, xh, xi})
  OBVIOUS
<1>3. IsSeq(<<xb, xc, xd, xe, xf, xg, xh, xi>>)
  BY <1>2, SeqIs
<1>4. Leads(<<xa>> \o <<xb, xc, xd, xe, xf, xg, xh, xi>>, t, f, G, k, m)
  BY <1>3, StepBefore
<1> QED
  BY ONLY <1>1, <1>4, Zenon

\* A list of ten.
LEMMA Before10 ==
    ASSUME NEW t, NEW u, NEW f, NEW G, NEW k, NEW m,
           NEW xa, NEW xb, NEW xc, NEW xd, NEW xe, NEW xf, NEW xg, NEW xh, NEW xi, NEW xj,
           Leg(xa, t, u, G, k, m), Leads(<<xb, xc, xd, xe, xf, xg, xh, xi, xj>>, u, f, G, k, m)
    PROVE  Leads(<<xa, xb, xc, xd, xe, xf, xg, xh, xi, xj>>, t, f, G, k, m)
<1>1. <<xa, xb, xc, xd, xe, xf, xg, xh, xi, xj>> = <<xa>> \o <<xb, xc, xd, xe, xf, xg, xh, xi, xj>>
  OBVIOUS
<1>2. <<xb, xc, xd, xe, xf, xg, xh, xi, xj>> \in Seq({xb, xc, xd, xe, xf, xg, xh, xi, xj})
  OBVIOUS
<1>3. IsSeq(<<xb, xc, xd, xe, xf, xg, xh, xi, xj>>)
  BY <1>2, SeqIs
<1>4. Leads(<<xa>> \o <<xb, xc, xd, xe, xf, xg, xh, xi, xj>>, t, f, G, k, m)
  BY <1>3, StepBefore
<1> QED
  BY ONLY <1>1, <1>4, Zenon

\* A list of eleven.
LEMMA Before11 ==
    ASSUME NEW t, NEW u, NEW f, NEW G, NEW k, NEW m,
           NEW xa, NEW xb, NEW xc, NEW xd, NEW xe, NEW xf, NEW xg, NEW xh, NEW xi, NEW xj, NEW xk,
           Leg(xa, t, u, G, k, m), Leads(<<xb, xc, xd, xe, xf, xg, xh, xi, xj, xk>>, u, f, G, k, m)
    PROVE  Leads(<<xa, xb, xc, xd, xe, xf, xg, xh, xi, xj, xk>>, t, f, G, k, m)
<1>1. <<xa, xb, xc, xd, xe, xf, xg, xh, xi, xj, xk>> = <<xa>> \o <<xb, xc, xd, xe, xf, xg, xh, xi, xj, xk>>
  OBVIOUS
<1>2. <<xb, xc, xd, xe, xf, xg, xh, xi, xj, xk>> \in Seq({xb, xc, xd, xe, xf, xg, xh, xi, xj, xk})
  OBVIOUS
<1>3. IsSeq(<<xb, xc, xd, xe, xf, xg, xh, xi, xj, xk>>)
  BY <1>2, SeqIs
<1>4. Leads(<<xa>> \o <<xb, xc, xd, xe, xf, xg, xh, xi, xj, xk>>, t, f, G, k, m)
  BY <1>3, StepBefore
<1> QED
  BY ONLY <1>1, <1>4, Zenon

\* A list of twelve.
LEMMA Before12 ==
    ASSUME NEW t, NEW u, NEW f, NEW G, NEW k, NEW m,
           NEW xa, NEW xb, NEW xc, NEW xd, NEW xe, NEW xf, NEW xg, NEW xh, NEW xi, NEW xj, NEW xk, NEW xl,
           Leg(xa, t, u, G, k, m), Leads(<<xb, xc, xd, xe, xf, xg, xh, xi, xj, xk, xl>>, u, f, G, k, m)
    PROVE  Leads(<<xa, xb, xc, xd, xe, xf, xg, xh, xi, xj, xk, xl>>, t, f, G, k, m)
<1>1. <<xa, xb, xc, xd, xe, xf, xg, xh, xi, xj, xk, xl>> = <<xa>> \o <<xb, xc, xd, xe, xf, xg, xh, xi, xj, xk, xl>>
  OBVIOUS
<1>2. <<xb, xc, xd, xe, xf, xg, xh, xi, xj, xk, xl>> \in Seq({xb, xc, xd, xe, xf, xg, xh, xi, xj, xk, xl})
  OBVIOUS
<1>3. IsSeq(<<xb, xc, xd, xe, xf, xg, xh, xi, xj, xk, xl>>)
  BY <1>2, SeqIs
<1>4. Leads(<<xa>> \o <<xb, xc, xd, xe, xf, xg, xh, xi, xj, xk, xl>>, t, f, G, k, m)
  BY <1>3, StepBefore
<1> QED
  BY ONLY <1>1, <1>4, Zenon

\* An expression within a statement, from where it comes first.
LEMMA InsideMade ==
    ASSUME NEW e, NEW t, NEW u, NEW m, e.kind \in Expressions, Good(e, t.b, m),
           Goes(t.k, t.b, <<e>> \o u.k, t.b, t.may),
           u.b = t.b, After(e) \subseteq u.may, u.h = t.h + 1, u.s = OnTop,
           t.open, u.open, u.n <= t.n, Keeps(t, u)
    PROVE  InsideFits(e, t, u, m)
<1>1. e.kind = "value" =>
         /\ e.size \in Nat \ {0}
         /\ e = [kind |-> "value", id |-> e.id, yields |-> e.yields, size |-> e.size]
  BY ExpressionParts
<1> QED
  BY <1>1 DEF InsideFits

\* An operator: the code of the left side, of the right side, and the
\* operation.
LEMMA CompilesOperator ==
    ASSUME NEW e, NEW t, NEW u, NEW G, NEW c \in Nat, NEW m, EntryOK(t, c), EntryOK(u, c),
           e.kind = "operator", InsideFits(e, t, u, m)
    PROVE  Compiles(Inside(e), t, u, G, c, m)
<1> DEFINE a  == Meaning!Apply(e)
           K1 == <<a>> \o u.k
           K2 == <<e.right>> \o K1
           w1 == Entry(K2, t.b, t.h + 1, OnTop, After(e.left), TRUE, t.n, t.waits, t.inner)
           w2 == Entry(K1, t.b, t.h + 2, OnTop, After(e.right), TRUE, t.n, t.waits, t.inner)
           ins == [op |-> "APPLY", id |-> e.id, yields |-> e.yields]
<1>0. EntryOK(t, c + 1) /\ EntryOK(u, c + 1)
  BY EntryGrows
<1>1. /\ Goes(t.k, t.b, <<e>> \o u.k, t.b, t.may) /\ Good(e, t.b, m)
      /\ u.b = t.b /\ e.yields \subseteq u.may /\ u.h = t.h + 1 /\ u.s = OnTop
      /\ t.open /\ u.open /\ u.n <= t.n /\ Keeps(t, u)
      /\ e.kind \in Expressions
  BY DEF InsideFits, After
<1>2. /\ e.left.kind \in Expressions /\ \A x : Good(e.left, x, m)
      /\ e.right.kind \in Expressions /\ \A x : Good(e.right, x, m)
  BY <1>1, ExpressionParts
<1>3. IsSeq(u.k) /\ IsSeq(K1) /\ IsSeq(K2)
  BY ConsFacts DEF EntryOK
<1>4. ASSUME NEW v PROVE Same(<<<<e>> \o u.k, t.b>>, <<<<e.left>> \o K2, t.b>>, v)
  BY <1>3, UnfoldExpression
<1>5. Goes(t.k, t.b, <<e.left>> \o K2, t.b, t.may)
  <2>1. Goes(<<e>> \o u.k, t.b, <<e.left>> \o K2, t.b, t.may)
    BY <1>4 DEF Goes
  <2> QED
    BY <1>1, <2>1, GoesTrans
<1>6. a.kind = "apply" /\ a.id = e.id /\ a.yields = e.yields
  BY DEF Meaning!Apply
<1> HIDE DEF a, K1, K2
<1>7. EntryOK(w1, c + 1) /\ EntryOK(w2, c + 1)
  <2>1. After(e.left) \subseteq Int /\ After(e.right) \subseteq Int
    BY <1>2, ExpressionParts
  <2> QED
    BY <1>0, <1>1, <1>3, <2>1 DEF EntryOK, Entry
<1>8. InsideFits(e.left, t, w1, m)
  <2>1. Goes(t.k, t.b, <<e.left>> \o w1.k, t.b, t.may)
    BY <1>5 DEF Entry
  <2>2. /\ w1.b = t.b /\ After(e.left) \subseteq w1.may /\ w1.h = t.h + 1 /\ w1.s = OnTop
        /\ t.open /\ w1.open /\ w1.n <= t.n /\ Keeps(t, w1)
    BY <1>0, <1>1 DEF Entry, Keeps, EntryOK
  <2> HIDE DEF w1
  <2> QED
    BY <1>2, <2>1, <2>2, InsideMade
<1>9. InsideFits(e.right, w1, w2, m)
  <2>1. Goes(w1.k, w1.b, <<e.right>> \o w2.k, w1.b, w1.may)
    BY GoesSelf DEF Entry, K2
  <2>2. t.h \in Nat
    BY DEF EntryOK
  <2>3. /\ w2.b = w1.b /\ After(e.right) \subseteq w2.may /\ w2.h = w1.h + 1 /\ w2.s = OnTop
        /\ w1.open /\ w2.open /\ w2.n <= w1.n /\ Keeps(w1, w2)
    BY <1>0, <2>2 DEF Entry, Keeps, EntryOK
  <2> HIDE DEF w1, w2
  <2> QED
    BY <1>2, <2>1, <2>3, InsideMade
<1>10. InsertFits(ins, w2, u, m)
  <2>1. ASSUME NEW v \in w2.may PROVE Yields(ins, w2, v, w2.h - 1, u)
    <3>1. Same(<<w2.k, w2.b>>, <<<<a>> \o u.k, w2.b>>, v)
      BY SameIsEquivalence DEF Entry, K1
    <3>2. w2.h - 1 = u.h /\ w2.b = u.b
      BY <1>1 DEF Entry, EntryOK
    <3>3. Accepts(ins.yields, u.k, w2.b, w2.h - 1, u)
      BY <1>1, <3>2, SameIsEquivalence DEF Accepts
    <3> HIDE DEF w2
    <3> QED
      BY <1>3, <1>6, <3>1, <3>3 DEF Yields
  <2>2. w2.h >= 2 /\ w2.open /\ u.n <= w2.n /\ Keeps(w2, u)
    BY <1>1 DEF Entry, EntryOK, Keeps
  <2> HIDE DEF w2
  <2> QED
    BY <1>1, <2>1, <2>2 DEF InsertFits, PlainFits, PlainHit, PlainOps
<1> HIDE DEF w1, w2, ins
<1>11. /\ Leg(Inside(e.left), t, w1, G, c + 1, m)
       /\ Leg(Inside(e.right), w1, w2, G, c + 1, m)
       /\ Leg(Insert(ins), w2, u, G, c + 1, m)
  BY <1>0, <1>7, <1>8, <1>9, <1>10 DEF Leg, Fits, Inside, Insert
<1>12. Leads(<<Insert(ins)>>, w2, u, G, c + 1, m)
  BY <1>11, EndOfWay
<1>13. Leads(<<Inside(e.right), Insert(ins)>>, w1, u, G, c + 1, m)
  BY <1>11, <1>12, Before2
<1>14. Leads(<<Inside(e.left), Inside(e.right), Insert(ins)>>, t, u, G, c + 1, m)
  BY <1>11, <1>13, Before3
<1>15. ast2asm(Inside(e), c) = <<Inside(e.left), Inside(e.right), Insert(ins)>>
  BY DEF ast2asm, Inside, Expressions, gacExpression, ins
<1>16. IsSeq(ast2asm(Inside(e), c))
  BY <1>15, ShortSeqs
<1> QED
  BY <1>14, <1>15, <1>16, NewVarsFacts DEF Compiles

\* gacInlineIf: exactly one of the branches is evaluated, and its value is
\* left.
LEMMA CompilesTernary ==
    ASSUME NEW e, NEW t, NEW u, NEW G, NEW c \in Nat, NEW m, EntryOK(t, c), EntryOK(u, c),
           e.kind = "ternary", InsideFits(e, t, u, m)
    PROVE  Compiles(Inside(e), t, u, G, c, m)
<1> DEFINE br == Meaning!Branch(<<e.then>>, <<e.else>>)
           KB == <<br>> \o u.k
           KT == <<e.then>> \o u.k
           KE == <<e.else>> \o u.k
           a1 == <<c, 1>>
           a2 == <<c, 2>>
           x1 == Target(KE, t.b, t.h, Free, Int, "here", 0)
           x2 == Target(u.k, t.b, t.h + 1, OnTop, Int, "here", 0)
           G2 == TwoVars(G, c, x1, x2)
           in1 == t.inner \cup {a1}
           in2 == t.inner \cup {a2}
           w1 == Entry(KB, t.b, t.h + 1, OnTop, After(e.cond), TRUE, t.n, t.waits, t.inner)
           w2 == Entry(KT, t.b, t.h, Free, Int, TRUE, t.n, t.waits, in1)
           w3 == Entry(u.k, t.b, t.h + 1, OnTop, Int, TRUE, t.n, t.waits, in1)
           w4 == Entry(KE, t.b, t.h, Free, {}, TRUE, t.n, t.waits, in1 \cup {a2})
           w5 == Entry(KE, t.b, t.h, Free, Int, TRUE, t.n, t.waits, in2)
           w6 == Entry(u.k, t.b, t.h + 1, OnTop, Int, TRUE, t.n, t.waits, in2)
<1>0. EntryOK(t, c + 1) /\ EntryOK(u, c + 1)
  BY EntryGrows
<1>1. /\ Goes(t.k, t.b, <<e>> \o u.k, t.b, t.may) /\ Good(e, t.b, m)
      /\ u.b = t.b /\ Int \subseteq u.may /\ u.h = t.h + 1 /\ u.s = OnTop
      /\ t.open /\ u.open /\ u.n <= t.n /\ Keeps(t, u)
      /\ e.kind \in Expressions
  BY DEF InsideFits, After
<1>2. /\ e.cond.kind \in Expressions /\ \A x : Good(e.cond, x, m)
      /\ e.then.kind \in Expressions /\ \A x : Good(e.then, x, m)
      /\ e.else.kind \in Expressions /\ \A x : Good(e.else, x, m)
      /\ \A b : Good(e.cond, b, m)
  BY <1>1, ExpressionParts
<1>3. After(e.cond) \subseteq Int /\ After(e.then) \subseteq Int /\ After(e.else) \subseteq Int
  BY <1>2, ExpressionParts
<1>4. IsSeq(u.k) /\ IsSeq(KB) /\ IsSeq(KT) /\ IsSeq(KE)
  BY ConsFacts DEF EntryOK
<1>5. \A v : Same(<<<<e>> \o u.k, t.b>>, <<<<e.cond>> \o KB, t.b>>, v)
  BY <1>4, UnfoldExpression
<1>6. Goes(t.k, t.b, <<e.cond>> \o KB, t.b, t.may)
  <2>1. Goes(<<e>> \o u.k, t.b, <<e.cond>> \o KB, t.b, t.may)
    BY <1>5 DEF Goes
  <2> QED
    BY <1>1, <2>1, GoesTrans
<1>7. \A v : Same(<<KB, t.b>>, <<IF v # 0 THEN KT ELSE KE, t.b>>, v)
  <2> SUFFICES ASSUME NEW v PROVE Same(<<KB, t.b>>, <<IF v # 0 THEN KT ELSE KE, t.b>>, v)
    OBVIOUS
  <2>1. Same(<<KB, t.b>>, <<(IF v # 0 THEN <<e.then>> ELSE <<e.else>>) \o u.k, t.b>>, v)
    BY <1>4, UnfoldBranch
  <2> QED
    BY <2>1
<1>8. G2[a1] = x1 /\ G2[a2] = x2 /\ Extends(G, G2, c)
  BY TwoVarsAt
<1>9. a1 \in Vars(c + 1) /\ a2 \in Vars(c + 1) /\ a1 # a2
  BY NewVarsFacts
<1> HIDE DEF br, KB, KT, KE, G2, a1, a2
<1>10. in1 \subseteq Vars(c + 1) /\ in2 \subseteq Vars(c + 1) /\ in1 \cup {a2} \subseteq Vars(c + 1)
       /\ t.waits \subseteq Vars(c + 1)
  BY <1>0, <1>9 DEF EntryOK
<1>11. IsSeq(t.b) /\ t.h \in Nat /\ t.n \in Nat
  BY DEF EntryOK
<1>12. t.inner \subseteq in1 /\ in1 \subseteq in1 \cup {a2} /\ in1 \cup {a2} \subseteq in2 \cup {a1}
       /\ in2 \subseteq u.inner \cup {a2} /\ a1 \in in1 /\ a2 \in in1 \cup {a2}
       /\ t.waits \subseteq u.waits
  BY <1>1 DEF Keeps
<1>13. /\ EntryOK(w1, c + 1) /\ EntryOK(w2, c + 1) /\ EntryOK(w3, c + 1)
       /\ EntryOK(w4, c + 1) /\ EntryOK(w5, c + 1) /\ EntryOK(w6, c + 1)
  <2> HIDE DEF in1, in2
  <2> QED
    BY <1>0, <1>3, <1>4, <1>10, <1>11 DEF EntryOK, Entry
<1>14. InsideFits(e.cond, t, w1, m)
  <2>1. Goes(t.k, t.b, <<e.cond>> \o w1.k, t.b, t.may)
    BY <1>6 DEF Entry
  <2>2. /\ w1.b = t.b /\ After(e.cond) \subseteq w1.may /\ w1.h = t.h + 1 /\ w1.s = OnTop
        /\ t.open /\ w1.open /\ w1.n <= t.n /\ Keeps(t, w1)
    BY <1>1, <1>11 DEF Entry, Keeps
  <2> HIDE DEF w1
  <2> QED
    BY <1>2, <2>1, <2>2, InsideMade
<1>15. WaitFits("JNT", a1, w1, w2, G2)
  <2>1. ASSUME NEW v \in w1.may PROVE JumpHit("JNT", w1, v, w2, x1, TRUE)
    <3>1. v \in Int
      BY <1>3 DEF Entry
    <3>2. CASE v = 0
      <4>1. Hit(w1, v, t.b, t.h, Free, x1)
        BY <1>7, <3>1, <3>2 DEF Hit, Entry, Target
      <4> QED
        BY <1>11, <3>2, <4>1 DEF JumpHit, Takes, Left, Entry, OnTop
    <3>3. CASE v # 0
      <4>1. Hit(w1, v, t.b, t.h, Free, w2)
        BY <1>7, <3>1, <3>3 DEF Hit, Entry
      <4> QED
        BY <1>11, <3>3, <4>1 DEF JumpHit, Takes, Left, Entry, OnTop
    <3> QED
      BY <3>2, <3>3
  <2>2. JumpFits("JNT", w1, w2, x1, TRUE)
    BY <2>1 DEF JumpFits, JumpOps
  <2>3. x1.lands = "here"
    BY DEF Target
  <2>4. w1.open /\ w2.open /\ w2.n <= w1.n /\ Keeps(w1, w2) /\ a1 \in w2.inner
    BY <1>11, <1>12 DEF Entry, Keeps
  <2> HIDE DEF w1, w2, x1
  <2> QED
    BY <1>8, <2>2, <2>3, <2>4 DEF WaitFits
<1>16. InsideFits(e.then, w2, w3, m)
  <2>1. Goes(w2.k, w2.b, <<e.then>> \o w3.k, w2.b, w2.may)
    BY GoesSelf DEF Entry, KT
  <2>2. /\ w3.b = w2.b /\ After(e.then) \subseteq w3.may /\ w3.h = w2.h + 1 /\ w3.s = OnTop
        /\ w2.open /\ w3.open /\ w3.n <= w2.n /\ Keeps(w2, w3)
    BY <1>3, <1>11 DEF Entry, Keeps
  <2> HIDE DEF w2, w3
  <2> QED
    BY <1>2, <2>1, <2>2, InsideMade
<1>17. WaitFits("JMP", a2, w3, w4, G2)
  <2>1. ASSUME NEW v \in w3.may PROVE JumpHit("JMP", w3, v, w4, x2, TRUE)
    <3>1. Hit(w3, v, w3.b, w3.h, w3.s, x2)
      BY SameIsEquivalence DEF Hit, Entry, Target
    <3> QED
      BY <3>1 DEF JumpHit
  <2>2. JumpFits("JMP", w3, w4, x2, TRUE)
    BY <2>1 DEF JumpFits, JumpOps
  <2>3. x2.lands = "here"
    BY DEF Target
  <2>4. w3.open /\ w4.open /\ w4.n <= w3.n /\ Keeps(w3, w4) /\ a2 \in w4.inner
    BY <1>11, <1>12 DEF Entry, Keeps
  <2> HIDE DEF w3, w4, x2
  <2> QED
    BY <1>8, <2>2, <2>3, <2>4 DEF WaitFits
<1>18. HereFits(a1, w4, w5, G2)
  <2>1. Sub(w4, w5)
    BY DEF Sub, Entry
  <2>2. Sub(x1, w5)
    BY SameIsEquivalence DEF Sub, Hit, Entry, Target
  <2>3. x1.lands = "here"
    BY DEF Target
  <2>4. w4.open /\ w5.open /\ w5.n <= w4.n /\ w4.waits \subseteq w5.waits
        /\ w4.inner \subseteq w5.inner \cup {a1}
    BY <1>11, <1>12 DEF Entry
  <2> HIDE DEF w4, w5, x1
  <2> QED
    BY <1>8, <2>1, <2>2, <2>3, <2>4 DEF HereFits
<1>19. InsideFits(e.else, w5, w6, m)
  <2>1. Goes(w5.k, w5.b, <<e.else>> \o w6.k, w5.b, w5.may)
    BY GoesSelf DEF Entry, KE
  <2>2. /\ w6.b = w5.b /\ After(e.else) \subseteq w6.may /\ w6.h = w5.h + 1 /\ w6.s = OnTop
        /\ w5.open /\ w6.open /\ w6.n <= w5.n /\ Keeps(w5, w6)
    BY <1>3, <1>11 DEF Entry, Keeps
  <2> HIDE DEF w5, w6
  <2> QED
    BY <1>2, <2>1, <2>2, InsideMade
<1>20. HereFits(a2, w6, u, G2)
  <2>1. Sub(w6, u)
    BY <1>1, SameIsEquivalence DEF Sub, Hit, Entry
  <2>2. Sub(x2, u)
    BY <1>1, SameIsEquivalence DEF Sub, Hit, Target
  <2>3. x2.lands = "here"
    BY DEF Target
  <2>4. w6.open /\ u.open /\ u.n <= w6.n /\ w6.waits \subseteq u.waits
        /\ w6.inner \subseteq u.inner \cup {a2}
    BY <1>1, <1>11, <1>12 DEF Entry
  <2> HIDE DEF w6, x2
  <2> QED
    BY <1>8, <2>1, <2>2, <2>3, <2>4 DEF HereFits
<1> HIDE DEF w1, w2, w3, w4, w5, w6, x1, x2, in1, in2
<1>21. /\ Leg(Inside(e.cond), t, w1, G2, c + 1, m)
       /\ Leg(Inside(e.then), w2, w3, G2, c + 1, m)
       /\ Leg(Inside(e.else), w5, w6, G2, c + 1, m)
  BY <1>0, <1>13, <1>14, <1>16, <1>19 DEF Leg, Fits, Inside
<1>22. /\ Leg(Jump("JNT", a1), w1, w2, G2, c + 1, m)
       /\ Leg(Jump("JMP", a2), w3, w4, G2, c + 1, m)
  BY <1>9, <1>13, <1>15, <1>17 DEF Leg, Fits, Jump
<1>23. /\ Leg(ToHere(a1), w4, w5, G2, c + 1, m)
       /\ Leg(ToHere(a2), w6, u, G2, c + 1, m)
  BY <1>0, <1>9, <1>13, <1>18, <1>20 DEF Leg, Fits, ToHere
<1> DEFINE l1 == Inside(e.cond)
           l2 == Jump("JNT", a1)
           l3 == Inside(e.then)
           l4 == Jump("JMP", a2)
           l5 == ToHere(a1)
           l6 == Inside(e.else)
           l7 == ToHere(a2)
<1>24. ast2asm(Inside(e), c) = <<l1, l2, l3, l4, l5, l6, l7>>
  BY DEF ast2asm, Inside, Expressions, gacExpression, gacInlineIf, a1, a2
<1> HIDE DEF l1, l2, l3, l4, l5, l6, l7
<1>25. Leads(<<l7>>, w6, u, G2, c + 1, m)
  BY <1>23, EndOfWay DEF l7
<1>26. Leads(<<l6, l7>>, w5, u, G2, c + 1, m)
  BY <1>21, <1>25, Before2 DEF l6
<1>27. Leads(<<l5, l6, l7>>, w4, u, G2, c + 1, m)
  BY <1>23, <1>26, Before3 DEF l5
<1>28. Leads(<<l4, l5, l6, l7>>, w3, u, G2, c + 1, m)
  BY <1>22, <1>27, Before4 DEF l4
<1>29. Leads(<<l3, l4, l5, l6, l7>>, w2, u, G2, c + 1, m)
  BY <1>21, <1>28, Before5 DEF l3
<1>30. Leads(<<l2, l3, l4, l5, l6, l7>>, w1, u, G2, c + 1, m)
  BY <1>22, <1>29, Before6 DEF l2
<1>31. Leads(<<l1, l2, l3, l4, l5, l6, l7>>, t, u, G2, c + 1, m)
  BY <1>21, <1>30, Before7 DEF l1
<1>32. IsSeq(ast2asm(Inside(e), c))
  <2>1. <<l1, l2, l3, l4, l5, l6, l7>> \in Seq({l1, l2, l3, l4, l5, l6, l7})
    OBVIOUS
  <2> QED
    BY <1>24, <2>1, SeqIs
<1> QED
  BY <1>8, <1>24, <1>31, <1>32 DEF Compiles

-----------------------------------------------------------------------------
(* Statements.                                                               *)

\* The kinds of nodes.
NodeKinds == Expressions \cup {"body", "if", "while", "do", "for", "switch", "return"}

\* The kinds of nodes, and that values are integers.
LEMMA NodeKind ==
    ASSUME NEW n, NEW b, NEW m, Good(n, b, m)
    PROVE  n.kind \in NodeKinds /\ After(n) \subseteq Int
<1>1. n.kind \in NodeKinds
  <2>1. WellFormed(n, Nodes)
    BY NodesAre DEF Good
  <2> QED
    BY <2>1 DEF WellFormed, NodeKinds, Expressions
<1>2. CASE n.kind \in Expressions
  <2>1. After(n) \subseteq Int
    BY <1>2, ExpressionParts
  <2> QED
    BY <1>1, <2>1
<1>3. CASE n.kind \notin Expressions
  BY <1>1, <1>3 DEF After, Expressions
<1> QED
  BY <1>1, <1>2, <1>3

\* A node that fits is a thing that fits.
LEMMA NodeLeg ==
    ASSUME NEW n, NEW t, NEW u, NEW G, NEW c, NEW m, EntryOK(t, c), EntryOK(u, c),
           NodeFits(n, t, u, m)
    PROVE  Leg(n, t, u, G, c, m)
<1>1. n.kind \in NodeKinds
  BY NodeKind DEF NodeFits
<1> QED
  BY <1>1 DEF Leg, Fits, NodeKinds

\* An expression as a statement leads on.
LEMMA ExpressionLeg ==
    ASSUME NEW n, NEW t, NEW u, NEW G, NEW c, NEW m, EntryOK(t, c), EntryOK(u, c),
           n.kind \in Expressions, Good(n, t.b, m),
           Goes(t.k, t.b, <<n>> \o u.k, t.b, t.may), u.b = t.b, After(n) \subseteq u.may,
           u.h = 1, u.s = OnTop, u.open, u.n <= t.n + 1, t.waits \subseteq u.waits, t.inner = {}
    PROVE  Leg(n, t, u, G, c, m)
<1>1. NodeFits(n, t, u, m)
  BY DEF NodeFits, Opens
<1> QED
  BY <1>1, NodeLeg

\* A body leads on.
LEMMA BlockLeg ==
    ASSUME NEW n, NEW t, NEW u, NEW G, NEW c, NEW m, EntryOK(t, c), EntryOK(u, c),
           n.kind = "body", Good(n, t.b, m),
           Goes(t.k, t.b, <<n>> \o u.k, t.b, t.may), u.b = t.b, Int \subseteq u.may,
           u.h = 0, u.s = Free, u.open, u.n <= t.n + 1, t.waits \subseteq u.waits, t.inner = {}
    PROVE  Leg(n, t, u, G, c, m)
<1>1. n.kind \notin Expressions /\ Opens(n) /\ After(n) \subseteq Int
  BY NodeKind DEF Opens, Expressions
<1>2. NodeFits(n, t, u, m)
  BY <1>1 DEF NodeFits
<1> QED
  BY <1>2, NodeLeg

\* All of S are good in blocks b.
AllGood(S, b, m) == \A n \in S : Good(n, b, m)

\* The list leads to where K is the rest, with nothing else changed.
LeadsOn(list, t, K, G, c, m) ==
    \E u : /\ Leads(list, t, u, G, c, m) /\ EntryOK(u, c)
          /\ Goes(u.k, t.b, K, t.b, u.may) /\ u.b = t.b
          /\ u.n = t.n /\ u.waits = t.waits /\ u.inner = {}

\* A list of statements leads to what follows it.
LEMMA Statements ==
    ASSUME NEW list, NEW S, list \in Seq(S), NEW t, NEW K, IsSeq(K), NEW G, NEW c, NEW m,
           EntryOK(t, c), AllGood(S, t.b, m),
           Goes(t.k, t.b, list \o K, t.b, t.may), t.inner = {}
    PROVE  LeadsOn(list, t, K, G, c, m)
<1> DEFINE L == Len(list)
           Rest(i) == SubSeq(list, i, L) \o K
           E(i) == list[i - 1].kind \in Expressions
           w(i) == Entry(Rest(i), t.b, IF E(i) THEN 1 ELSE 0, IF E(i) THEN OnTop ELSE Free,
                         After(list[i - 1]), Opens(list[i - 1]), t.n, t.waits, {})
           ty == [i \in 1..(L + 1) |-> IF i = 1 THEN t ELSE w(i)]
<1>0. \A n \in S : Good(n, t.b, m)
  BY DEF AllGood
<1>1. L \in Nat /\ \A i \in 1..L : list[i] \in S
  OBVIOUS
<1>2. /\ Rest(1) = list \o K /\ Rest(L + 1) = K
      /\ \A i \in 1..L : Rest(i) = <<list[i]>> \o Rest(i + 1)
      /\ \A i \in 1..(L + 1) : IsSeq(Rest(i))
  <2>1. IsSeq(list)
    BY SeqIs
  <2>2. \A i \in 1..(L + 1) : SubSeq(list, i, L) \in Seq(S)
    BY <1>1
  <2>3. SubSeq(list, 1, L) = list /\ SubSeq(list, L + 1, L) = <<>>
    BY <1>1
  <2>4. ASSUME NEW i \in 1..L PROVE SubSeq(list, i, L) = <<list[i]>> \o SubSeq(list, i + 1, L)
    <3> DEFINE s == <<list[i]>>
               r == SubSeq(list, i + 1, L)
    <3>0. r \in Seq(S) /\ SubSeq(list, i, L) \in Seq(S)
      <4>1. i + 1 \in 1..(L + 1) /\ i \in 1..(L + 1)
        BY <1>1
      <4> QED
        BY <2>2, <4>1
    <3>1. IsSeq(s) /\ IsSeq(r) /\ Len(s) = 1 /\ s[1] = list[i]
      BY <3>0, SeqIs, ShortSeqs
    <3>2. Len(r) = L - i /\ \A j \in 1..(L - i) : r[j] = list[i + j]
      BY <1>1
    <3>3. Len(SubSeq(list, i, L)) = L - i + 1
          /\ \A j \in 1..(L - i + 1) : SubSeq(list, i, L)[j] = list[i + j - 1]
      BY <1>1
    <3> HIDE DEF s, r
    <3>4. /\ IsSeq(s \o r) /\ Len(s \o r) = 1 + (L - i)
          /\ (s \o r)[1] = list[i] /\ \A j \in 1..(L - i) : (s \o r)[1 + j] = r[j]
      <4>1. /\ IsSeq(s \o r) /\ Len(s \o r) = Len(s) + Len(r)
            /\ \A j \in 1..Len(s) : (s \o r)[j] = s[j]
            /\ \A j \in 1..Len(r) : (s \o r)[Len(s) + j] = r[j]
        BY <3>1, Joined, ZenonT(40)
      <4> QED
        BY <3>1, <3>2, <4>1
    <3>5. ASSUME NEW j \in 1..(L - i + 1) PROVE (s \o r)[j] = list[i + j - 1]
      <4>1. CASE j = 1
        BY <1>1, <3>4, <4>1
      <4>2. CASE j # 1
        <5>1. j - 1 \in 1..(L - i) /\ j = 1 + (j - 1) /\ i + (j - 1) = i + j - 1
          BY <1>1, <4>2
        <5> QED
          BY <3>2, <3>4, <5>1
      <4> QED
        BY <4>1, <4>2
    <3>6. IsSeq(SubSeq(list, i, L)) /\ Len(SubSeq(list, i, L)) = Len(s \o r)
      <4>1. IsSeq(SubSeq(list, i, L))
        BY <3>0, SeqIs
      <4>2. L - i + 1 = 1 + (L - i)
        BY <1>1
      <4> QED
        BY <3>3, <3>4, <4>1, <4>2
    <3> QED
      BY <3>3, <3>4, <3>5, <3>6, SeqsEqual DEF s, r
  <2>5. ASSUME NEW i \in 1..L PROVE Rest(i) = <<list[i]>> \o Rest(i + 1)
    <3>1. i + 1 \in 1..(L + 1)
      BY <1>1
    <3>2. IsSeq(<<list[i]>>) /\ IsSeq(SubSeq(list, i + 1, L))
      BY <2>2, <3>1, SeqIs, ShortSeqs
    <3>3. (<<list[i]>> \o SubSeq(list, i + 1, L)) \o K = <<list[i]>> \o (SubSeq(list, i + 1, L) \o K)
      <4> DEFINE s == <<list[i]>>
                 r == SubSeq(list, i + 1, L)
      <4> HIDE DEF s, r
      <4>0. IsSeq(s) /\ IsSeq(r)
        BY <3>2 DEF s, r
      <4>1. (s \o r) \o K = s \o (r \o K)
        BY <4>0, Associative
      <4> QED
        BY <4>1 DEF s, r
    <3> QED
      BY <2>4, <3>3
  <2>6. \A i \in 1..(L + 1) : IsSeq(Rest(i))
    BY <2>2, SeqIs, Joined
  <2>7. Rest(L + 1) = K
    BY <2>3, Empty
  <2> QED
    BY <2>3, <2>5, <2>6, <2>7
<1>3. /\ \A i \in 1..L : ty[i + 1] = w(i + 1)
      /\ ty[1] = t
  BY <1>1
<1> HIDE DEF Rest
<1>4. \A i \in 1..L : EntryOK(w(i + 1), c)
  <2> SUFFICES ASSUME NEW i \in 1..L PROVE EntryOK(w(i + 1), c)
    OBVIOUS
  <2>1. list[i + 1 - 1] = list[i] /\ i + 1 \in 1..(L + 1)
    BY <1>1
  <2>2. After(list[i]) \subseteq Int
    BY <1>0, <1>1, NodeKind
  <2>3. Opens(list[i]) \in BOOLEAN /\ (list[i].kind \in Expressions => Opens(list[i]))
    BY DEF Opens
  <2>4. w(i + 1) = Entry(Rest(i + 1), t.b, IF list[i].kind \in Expressions THEN 1 ELSE 0,
                         IF list[i].kind \in Expressions THEN OnTop ELSE Free,
                         After(list[i]), Opens(list[i]), t.n, t.waits, {})
    BY <2>1
  <2>5. IsSeq(Rest(i + 1)) /\ IsSeq(t.b) /\ t.n \in Nat /\ t.waits \subseteq Vars(c)
    BY <1>2, <2>1 DEF EntryOK
  <2> HIDE DEF w
  <2> QED
    BY <2>2, <2>3, <2>4, <2>5 DEF EntryOK, Entry
<1>5. \A i \in 1..(L + 1) : EntryOK(ty[i], c) /\ ty[i].b = t.b /\ ty[i].inner = {}
                            /\ ty[i].n = t.n /\ ty[i].waits = t.waits
                            /\ Goes(ty[i].k, t.b, Rest(i), t.b, ty[i].may)
  <2> SUFFICES ASSUME NEW i \in 1..(L + 1)
               PROVE  EntryOK(ty[i], c) /\ ty[i].b = t.b /\ ty[i].inner = {}
                      /\ ty[i].n = t.n /\ ty[i].waits = t.waits
                      /\ Goes(ty[i].k, t.b, Rest(i), t.b, ty[i].may)
    OBVIOUS
  <2>1. CASE i = 1
    BY <1>2, <1>3, <2>1
  <2>2. CASE i # 1
    <3>1. i - 1 \in 1..L /\ i - 1 + 1 = i
      BY <1>1, <2>2
    <3>2. ty[i] = w(i) /\ EntryOK(w(i), c)
      BY <1>3, <1>4, <3>1
    <3> QED
      BY <3>2, GoesSelf DEF Entry
  <2> QED
    BY <2>1, <2>2
<1>6. \A i \in 1..L : Fits(list[i], ty[i], ty[i + 1], G, c, m)
  <2> SUFFICES ASSUME NEW i \in 1..L PROVE Fits(list[i], ty[i], ty[i + 1], G, c, m)
    OBVIOUS
  <2>1. list[i + 1 - 1] = list[i] /\ i \in 1..(L + 1) /\ i + 1 \in 1..(L + 1)
    BY <1>1
  <2>2. ty[i + 1] = Entry(Rest(i + 1), t.b, IF list[i].kind \in Expressions THEN 1 ELSE 0,
                         IF list[i].kind \in Expressions THEN OnTop ELSE Free,
                         After(list[i]), Opens(list[i]), t.n, t.waits, {})
    BY <1>3, <2>1
  <2> HIDE DEF w, ty
  <2>3. Good(list[i], t.b, m)
    BY <1>0, <1>1
  <2>4. Goes(ty[i].k, t.b, <<list[i]>> \o Rest(i + 1), t.b, ty[i].may)
    BY <1>2, <1>5, <2>1
  <2>5. t.n \in Nat
    BY DEF EntryOK
  <2>6. /\ ty[i].b = t.b /\ ty[i].n = t.n /\ ty[i].waits = t.waits /\ ty[i].inner = {}
        /\ EntryOK(ty[i], c) /\ EntryOK(ty[i + 1], c)
    BY <1>5, <2>1
  <2>7. NodeFits(list[i], ty[i], ty[i + 1], m)
    BY <2>2, <2>3, <2>4, <2>5, <2>6 DEF NodeFits, Entry
  <2> QED
    BY <2>6, <2>7, NodeLeg DEF Leg
<1> HIDE DEF w, ty
<1>7. Way(list, ty, G, c, m)
  <2> SUFFICES ASSUME NEW i \in 1..Len(list)
               PROVE  /\ EntryOK(ty[i], c)
                      /\ \E z : EntryOK(z, c) /\ Fits(list[i], ty[i], z, G, c, m) /\ Weaker(z, ty[i + 1])
    BY DEF Way
  <2>1. i \in 1..(L + 1) /\ i + 1 \in 1..(L + 1)
    BY <1>1
  <2>2. EntryOK(ty[i], c) /\ EntryOK(ty[i + 1], c)
    BY <1>5, <2>1
  <2>3. Weaker(ty[i + 1], ty[i + 1])
    BY <2>2, WeakerSelf
  <2> QED
    BY <1>6, <2>2, <2>3
<1>8. L + 1 \in 1..(L + 1)
  BY <1>1
<1>9. Leads(list, t, ty[L + 1], G, c, m)
  BY <1>3, <1>5, <1>7, <1>8, WeakerSelf DEF Leads
<1>10. Goes(ty[L + 1].k, t.b, K, t.b, ty[L + 1].may)
  BY <1>2, <1>5, <1>8
<1> QED
  BY <1>5, <1>8, <1>9, <1>10 DEF LeadsOn

\* A jump that tests the value on the stack leads the way that the branch goes.
LEMMA BranchFits ==
    ASSUME NEW op \in {"JT", "JNT"}, NEW T, NEW F, NEW K, IsSeq(K), NEW t, NEW u, NEW x,
           t.k = <<Meaning!Branch(T, F)>> \o K, t.h = 1, t.s = OnTop, t.may \subseteq Int,
           u.k = (IF op = "JT" THEN F ELSE T) \o K, x.k = (IF op = "JT" THEN T ELSE F) \o K,
           u.b = t.b, u.h = 0, u.s = Free, u.may = Int,
           x.b = t.b, x.h = 0, x.s = Free, x.may = Int
    PROVE  JumpFits(op, t, u, x, FALSE)
<1> SUFFICES ASSUME NEW v \in t.may PROVE JumpHit(op, t, v, u, x, FALSE)
  BY DEF JumpFits, JumpOps
<1>1. Same(<<t.k, t.b>>, <<(IF v # 0 THEN T ELSE F) \o K, t.b>>, v)
  <2>1. Same(<<<<Meaning!Branch(T, F)>> \o K, t.b>>, <<(IF v # 0 THEN T ELSE F) \o K, t.b>>, v)
    BY UnfoldBranch
  <2> QED
    BY <2>1
<1>2. Takes(op, t.s, v) <=> ((op = "JT") <=> (v # 0))
  BY DEF Takes, OnTop
<1>3. Left(t.s) = Free /\ t.s.kind = "value"
  BY DEF Left, OnTop
<1>4. CASE Takes(op, t.s, v)
  <2>1. (IF v # 0 THEN T ELSE F) \o K = x.k
    BY <1>2, <1>4
  <2>2. Hit(t, v, t.b, 0, Free, x)
    BY <1>1, <2>1 DEF Hit
  <2> QED
    BY <1>3, <1>4, <2>2 DEF JumpHit
<1>5. CASE ~Takes(op, t.s, v)
  <2>1. (IF v # 0 THEN T ELSE F) \o K = u.k
    BY <1>2, <1>5
  <2>2. Hit(t, v, t.b, 0, Free, u)
    BY <1>1, <2>1 DEF Hit
  <2> QED
    BY <1>3, <1>5, <2>2 DEF JumpHit
<1> QED
  BY <1>4, <1>5

\* One that always leads to its target.
LEMMA AlwaysFits ==
    ASSUME NEW t, NEW u, NEW x, x.k = t.k, x.b = t.b, x.h = 0, x.s = Free, t.may \subseteq x.may
    PROVE  JumpFits("JMP", t, u, x, FALSE)
<1> SUFFICES ASSUME NEW v \in t.may PROVE JumpHit("JMP", t, v, u, x, FALSE)
  BY DEF JumpFits, JumpOps
<1>1. Hit(t, v, t.b, 0, Free, x)
  BY SameIsEquivalence DEF Hit
<1> QED
  BY <1>1 DEF JumpHit

\* gacReturn: the value, then RET.
LEMMA CompilesReturn ==
    ASSUME NEW n, NEW t, NEW u, NEW G, NEW c \in Nat, NEW m, EntryOK(t, c), EntryOK(u, c),
           n.kind = "return", NodeFits(n, t, u, m)
    PROVE  Compiles(n, t, u, G, c, m)
<1> DEFINE K1 == <<Meaning!Exit>> \o u.k
           w1 == Entry(K1, t.b, 1, OnTop, After(n.value), TRUE, t.n + 1, t.waits, {})
           ins == [op |-> "RET"]
<1>0. EntryOK(t, c + 1) /\ EntryOK(u, c + 1)
  BY EntryGrows
<1>1. /\ Goes(t.k, t.b, <<n>> \o u.k, t.b, t.may) /\ Good(n, t.b, m)
      /\ u.open /\ u.n <= t.n + 1 /\ t.waits \subseteq u.waits /\ t.inner = {}
  BY DEF NodeFits, Opens
<1>2. n.value.kind \in Expressions /\ \A x : Good(n.value, x, m)
  <2>1. PICK S : /\ WellFormed(n, S)
                 /\ \A e \in S : e.kind \in Expressions => \A x : Good(e, x, m)
    BY <1>1, GoodParts
  <2> QED
    BY <2>1 DEF WellFormed, IsExpression
<1>3. After(n.value) \subseteq Int
  BY <1>2, ExpressionParts
<1>4. m => t.b = <<>>
  BY <1>1, NodesAre DEF Good, Expressions
<1>5. IsSeq(u.k) /\ IsSeq(K1)
  BY ConsFacts DEF EntryOK
<1>6. \A v : Same(<<<<n>> \o u.k, t.b>>, <<<<n.value>> \o K1, t.b>>, v)
  BY <1>5, UnfoldReturn
<1>7. Goes(t.k, t.b, <<n.value>> \o K1, t.b, t.may)
  <2>1. Goes(<<n>> \o u.k, t.b, <<n.value>> \o K1, t.b, t.may)
    BY <1>6 DEF Goes
  <2> QED
    BY <1>1, <2>1, GoesTrans
<1>8. \A v : Same(<<K1, t.b>>, <<<<>>, t.b>>, v)
  BY <1>5, UnfoldExit
<1> HIDE DEF K1
<1>9. EntryOK(w1, c + 1)
  BY <1>0, <1>3, <1>5 DEF EntryOK, Entry
<1>10. Leg(n.value, t, w1, G, c + 1, m)
  <2>1. /\ w1.b = t.b /\ After(n.value) \subseteq w1.may /\ w1.h = 1 /\ w1.s = OnTop
        /\ w1.open /\ w1.n <= t.n + 1 /\ t.waits \subseteq w1.waits /\ w1.k = K1
    BY DEF Entry, EntryOK
  <2> HIDE DEF w1
  <2> QED
    BY <1>0, <1>1, <1>2, <1>7, <1>9, <2>1, ExpressionLeg
<1>11. InsertFits(ins, w1, u, m)
  <2>1. ASSUME NEW v \in w1.may PROVE PlainHit(ins, w1, v, u, m)
    BY <1>4, <1>8 DEF PlainHit, Entry
  <2> QED
    BY <1>1, <2>1 DEF InsertFits, PlainFits, PlainOps, Entry, Keeps
<1> HIDE DEF w1, ins
<1>12. Leg(Insert(ins), w1, u, G, c + 1, m)
  BY <1>0, <1>9, <1>11 DEF Leg, Fits, Insert
<1>13. Leads(<<n.value, Insert(ins)>>, t, u, G, c + 1, m)
  BY <1>10, <1>12, EndOfWay, Before2
<1>14. ast2asm(n, c) = <<n.value, Insert(ins)>>
  BY DEF ast2asm, Expressions, gacReturn, ins
<1> QED
  BY <1>13, <1>14, ShortSeqs, NewVarsFacts DEF Compiles

\* The parts of the control structures.
LEMMA LoopParts ==
    ASSUME NEW n, NEW b, NEW m, Good(n, b, m), n.kind \in {"while", "do", "for"}
    PROVE  /\ n.cond.kind \in Expressions /\ \A x : Good(n.cond, x, m)
           /\ n.body.kind = "body" /\ \A x : Good(n.body, x, m)
           /\ n.kind = "for" => /\ n.init.kind \in Expressions /\ \A x : Good(n.init, x, m)
                                /\ n.post.kind \in Expressions /\ \A x : Good(n.post, x, m)
<1>1. PICK S : /\ WellFormed(n, S)
               /\ n.kind \notin Expressions \cup {"return"} =>
                        \A e \in S : \A x : Good(e, x, m)
  BY GoodParts
<1>2. \A e \in S : \A x : Good(e, x, m)
  BY <1>1 DEF Expressions
<1> QED
  BY <1>1, <1>2 DEF WellFormed, IsExpression, IsBlock

\* A jump to a variable that is led to a next statement.
LEMMA JumpLeg ==
    ASSUME NEW op, NEW x, NEW t, NEW u, NEW G, NEW c, NEW m, EntryOK(t, c), EntryOK(u, c),
           x \in Vars(c), G[x].lands = "next", JumpFits(op, t, u, G[x], FALSE),
           t.open, u.open, u.n <= t.n, Keeps(t, u), x \in u.waits
    PROVE  Leg(Jump(op, x), t, u, G, c, m)
<1>1. WaitFits(op, x, t, u, G)
  BY DEF WaitFits
<1> QED
  BY <1>1 DEF Leg, Fits, Jump

\* The start of a loop.
LEMMA StartLeg ==
    ASSUME NEW x, NEW t, NEW u, NEW G, NEW c, NEW m, EntryOK(t, c), EntryOK(u, c),
           x \in Vars(c), G[x].lands = "back", G[x].n \in Nat, t.n <= G[x].n,
           Enter(t, u), Sub(G[x], u), ~u.open, u.n <= t.n, t.inner = {},
           x \notin t.waits, t.waits \cup {x} \subseteq u.waits
    PROVE  Leg(Start(x), t, u, G, c, m)
<1>1. StartFits(x, t, u, G)
  BY DEF StartFits
<1> QED
  BY <1>1 DEF Leg, Fits, Start

\* The jump back to it.
LEMMA BackLeg ==
    ASSUME NEW op, NEW x, NEW t, NEW u, NEW G, NEW c, NEW m, EntryOK(t, c), EntryOK(u, c),
           x \in Vars(c), G[x].lands = "back", t.n >= G[x].n + 2,
           JumpFits(op, t, u, G[x], FALSE), t.open, u.open, u.n <= t.n,
           t.waits \subseteq u.waits \cup {x}, t.inner \subseteq u.inner
    PROVE  Leg(Back(op, x), t, u, G, c, m)
<1>1. BackFits(op, x, t, u, G)
  BY DEF BackFits
<1> QED
  BY <1>1 DEF Leg, Fits, Back

\* The place where the jumps of a variable lead.
LEMMA NextLeg ==
    ASSUME NEW x, NEW t, NEW u, NEW G, NEW c, NEW m, EntryOK(t, c), EntryOK(u, c),
           x \in Vars(c), G[x].lands = "next", Enter(t, u), Sub(G[x], u),
           ~u.open, u.n <= t.n, t.inner = {}, t.waits \subseteq u.waits \cup {x}
    PROVE  Leg(ToNext(x), t, u, G, c, m)
<1>1. NextFits(x, t, u, G)
  BY DEF NextFits
<1> QED
  BY <1>1 DEF Leg, Fits, ToNext

\* One comes to a point without operands, or with what is on the stack left there.
LEMMA EnterMade ==
    ASSUME NEW t, NEW u, t.may \subseteq u.may, Goes(t.k, t.b, u.k, t.b, t.may),
           u.b = t.b, u.h = 0, u.s = Free
    PROVE  Enter(t, u)
BY DEF Enter, Hit, Goes

\* A point that says less about the operands.
LEMMA SubMade ==
    ASSUME NEW t, NEW u, t.may \subseteq u.may, u.k = t.k, u.b = t.b, u.h = t.h,
           u.s \in {t.s, Free}
    PROVE  Sub(t, u)
BY SameIsEquivalence DEF Sub, Hit

\* gacWhile: the condition comes before every turn of the body.
LEMMA CompilesWhile ==
    ASSUME NEW n, NEW t, NEW u, NEW G, NEW c \in Nat, NEW m, EntryOK(t, c), EntryOK(u, c),
           n.kind = "while", NodeFits(n, t, u, m)
    PROVE  Compiles(n, t, u, G, c, m)
<1> DEFINE T  == <<n.body, n>>
           KB == <<Meaning!Branch(T, <<>>)>> \o u.k
           KN == <<n>> \o u.k
           KT == <<n.body>> \o KN
           a1 == <<c, 1>>
           a2 == <<c, 2>>
           x1 == Target(KN, t.b, 0, Free, Int, "back", t.n)
           x2 == Target(u.k, t.b, 0, Free, Int, "next", 0)
           G2 == TwoVars(G, c, x1, x2)
           W1 == t.waits \cup {a1}
           W2 == t.waits \cup {a2}
           W  == W1 \cup {a2}
           w1 == Entry(KN, t.b, 0, Free, Int, FALSE, t.n, W1, {})
           w2 == Entry(KB, t.b, 1, OnTop, After(n.cond), TRUE, t.n + 1, W1, {})
           w3 == Entry(KT, t.b, 0, Free, Int, TRUE, t.n + 1, W, {})
           w4 == Entry(KN, t.b, 0, Free, Int, TRUE, t.n + 2, W, {})
           w5 == Entry(u.k, t.b, 0, Free, {}, TRUE, t.n + 1, W2, {})
<1>0. EntryOK(t, c + 1) /\ EntryOK(u, c + 1)
  BY EntryGrows
<1>1. /\ Goes(t.k, t.b, KN, t.b, t.may) /\ Good(n, t.b, m)
      /\ u.b = t.b /\ Int \subseteq u.may /\ u.may \subseteq Int /\ u.h = 0 /\ u.s = Free
      /\ ~u.open /\ u.n <= t.n + 1 /\ t.waits \subseteq u.waits /\ t.inner = {}
  BY DEF NodeFits, Opens, Expressions, After, EntryOK
<1>2. /\ n.cond.kind \in Expressions /\ \A x : Good(n.cond, x, m)
      /\ n.body.kind = "body" /\ \A x : Good(n.body, x, m)
      /\ \A b : Good(n.cond, b, m)
  BY <1>1, LoopParts
<1>3. After(n.cond) \subseteq Int
  BY <1>2, ExpressionParts
<1>4. IsSeq(u.k) /\ IsSeq(KB) /\ IsSeq(KN) /\ IsSeq(KT)
  BY ConsFacts DEF EntryOK
<1>5. Goes(KN, t.b, <<n.cond>> \o KB, t.b, Int)
  <2>1. \A v : Same(<<KN, t.b>>, <<<<n.cond>> \o KB, t.b>>, v)
    BY <1>4, UnfoldWhile
  <2> QED
    BY <2>1 DEF Goes
<1>6. T \o u.k = KT /\ <<>> \o u.k = u.k
  BY <1>4, Pieces, Empty
<1>7. G2[a1] = x1 /\ G2[a2] = x2 /\ Extends(G, G2, c)
  BY TwoVarsAt
<1>8. a1 \in Vars(c + 1) /\ a2 \in Vars(c + 1) /\ a1 \notin Vars(c)
  BY NewVarsFacts
<1>9. IsSeq(t.b) /\ t.n \in Nat /\ t.may \subseteq Int /\ t.waits \subseteq Vars(c)
      /\ t.waits \subseteq Vars(c + 1)
  BY <1>0 DEF EntryOK
<1> DEFINE ast == ast2asm(n, c)
           l1 == Start(a1)
           l3 == Jump("JNT", a2)
           l5 == Back("JMP", a1)
           l6 == ToNext(a2)
<1>10. ast = <<l1, n.cond, l3, n.body, l5, l6>>
  BY DEF ast2asm, Expressions, gacWhile
<1> HIDE DEF T, KB, KN, KT, G2, a1, a2, ast
<1>11. W \subseteq Vars(c + 1) /\ W1 \subseteq Vars(c + 1) /\ W2 \subseteq Vars(c + 1)
       /\ a1 \notin t.waits /\ a2 \in W /\ W1 \subseteq W /\ W \subseteq W2 \cup {a1}
       /\ W2 \subseteq u.waits \cup {a2}
  BY <1>1, <1>8, <1>9
<1>12. /\ EntryOK(w1, c + 1) /\ EntryOK(w2, c + 1) /\ EntryOK(w3, c + 1)
       /\ EntryOK(w4, c + 1) /\ EntryOK(w5, c + 1)
  <2> HIDE DEF W, W1, W2
  <2> QED
    BY <1>3, <1>4, <1>9, <1>11 DEF EntryOK, Entry
<1>13. Leg(l1, t, w1, G2, c + 1, m)
  <2>1. G2[a1].lands = "back" /\ G2[a1].n \in Nat /\ t.n <= G2[a1].n
    BY <1>7, <1>9 DEF Target
  <2>2. Enter(t, w1)
    BY <1>1, <1>9, EnterMade DEF Entry
  <2>3. Sub(G2[a1], w1)
    BY <1>7, SubMade DEF Entry, Target
  <2>4. ~w1.open /\ w1.n <= t.n /\ t.waits \cup {a1} \subseteq w1.waits
    BY <1>9 DEF Entry
  <2> HIDE DEF w1
  <2> QED
    BY <1>0, <1>1, <1>8, <1>11, <1>12, <2>1, <2>2, <2>3, <2>4, StartLeg
<1>14. Leg(n.cond, w1, w2, G2, c + 1, m)
  <2>1. Goes(w1.k, w1.b, <<n.cond>> \o w2.k, w1.b, w1.may)
    BY <1>5 DEF Entry
  <2>2. /\ w2.b = w1.b /\ After(n.cond) \subseteq w2.may /\ w2.h = 1 /\ w2.s = OnTop
        /\ w2.open /\ w2.n <= w1.n + 1 /\ w1.waits \subseteq w2.waits /\ w1.inner = {}
    BY <1>9 DEF Entry
  <2> HIDE DEF w1, w2
  <2> QED
    BY <1>2, <1>12, <2>1, <2>2, ExpressionLeg
<1>15. Leg(l3, w2, w3, G2, c + 1, m)
  <2>1. JumpFits("JNT", w2, w3, x2, FALSE)
    <3>1. /\ w2.k = <<Meaning!Branch(T, <<>>)>> \o u.k /\ w2.h = 1 /\ w2.s = OnTop
          /\ w2.may \subseteq Int /\ w3.k = T \o u.k /\ x2.k = <<>> \o u.k
          /\ w3.b = w2.b /\ w3.h = 0 /\ w3.s = Free /\ w3.may = Int
          /\ x2.b = w2.b /\ x2.h = 0 /\ x2.s = Free /\ x2.may = Int
      BY <1>3, <1>6 DEF Entry, Target, KB
    <3> HIDE DEF w2, w3, x2
    <3> QED
      BY <1>4, <3>1, BranchFits
  <2>2. x2.lands = "next" /\ w2.open /\ w3.open /\ w3.n <= w2.n /\ Keeps(w2, w3) /\ a2 \in w3.waits
    BY <1>9, <1>11 DEF Entry, Target, Keeps
  <2> HIDE DEF w2, w3, x2
  <2> QED
    BY <1>7, <1>8, <1>12, <2>1, <2>2, JumpLeg
<1>16. Leg(n.body, w3, w4, G2, c + 1, m)
  <2>1. Goes(w3.k, w3.b, <<n.body>> \o w4.k, w3.b, w3.may)
    BY GoesSelf DEF Entry, KT
  <2>2. /\ w4.b = w3.b /\ Int \subseteq w4.may /\ w4.h = 0 /\ w4.s = Free
        /\ w4.open /\ w4.n <= w3.n + 1 /\ w3.waits \subseteq w4.waits /\ w3.inner = {}
    BY <1>9 DEF Entry
  <2> HIDE DEF w3, w4
  <2> QED
    BY <1>2, <1>12, <2>1, <2>2, BlockLeg
<1>17. Leg(l5, w4, w5, G2, c + 1, m)
  <2>1. JumpFits("JMP", w4, w5, x1, FALSE)
    BY AlwaysFits DEF Entry, Target
  <2>2. /\ x1.lands = "back" /\ w4.n >= x1.n + 2 /\ w4.open /\ w5.open /\ w5.n <= w4.n
        /\ w4.waits \subseteq w5.waits \cup {a1} /\ w4.inner \subseteq w5.inner
    BY <1>9, <1>11 DEF Entry, Target
  <2> HIDE DEF w4, w5, x1
  <2> QED
    BY <1>7, <1>8, <1>12, <2>1, <2>2, BackLeg
<1>18. Leg(l6, w5, u, G2, c + 1, m)
  <2>1. x2.lands = "next" /\ u.n <= w5.n /\ w5.inner = {} /\ w5.waits \subseteq u.waits \cup {a2}
    BY <1>1, <1>11 DEF Entry, Target
  <2>2. Enter(w5, u)
    BY DEF Enter, Entry
  <2>3. Sub(x2, u)
    BY <1>1, SubMade DEF Target
  <2> HIDE DEF w5, x2
  <2> QED
    BY <1>0, <1>1, <1>7, <1>8, <1>12, <2>1, <2>2, <2>3, NextLeg
<1> HIDE DEF l1, l3, l5, l6, w1, w2, w3, w4, w5
<1>19. Leads(<<n.body, l5, l6>>, w3, u, G2, c + 1, m)
  BY <1>16, <1>17, <1>18, EndOfWay, Before2, Before3
<1>20. Leads(<<n.cond, l3, n.body, l5, l6>>, w1, u, G2, c + 1, m)
  BY <1>14, <1>15, <1>19, Before4, Before5
<1>21. Leads(ast, t, u, G2, c + 1, m)
  BY <1>10, <1>13, <1>20, Before6
<1>22. IsSeq(ast)
  <2>1. <<l1, n.cond, l3, n.body, l5, l6>> \in Seq({l1, n.cond, l3, n.body, l5, l6})
    OBVIOUS
  <2> QED
    BY <1>10, <2>1, SeqIs
<1> QED
  BY <1>7, <1>21, <1>22 DEF Compiles, ast

\* gacDoWhile: the body comes before every condition.
LEMMA CompilesDo ==
    ASSUME NEW n, NEW t, NEW u, NEW G, NEW c \in Nat, NEW m, EntryOK(t, c), EntryOK(u, c),
           n.kind = "do", NodeFits(n, t, u, m)
    PROVE  Compiles(n, t, u, G, c, m)
<1> DEFINE T  == <<n>>
           KB == <<Meaning!Branch(T, <<>>)>> \o u.k
           KN == T \o u.k
           KC == <<n.cond>> \o KB
           a1 == <<c, 1>>
           x1 == Target(KN, t.b, 0, Free, Int, "back", t.n)
           G2 == TwoVars(G, c, x1, 0)
           W1 == t.waits \cup {a1}
           w1 == Entry(KN, t.b, 0, Free, Int, FALSE, t.n, W1, {})
           w2 == Entry(KC, t.b, 0, Free, Int, TRUE, t.n + 1, W1, {})
           w3 == Entry(KB, t.b, 1, OnTop, After(n.cond), TRUE, t.n + 2, W1, {})
<1>0. EntryOK(t, c + 1) /\ EntryOK(u, c + 1)
  BY EntryGrows
<1>1. /\ Goes(t.k, t.b, KN, t.b, t.may) /\ Good(n, t.b, m)
      /\ u.b = t.b /\ Int \subseteq u.may /\ u.may \subseteq Int /\ u.h = 0 /\ u.s = Free
      /\ u.open /\ u.n <= t.n + 1 /\ t.waits \subseteq u.waits /\ t.inner = {}
  BY DEF NodeFits, Opens, Expressions, After, EntryOK
<1>2. /\ n.cond.kind \in Expressions /\ \A x : Good(n.cond, x, m)
      /\ n.body.kind = "body" /\ \A x : Good(n.body, x, m)
  BY <1>1, LoopParts
<1>3. After(n.cond) \subseteq Int
  BY <1>2, ExpressionParts
<1>4. IsSeq(u.k) /\ IsSeq(KB) /\ IsSeq(KN) /\ IsSeq(KC)
  BY ConsFacts DEF EntryOK
<1>5. Goes(KN, t.b, <<n.body>> \o KC, t.b, Int)
  <2>1. \A v : Same(<<KN, t.b>>, <<<<n.body>> \o KC, t.b>>, v)
    BY <1>4, UnfoldDo
  <2> QED
    BY <2>1 DEF Goes
<1>6. <<>> \o u.k = u.k
  BY <1>4, Empty
<1>7. G2[a1] = x1 /\ G2[<<c, 2>>] = 0 /\ Extends(G, G2, c)
  BY TwoVarsAt
<1>8. a1 \in Vars(c + 1) /\ a1 \notin Vars(c)
  BY NewVarsFacts
<1>9. IsSeq(t.b) /\ t.n \in Nat /\ t.may \subseteq Int /\ t.waits \subseteq Vars(c)
      /\ t.waits \subseteq Vars(c + 1)
  BY <1>0 DEF EntryOK
<1> DEFINE ast == ast2asm(n, c)
           l1 == Start(a1)
           l4 == Back("JT", a1)
<1>10. ast = <<l1, n.body, n.cond, l4>>
  BY DEF ast2asm, Expressions, gacDoWhile
<1> HIDE DEF T, KB, KN, KC, G2, a1, ast
<1>11. W1 \subseteq Vars(c + 1) /\ a1 \notin t.waits /\ W1 \subseteq u.waits \cup {a1}
  BY <1>1, <1>8, <1>9
<1>12. EntryOK(w1, c + 1) /\ EntryOK(w2, c + 1) /\ EntryOK(w3, c + 1)
  <2> HIDE DEF W1
  <2> QED
    BY <1>3, <1>4, <1>9, <1>11 DEF EntryOK, Entry
<1>13. Leg(l1, t, w1, G2, c + 1, m)
  <2>1. G2[a1].lands = "back" /\ G2[a1].n \in Nat /\ t.n <= G2[a1].n
    BY <1>7, <1>9 DEF Target
  <2>2. Enter(t, w1)
    BY <1>1, <1>9, EnterMade DEF Entry
  <2>3. Sub(G2[a1], w1)
    BY <1>7, SubMade DEF Entry, Target
  <2>4. ~w1.open /\ w1.n <= t.n /\ t.waits \cup {a1} \subseteq w1.waits
    BY <1>9 DEF Entry
  <2> HIDE DEF w1
  <2> QED
    BY <1>0, <1>1, <1>8, <1>11, <1>12, <2>1, <2>2, <2>3, <2>4, StartLeg
<1>14. Leg(n.body, w1, w2, G2, c + 1, m)
  <2>1. Goes(w1.k, w1.b, <<n.body>> \o w2.k, w1.b, w1.may)
    BY <1>5 DEF Entry
  <2>2. /\ w2.b = w1.b /\ Int \subseteq w2.may /\ w2.h = 0 /\ w2.s = Free
        /\ w2.open /\ w2.n <= w1.n + 1 /\ w1.waits \subseteq w2.waits /\ w1.inner = {}
    BY <1>9 DEF Entry
  <2> HIDE DEF w1, w2
  <2> QED
    BY <1>2, <1>12, <2>1, <2>2, BlockLeg
<1>15. Leg(n.cond, w2, w3, G2, c + 1, m)
  <2>1. Goes(w2.k, w2.b, <<n.cond>> \o w3.k, w2.b, w2.may)
    BY GoesSelf DEF Entry, KC
  <2>2. /\ w3.b = w2.b /\ After(n.cond) \subseteq w3.may /\ w3.h = 1 /\ w3.s = OnTop
        /\ w3.open /\ w3.n <= w2.n + 1 /\ w2.waits \subseteq w3.waits /\ w2.inner = {}
    BY <1>9 DEF Entry
  <2> HIDE DEF w2, w3
  <2> QED
    BY <1>2, <1>12, <2>1, <2>2, ExpressionLeg
<1>16. Leg(l4, w3, u, G2, c + 1, m)
  <2>1. JumpFits("JT", w3, u, x1, FALSE)
    <3>1. /\ w3.k = <<Meaning!Branch(T, <<>>)>> \o u.k /\ w3.h = 1 /\ w3.s = OnTop
          /\ w3.may \subseteq Int /\ u.k = <<>> \o u.k /\ x1.k = T \o u.k
          /\ u.b = w3.b /\ u.h = 0 /\ u.s = Free /\ u.may = Int
          /\ x1.b = w3.b /\ x1.h = 0 /\ x1.s = Free /\ x1.may = Int
      BY <1>1, <1>3, <1>6 DEF Entry, Target, KB, KN
    <3> HIDE DEF w3, x1
    <3> QED
      BY <1>4, <3>1, BranchFits
  <2>2. /\ x1.lands = "back" /\ w3.n >= x1.n + 2 /\ w3.open /\ u.n <= w3.n
        /\ w3.waits \subseteq u.waits \cup {a1} /\ w3.inner \subseteq u.inner
    BY <1>0, <1>1, <1>9, <1>11 DEF Entry, Target, EntryOK
  <2> HIDE DEF w3, x1
  <2> QED
    BY <1>0, <1>1, <1>7, <1>8, <1>12, <2>1, <2>2, BackLeg
<1> HIDE DEF l1, l4, w1, w2, w3
<1>17. Leads(<<n.cond, l4>>, w2, u, G2, c + 1, m)
  BY <1>15, <1>16, EndOfWay, Before2
<1>18. Leads(ast, t, u, G2, c + 1, m)
  BY <1>10, <1>13, <1>14, <1>17, Before3, Before4
<1>19. IsSeq(ast)
  <2>1. <<l1, n.body, n.cond, l4>> \in Seq({l1, n.body, n.cond, l4})
    OBVIOUS
  <2> QED
    BY <1>10, <2>1, SeqIs
<1> QED
  BY <1>7, <1>18, <1>19 DEF Compiles, ast

\* Append gives a sequence.
LEMMA AppendIsSeq == \A s, x : IsSeq(s) => IsSeq(Append(s, x))
<1> SUFFICES ASSUME NEW s, NEW x, IsSeq(s) PROVE IsSeq(Append(s, x))
  OBVIOUS
<1>1. PICK S : s \in Seq(S)
  BY DEF IsSeq
<1>2. s \in Seq(S \cup {x})
  BY <1>1
<1>3. Append(s, x) \in Seq(S \cup {x})
  BY <1>2
<1> QED
  BY <1>3, SeqIs

\* Node n opens a block, in which R comes next.
OpensTo(n, K, b, R) == \A v : Same(<<<<n>> \o K, b>>, <<R, Append(b, n.scope)>>, v)

\* PUSH_SCOPE opens the block of its node.
LEMMA PushLeg ==
    ASSUME NEW n, NEW K, NEW b, IsSeq(K), IsSeq(b), NEW R, NEW t, NEW u, NEW G, NEW c, NEW m,
           EntryOK(t, c), EntryOK(u, c), t.may \subseteq u.may,
           OpensTo(n, K, b, R),
           t.k = <<n>> \o K, t.b = b, t.h = 0, t.s = Free, t.open,
           u.k = R, u.b = Append(b, n.scope), u.h = 0, u.s = Free, u.open,
           u.n <= t.n, Keeps(t, u)
    PROVE  Leg(PushScope(n), t, u, G, c, m)
<1> DEFINE ins == [op |-> "PUSH_SCOPE", scope |-> n.scope]
<1>1. ASSUME NEW v \in t.may PROVE PlainHit(ins, t, v, u, m)
  <2>1. Hit(t, v, Append(t.b, ins.scope), t.h, t.s, u)
    BY DEF Hit, OpensTo
  <2> QED
    BY <2>1 DEF PlainHit
<1>2. InsertFits(ins, t, u, m)
  BY <1>1 DEF InsertFits, PlainFits, PlainOps
<1> QED
  BY <1>2 DEF Leg, Fits, Insert, PushScope

\* POP_SCOPE closes it.
LEMMA PopLeg ==
    ASSUME NEW scope, NEW K, NEW b, IsSeq(K), IsSeq(b), NEW t, NEW u, NEW G, NEW c, NEW m,
           EntryOK(t, c), EntryOK(u, c), t.may \subseteq u.may,
           t.k = <<Meaning!Close(scope)>> \o K, t.b = Append(b, scope),
           t.h = 0, t.s = Free, t.open,
           u.k = K, u.b = b, u.h = 0, u.s = Free, u.open, u.n <= t.n, Keeps(t, u)
    PROVE  Leg(PopScope, t, u, G, c, m)
<1> DEFINE ins == [op |-> "POP_SCOPE"]
<1>1. ASSUME NEW v \in t.may PROVE PlainHit(ins, t, v, u, m)
  <2>1. Same(<<<<Meaning!Close(scope)>> \o K, Append(b, scope)>>, <<K, b>>, v)
    BY UnfoldClose
  <2>2. Hit(t, v, b, t.h, t.s, u)
    BY <2>1 DEF Hit
  <2> QED
    BY <2>2 DEF PlainHit
<1>2. InsertFits(ins, t, u, m)
  BY <1>1 DEF InsertFits, PlainFits, PlainOps
<1> QED
  BY <1>2 DEF Leg, Fits, Insert, PopScope

\* A new statement leads on.
LEMMA StatementLeg ==
    ASSUME NEW t, NEW u, NEW G, NEW c, NEW m, EntryOK(t, c), EntryOK(u, c),
           Enter(t, u), u.open, u.n = t.n + 1, t.waits \subseteq u.waits, t.inner = {}
    PROVE  Leg(newStatment, t, u, G, c, m)
<1>1. BeginFits(t, u)
  BY DEF BeginFits
<1> QED
  BY <1>1 DEF Leg, Fits, newStatment

\* gacFor: one block for the loop, opened once and closed on its only way
\* out.
LEMMA CompilesFor ==
    ASSUME NEW n, NEW t, NEW u, NEW G, NEW c \in Nat, NEW m, EntryOK(t, c), EntryOK(u, c),
           n.kind = "for", NodeFits(n, t, u, m)
    PROVE  Compiles(n, t, u, G, c, m)
<1> DEFINE T  == <<n.body, n.post, Turn(n)>>
           KC == <<Meaning!Close(n.scope)>> \o u.k
           KB == <<Meaning!Branch(T, <<>>)>> \o KC
           KN == <<n>> \o u.k
           KT == <<Turn(n)>> \o KC
           KI == <<n.init>> \o KT
           KP == <<n.post>> \o KT
           KY == <<n.body>> \o KP
           B  == Append(t.b, n.scope)
           a1 == <<c, 1>>
           a2 == <<c, 2>>
           x1 == Target(KT, B, 0, Free, Int, "back", t.n + 1)
           x2 == Target(KC, B, 0, Free, Int, "next", 0)
           G2 == TwoVars(G, c, x1, x2)
           W1 == t.waits \cup {a1}
           W2 == t.waits \cup {a2}
           W  == W1 \cup {a2}
           w1 == Entry(KN, t.b, 0, Free, Int, TRUE, t.n + 1, t.waits, {})
           w2 == Entry(KI, B, 0, Free, Int, TRUE, t.n + 1, t.waits, {})
           w3 == Entry(KT, B, 1, OnTop, Int, TRUE, t.n + 1, t.waits, {})
           w4 == Entry(KT, B, 0, Free, Int, FALSE, t.n + 1, W1, {})
           w5 == Entry(KB, B, 1, OnTop, After(n.cond), TRUE, t.n + 2, W1, {})
           w6 == Entry(KY, B, 0, Free, Int, TRUE, t.n + 2, W, {})
           w7 == Entry(KP, B, 0, Free, Int, TRUE, t.n + 3, W, {})
           w8 == Entry(KT, B, 1, OnTop, Int, TRUE, t.n + 3, W, {})
           w9 == Entry(KC, B, 0, Free, {}, TRUE, t.n + 1, W2, {})
           w10 == Entry(KC, B, 0, Free, Int, FALSE, t.n + 1, t.waits, {})
           w11 == Entry(KC, B, 0, Free, Int, TRUE, t.n + 2, t.waits, {})
<1>0. EntryOK(t, c + 1) /\ EntryOK(u, c + 1)
  BY EntryGrows
<1>1. /\ Goes(t.k, t.b, KN, t.b, t.may) /\ Good(n, t.b, m)
      /\ u.b = t.b /\ Int \subseteq u.may /\ u.may \subseteq Int /\ u.h = 0 /\ u.s = Free
      /\ u.open /\ u.n <= t.n + 1 /\ t.waits \subseteq u.waits /\ t.inner = {}
  BY DEF NodeFits, Opens, Expressions, After, EntryOK
<1>2. /\ n.cond.kind \in Expressions /\ \A x : Good(n.cond, x, m)
      /\ n.body.kind = "body" /\ \A x : Good(n.body, x, m)
      /\ n.init.kind \in Expressions /\ \A x : Good(n.init, x, m)
      /\ n.post.kind \in Expressions /\ \A x : Good(n.post, x, m)
      /\ \A x : Good(n.cond, x, m)
  BY <1>1, LoopParts
<1>3. After(n.cond) \subseteq Int /\ After(n.init) \subseteq Int /\ After(n.post) \subseteq Int
  BY <1>2, ExpressionParts
<1>4. /\ IsSeq(u.k) /\ IsSeq(KC) /\ IsSeq(KB) /\ IsSeq(KN) /\ IsSeq(KT) /\ IsSeq(KI)
      /\ IsSeq(KP) /\ IsSeq(KY)
  <2>1. IsSeq(u.k)
    BY DEF EntryOK
  <2>2. IsSeq(KC) /\ IsSeq(KN)
    BY <2>1, ConsFacts
  <2>3. IsSeq(KT) /\ IsSeq(KB)
    BY <2>2, ConsFacts
  <2>4. IsSeq(KI) /\ IsSeq(KP)
    BY <2>3, ConsFacts
  <2> QED
    BY <2>1, <2>2, <2>3, <2>4, ConsFacts
<1>5. Goes(KT, B, <<n.cond>> \o KB, B, Int)
  <2>1. Turn(n).kind = "turn" /\ Turn(n).cond = n.cond /\ Turn(n).body = n.body /\ Turn(n).post = n.post
    BY DEF Turn
  <2> DEFINE z == Turn(n)
  <2> HIDE DEF z
  <2>2. \A v : Same(<<<<z>> \o KC, B>>,
                    <<<<z.cond>> \o (<<Meaning!Branch(<<z.body, z.post, z>>, <<>>)>> \o KC), B>>, v)
    BY <1>4, <2>1, UnfoldTurn DEF z
  <2>3. \A v : Same(<<KT, B>>, <<<<n.cond>> \o KB, B>>, v)
    BY <2>1, <2>2 DEF z
  <2> QED
    BY <2>3 DEF Goes
<1>6. T \o KC = KY /\ <<>> \o KC = KC
  <2> DEFINE z == Turn(n)
  <2> HIDE DEF z, KC
  <2>1. <<n.body, n.post, z>> \o KC = <<n.body>> \o (<<n.post>> \o (<<z>> \o KC))
    <3>1. IsSeq(KC)
      BY <1>4
    <3> QED
      BY ONLY <3>1, Pieces
  <2> QED
    BY <1>4, <2>1, Empty DEF z
<1>7. \A v : Same(<<KN, t.b>>, <<KI, B>>, v)
  BY <1>4, UnfoldFor
<1>8. G2[a1] = x1 /\ G2[a2] = x2 /\ Extends(G, G2, c)
  BY TwoVarsAt
<1>9. a1 \in Vars(c + 1) /\ a2 \in Vars(c + 1) /\ a1 \notin Vars(c)
  BY NewVarsFacts
<1>10. IsSeq(t.b) /\ t.n \in Nat /\ t.may \subseteq Int /\ t.waits \subseteq Vars(c)
       /\ t.waits \subseteq Vars(c + 1) /\ u.n \in Nat
  BY <1>0 DEF EntryOK
<1>11. IsSeq(B)
  BY <1>10, AppendIsSeq
<1> DEFINE ast == ast2asm(n, c)
           l2 == PushScope(n)
           l4 == Start(a1)
           l6 == Jump("JNT", a2)
           l9 == Back("JMP", a1)
           l10 == ToNext(a2)
<1>12. ast = <<newStatment, l2, n.init, l4, n.cond, l6, n.body, n.post, l9, l10, newStatment, PopScope>>
  BY DEF ast2asm, Expressions, gacFor
<1> HIDE DEF T, KC, KB, KN, KT, KI, KP, KY, G2, a1, a2, ast
<1>13. W \subseteq Vars(c + 1) /\ W1 \subseteq Vars(c + 1) /\ W2 \subseteq Vars(c + 1)
       /\ a1 \notin t.waits /\ a2 \in W /\ W1 \subseteq W /\ W \subseteq W2 \cup {a1}
       /\ W2 \subseteq t.waits \cup {a2} /\ t.waits \cup {a1} \subseteq W1
  BY <1>1, <1>9, <1>10
<1>14. /\ EntryOK(w1, c + 1) /\ EntryOK(w2, c + 1) /\ EntryOK(w3, c + 1)
       /\ EntryOK(w4, c + 1) /\ EntryOK(w5, c + 1) /\ EntryOK(w6, c + 1)
       /\ EntryOK(w7, c + 1) /\ EntryOK(w8, c + 1) /\ EntryOK(w9, c + 1)
       /\ EntryOK(w10, c + 1) /\ EntryOK(w11, c + 1)
  <2> HIDE DEF W, W1, W2, B
  <2> QED
    BY <1>3, <1>4, <1>10, <1>11, <1>13 DEF EntryOK, Entry
<1>15. Leg(newStatment, t, w1, G2, c + 1, m)
  <2>1. Enter(t, w1)
    BY <1>1, <1>10, EnterMade DEF Entry
  <2>2. w1.open /\ w1.n = t.n + 1 /\ t.waits \subseteq w1.waits
    BY DEF Entry
  <2> HIDE DEF w1
  <2> QED
    BY <1>0, <1>1, <1>14, <2>1, <2>2, StatementLeg
<1>16. Leg(l2, w1, w2, G2, c + 1, m)
  <2>1. /\ w1.may \subseteq w2.may /\ w1.k = <<n>> \o u.k /\ w1.b = t.b /\ w1.h = 0 /\ w1.s = Free
        /\ w1.open /\ w2.k = KI /\ w2.b = Append(t.b, n.scope) /\ w2.h = 0 /\ w2.s = Free
        /\ w2.open /\ w2.n <= w1.n /\ Keeps(w1, w2)
    BY <1>10 DEF Entry, Keeps, KN
  <2>2. OpensTo(n, u.k, t.b, KI)
    BY <1>7 DEF KN, OpensTo
  <2> HIDE DEF w1, w2
  <2> QED
    BY <1>4, <1>10, <1>14, <2>1, <2>2, PushLeg
<1>17. Leg(n.init, w2, w3, G2, c + 1, m)
  <2>1. Goes(w2.k, w2.b, <<n.init>> \o w3.k, w2.b, w2.may)
    BY GoesSelf DEF Entry, KI
  <2>2. /\ w3.b = w2.b /\ After(n.init) \subseteq w3.may /\ w3.h = 1 /\ w3.s = OnTop
        /\ w3.open /\ w3.n <= w2.n + 1 /\ w2.waits \subseteq w3.waits /\ w2.inner = {}
    BY <1>3, <1>10 DEF Entry
  <2> HIDE DEF w2, w3
  <2> QED
    BY <1>2, <1>14, <2>1, <2>2, ExpressionLeg
<1>18. Leg(l4, w3, w4, G2, c + 1, m)
  <2>1. x1.lands = "back" /\ x1.n \in Nat /\ w3.n <= x1.n
    BY <1>10 DEF Target, Entry
  <2>2. Enter(w3, w4)
    <3>1. /\ w3.may \subseteq w4.may /\ w3.k = w4.k /\ w4.b = w3.b /\ w4.h = 0 /\ w4.s = Free
      BY DEF Entry
    <3> HIDE DEF w3, w4
    <3> QED
      BY <3>1, GoesSelf, EnterMade
  <2>3. Sub(x1, w4)
    BY SubMade, SMTT(30) DEF Entry, Target
  <2>4. ~w4.open /\ w4.n <= w3.n /\ w3.waits \cup {a1} \subseteq w4.waits /\ w3.inner = {}
        /\ a1 \notin w3.waits
    BY <1>10, <1>13 DEF Entry
  <2> HIDE DEF w3, w4, x1
  <2> QED
    BY <1>8, <1>9, <1>14, <2>1, <2>2, <2>3, <2>4, StartLeg
<1>19. Leg(n.cond, w4, w5, G2, c + 1, m)
  <2>1. Goes(w4.k, w4.b, <<n.cond>> \o w5.k, w4.b, w4.may)
    BY <1>5 DEF Entry
  <2>2. /\ w5.b = w4.b /\ After(n.cond) \subseteq w5.may /\ w5.h = 1 /\ w5.s = OnTop
        /\ w5.open /\ w5.n <= w4.n + 1 /\ w4.waits \subseteq w5.waits /\ w4.inner = {}
    BY <1>10 DEF Entry
  <2> HIDE DEF w4, w5
  <2> QED
    BY <1>2, <1>14, <2>1, <2>2, ExpressionLeg
<1>20. Leg(l6, w5, w6, G2, c + 1, m)
  <2>1. JumpFits("JNT", w5, w6, x2, FALSE)
    <3>1. /\ w5.k = <<Meaning!Branch(T, <<>>)>> \o KC /\ w5.h = 1 /\ w5.s = OnTop
          /\ w5.may \subseteq Int /\ w6.k = T \o KC /\ x2.k = <<>> \o KC
          /\ w6.b = w5.b /\ w6.h = 0 /\ w6.s = Free /\ w6.may = Int
          /\ x2.b = w5.b /\ x2.h = 0 /\ x2.s = Free /\ x2.may = Int
      BY <1>3, <1>6 DEF Entry, Target, KB
    <3> HIDE DEF w5, w6, x2
    <3> QED
      BY <1>4, <3>1, BranchFits
  <2>2. x2.lands = "next" /\ w5.open /\ w6.open /\ w6.n <= w5.n /\ Keeps(w5, w6) /\ a2 \in w6.waits
    BY <1>10, <1>13 DEF Entry, Target, Keeps
  <2> HIDE DEF w5, w6, x2
  <2> QED
    BY <1>8, <1>9, <1>14, <2>1, <2>2, JumpLeg
<1>21. Leg(n.body, w6, w7, G2, c + 1, m)
  <2>1. Goes(w6.k, w6.b, <<n.body>> \o w7.k, w6.b, w6.may)
    BY GoesSelf DEF Entry, KY
  <2>2. /\ w7.b = w6.b /\ Int \subseteq w7.may /\ w7.h = 0 /\ w7.s = Free
        /\ w7.open /\ w7.n <= w6.n + 1 /\ w6.waits \subseteq w7.waits /\ w6.inner = {}
    BY <1>10 DEF Entry
  <2> HIDE DEF w6, w7
  <2> QED
    BY <1>2, <1>14, <2>1, <2>2, BlockLeg
<1>22. Leg(n.post, w7, w8, G2, c + 1, m)
  <2>1. Goes(w7.k, w7.b, <<n.post>> \o w8.k, w7.b, w7.may)
    BY GoesSelf DEF Entry, KP
  <2>2. /\ w8.b = w7.b /\ After(n.post) \subseteq w8.may /\ w8.h = 1 /\ w8.s = OnTop
        /\ w8.open /\ w8.n <= w7.n + 1 /\ w7.waits \subseteq w8.waits /\ w7.inner = {}
    BY <1>3, <1>10 DEF Entry
  <2> HIDE DEF w7, w8
  <2> QED
    BY <1>2, <1>14, <2>1, <2>2, ExpressionLeg
<1>23. Leg(l9, w8, w9, G2, c + 1, m)
  <2>1. JumpFits("JMP", w8, w9, x1, FALSE)
    BY AlwaysFits DEF Entry, Target
  <2>2. /\ x1.lands = "back" /\ w8.n >= x1.n + 2 /\ w8.open /\ w9.open /\ w9.n <= w8.n
        /\ w8.waits \subseteq w9.waits \cup {a1} /\ w8.inner \subseteq w9.inner
    BY <1>10, <1>13 DEF Entry, Target
  <2> HIDE DEF w8, w9, x1
  <2> QED
    BY <1>8, <1>9, <1>14, <2>1, <2>2, BackLeg
<1>24. Leg(l10, w9, w10, G2, c + 1, m)
  <2>1. x2.lands = "next" /\ w10.n <= w9.n /\ w9.inner = {} /\ w9.waits \subseteq w10.waits \cup {a2}
        /\ ~w10.open
    BY <1>10, <1>13 DEF Entry, Target
  <2>2. Enter(w9, w10)
    BY DEF Enter, Entry
  <2>3. Sub(x2, w10)
    BY SubMade DEF Target, Entry
  <2> HIDE DEF w9, w10, x2
  <2> QED
    BY <1>8, <1>9, <1>14, <2>1, <2>2, <2>3, NextLeg
<1>25. Leg(newStatment, w10, w11, G2, c + 1, m)
  <2>1. Enter(w10, w11)
    <3>1. /\ w10.may \subseteq w11.may /\ w10.k = w11.k /\ w11.b = w10.b /\ w11.h = 0 /\ w11.s = Free
      BY DEF Entry
    <3> HIDE DEF w10, w11
    <3> QED
      BY <3>1, GoesSelf, EnterMade
  <2>2. w11.open /\ w11.n = w10.n + 1 /\ w10.waits \subseteq w11.waits /\ w10.inner = {}
    BY <1>10 DEF Entry
  <2> HIDE DEF w10, w11
  <2> QED
    BY <1>14, <2>1, <2>2, StatementLeg
<1>26. Leg(PopScope, w11, u, G2, c + 1, m)
  <2>1. /\ w11.may \subseteq u.may /\ w11.k = <<Meaning!Close(n.scope)>> \o u.k
        /\ w11.b = Append(t.b, n.scope) /\ w11.h = 0 /\ w11.s = Free /\ w11.open
    BY <1>1 DEF Entry, KC
  <2>2. u.n <= w11.n /\ Keeps(w11, u)
    BY <1>1, <1>10 DEF Entry, Keeps
  <2> HIDE DEF w11
  <2> QED
    BY <1>0, <1>1, <1>4, <1>10, <1>14, <2>1, <2>2, PopLeg
<1> HIDE DEF l2, l4, l6, l9, l10, w1, w2, w3, w4, w5, w6, w7, w8, w9, w10, w11
<1>27. Leads(<<l10, newStatment, PopScope>>, w9, u, G2, c + 1, m)
  BY <1>24, <1>25, <1>26, EndOfWay, Before2, Before3
<1>28. Leads(<<n.post, l9, l10, newStatment, PopScope>>, w7, u, G2, c + 1, m)
  BY <1>22, <1>23, <1>27, Before4, Before5
<1>29. Leads(<<l6, n.body, n.post, l9, l10, newStatment, PopScope>>, w5, u, G2, c + 1, m)
  BY <1>20, <1>21, <1>28, Before6, Before7
<1>30. Leads(<<l4, n.cond, l6, n.body, n.post, l9, l10, newStatment, PopScope>>, w3, u, G2, c + 1, m)
  BY <1>18, <1>19, <1>29, Before8, Before9
<1>31. Leads(<<l2, n.init, l4, n.cond, l6, n.body, n.post, l9, l10, newStatment, PopScope>>,
             w1, u, G2, c + 1, m)
  BY <1>16, <1>17, <1>30, Before10, Before11
<1>32. Leads(ast, t, u, G2, c + 1, m)
  BY <1>12, <1>15, <1>31, Before12
<1>33. IsSeq(ast)
  <2>1. <<newStatment, l2, n.init, l4, n.cond, l6, n.body, n.post, l9, l10, newStatment, PopScope>>
          \in Seq({newStatment, l2, n.init, l4, n.cond, l6, n.body, n.post, l9, l10, newStatment, PopScope})
    OBVIOUS
  <2> QED
    BY <1>12, <2>1, SeqIs
<1> QED
  BY <1>8, <1>32, <1>33 DEF Compiles, ast

\* The parts of an if; its other branches are a list of nodes.
LEMMA IfParts ==
    ASSUME NEW n, NEW b, NEW m, Good(n, b, m), n.kind = "if"
    PROVE  /\ IsSeq(n.branches) /\ n.branches # <<>>
           /\ n.branches[1].cond.kind \in Expressions /\ \A x : Good(n.branches[1].cond, x, m)
           /\ n.branches[1].body.kind = "body" /\ \A x : Good(n.branches[1].body, x, m)
           /\ \E S : Others(n) \in Seq(S) /\ \A e \in S : \A x : Good(e, x, m)
<1>1. PICK S : /\ WellFormed(n, S)
               /\ n.kind \notin Expressions \cup {"return"} =>
                        \A e \in S : \A x : Good(e, x, m)
  BY GoodParts
<1>2. \A e \in S : \A x : Good(e, x, m)
  BY <1>1 DEF Expressions
<1>3. /\ n.branches \in Seq([cond : S, body : S]) /\ n.branches # <<>> /\ n.else \in Seq(S)
      /\ \A i \in DOMAIN n.branches :
            IsExpression(n.branches[i].cond, S) /\ IsBlock(n.branches[i].body, S)
      /\ Len(n.branches) > 1 => [n EXCEPT !.branches = Tail(@)] \in S
  BY <1>1 DEF WellFormed
<1>4. Len(n.branches) \in Nat \ {0} /\ 1 \in DOMAIN n.branches
  BY <1>3
<1>5. Others(n) \in Seq(S)
  <2>1. CASE Len(n.branches) = 1
    BY <1>3, <2>1 DEF Others
  <2>2. CASE Len(n.branches) # 1
    <3> DEFINE z == [n EXCEPT !.branches = Tail(@)]
    <3>1. z \in S
      <4>1. Len(n.branches) > 1
        <5>1. \A i \in Nat \ {0} : i # 1 => i > 1
          OBVIOUS
        <5> QED
          BY ONLY <1>4, <2>2, <5>1
      <4> QED
        BY <1>3, <4>1
    <3>2. Others(n) = <<z>>
      BY <2>2 DEF Others
    <3> HIDE DEF z
    <3> QED
      BY <3>1, <3>2
  <2> QED
    BY <2>1, <2>2
<1> QED
  BY <1>2, <1>3, <1>4, <1>5, SeqIs DEF IsExpression, IsBlock

\* gacIf: exactly the body of the first condition that holds, or the else.
LEMMA CompilesIf ==
    ASSUME NEW n, NEW t, NEW u, NEW G, NEW c \in Nat, NEW m, EntryOK(t, c), EntryOK(u, c),
           n.kind = "if", NodeFits(n, t, u, m)
    PROVE  Compiles(n, t, u, G, c, m)
<1> DEFINE cond == n.branches[1].cond
           body == n.branches[1].body
           T  == <<body>>
           F  == Others(n)
           KB == <<Meaning!Branch(T, F)>> \o u.k
           KN == <<n>> \o u.k
           KT == <<body>> \o u.k
           KF == F \o u.k
           a1 == <<c, 1>>
           a2 == <<c, 2>>
           x1 == Target(KF, t.b, 0, Free, Int, "next", 0)
           x2 == Target(u.k, t.b, 0, Free, Int, "next", 0)
           G2 == TwoVars(G, c, x1, x2)
           W1 == t.waits \cup {a1}
           W2 == t.waits \cup {a2}
           W  == W1 \cup {a2}
           w1 == Entry(KB, t.b, 1, OnTop, After(cond), TRUE, t.n + 1, t.waits, {})
           w2 == Entry(KT, t.b, 0, Free, Int, TRUE, t.n + 1, W1, {})
           w3 == Entry(u.k, t.b, 0, Free, Int, TRUE, t.n + 1, W1, {})
           w4 == Entry(u.k, t.b, 0, Free, {}, TRUE, t.n + 1, W, {})
           w5 == Entry(KF, t.b, 0, Free, Int, FALSE, t.n + 1, W2, {})
<1>0. EntryOK(t, c + 1) /\ EntryOK(u, c + 1)
  BY EntryGrows
<1>1. /\ Goes(t.k, t.b, KN, t.b, t.may) /\ Good(n, t.b, m)
      /\ u.b = t.b /\ Int \subseteq u.may /\ u.may \subseteq Int /\ u.h = 0 /\ u.s = Free
      /\ ~u.open /\ u.n <= t.n + 1 /\ t.waits \subseteq u.waits /\ t.inner = {}
  BY DEF NodeFits, Opens, Expressions, After, EntryOK
<1>2. /\ IsSeq(n.branches) /\ n.branches # <<>>
      /\ cond.kind \in Expressions /\ \A x : Good(cond, x, m)
      /\ body.kind = "body" /\ \A x : Good(body, x, m)
  BY <1>1, IfParts
<1>3. After(cond) \subseteq Int
  BY <1>2, ExpressionParts
<1>4. PICK S : F \in Seq(S) /\ \A e \in S : \A x : Good(e, x, m)
  BY <1>1, IfParts
<1>5. IsSeq(u.k) /\ IsSeq(KB) /\ IsSeq(KN) /\ IsSeq(KT) /\ IsSeq(F) /\ IsSeq(KF)
  <2>1. IsSeq(u.k) /\ IsSeq(F)
    BY <1>4, SeqIs DEF EntryOK
  <2> QED
    BY <2>1, ConsFacts, Joined
<1>6. Goes(KN, t.b, <<cond>> \o KB, t.b, Int)
  <2>1. \A v : Same(<<KN, t.b>>, <<<<cond>> \o KB, t.b>>, v)
    BY <1>2, <1>5, UnfoldIf
  <2> QED
    BY <2>1 DEF Goes
<1>7. G2[a1] = x1 /\ G2[a2] = x2 /\ Extends(G, G2, c)
  BY TwoVarsAt
<1>8. a1 \in Vars(c + 1) /\ a2 \in Vars(c + 1) /\ a1 \notin Vars(c)
  BY NewVarsFacts
<1>9. IsSeq(t.b) /\ t.n \in Nat /\ t.may \subseteq Int /\ t.waits \subseteq Vars(c)
      /\ t.waits \subseteq Vars(c + 1)
  BY <1>0 DEF EntryOK
<1> DEFINE ast == ast2asm(n, c)
           l2 == Jump("JNT", a1)
           l4 == Jump("JMP", a2)
           l5 == ToNext(a1)
           l7 == ToNext(a2)
<1>10. ast = <<cond, l2, body, l4, l5>> \o F \o <<l7>>
  BY DEF ast2asm, Expressions, gacIf, Others
<1> HIDE DEF cond, body, T, F, KB, KN, KT, KF, G2, a1, a2, ast
<1>11. W \subseteq Vars(c + 1) /\ W1 \subseteq Vars(c + 1) /\ W2 \subseteq Vars(c + 1)
       /\ t.waits \subseteq W1 /\ a1 \in W1 /\ a2 \in W /\ W1 \subseteq W /\ W \subseteq W2 \cup {a1}
       /\ W2 \subseteq u.waits \cup {a2}
  BY <1>1, <1>8, <1>9
<1>12. /\ EntryOK(w1, c + 1) /\ EntryOK(w2, c + 1) /\ EntryOK(w3, c + 1)
       /\ EntryOK(w4, c + 1) /\ EntryOK(w5, c + 1)
  <2> HIDE DEF W, W1, W2
  <2> QED
    BY <1>3, <1>5, <1>9, <1>11 DEF EntryOK, Entry
<1>13. Leg(cond, t, w1, G2, c + 1, m)
  <2>1. Goes(t.k, t.b, <<cond>> \o w1.k, t.b, t.may)
    <3>1. Goes(KN, t.b, <<cond>> \o KB, t.b, t.may)
      BY <1>6, <1>9 DEF Goes
    <3> QED
      BY <1>1, <3>1, GoesTrans DEF Entry
  <2>2. /\ w1.b = t.b /\ After(cond) \subseteq w1.may /\ w1.h = 1 /\ w1.s = OnTop
        /\ w1.open /\ w1.n <= t.n + 1 /\ t.waits \subseteq w1.waits /\ t.inner = {}
    BY <1>1, <1>9 DEF Entry
  <2> HIDE DEF w1
  <2> QED
    BY <1>0, <1>2, <1>12, <2>1, <2>2, ExpressionLeg
<1>14. Leg(l2, w1, w2, G2, c + 1, m)
  <2>1. JumpFits("JNT", w1, w2, x1, FALSE)
    <3>1. /\ w1.k = <<Meaning!Branch(T, F)>> \o u.k /\ w1.h = 1 /\ w1.s = OnTop
          /\ w1.may \subseteq Int /\ w2.k = T \o u.k /\ x1.k = F \o u.k
          /\ w2.b = w1.b /\ w2.h = 0 /\ w2.s = Free /\ w2.may = Int
          /\ x1.b = w1.b /\ x1.h = 0 /\ x1.s = Free /\ x1.may = Int
      BY <1>3 DEF Entry, Target, KB, KT, KF, T
    <3> HIDE DEF w1, w2, x1
    <3> QED
      BY <1>5, <3>1, BranchFits
  <2>2. x1.lands = "next" /\ w1.open /\ w2.open /\ w2.n <= w1.n /\ Keeps(w1, w2) /\ a1 \in w2.waits
    BY <1>9, <1>11 DEF Entry, Target, Keeps
  <2> HIDE DEF w1, w2, x1
  <2> QED
    BY <1>7, <1>8, <1>12, <2>1, <2>2, JumpLeg
<1>15. Leg(body, w2, w3, G2, c + 1, m)
  <2>1. Goes(w2.k, w2.b, <<body>> \o w3.k, w2.b, w2.may)
    BY GoesSelf DEF Entry, KT
  <2>2. /\ w3.b = w2.b /\ Int \subseteq w3.may /\ w3.h = 0 /\ w3.s = Free
        /\ w3.open /\ w3.n <= w2.n + 1 /\ w2.waits \subseteq w3.waits /\ w2.inner = {}
    BY <1>9 DEF Entry
  <2> HIDE DEF w2, w3
  <2> QED
    BY <1>2, <1>12, <2>1, <2>2, BlockLeg
<1>16. Leg(l4, w3, w4, G2, c + 1, m)
  <2>1. JumpFits("JMP", w3, w4, x2, FALSE)
    BY AlwaysFits DEF Entry, Target
  <2>2. /\ x2.lands = "next" /\ w3.open /\ w4.open /\ w4.n <= w3.n
        /\ Keeps(w3, w4) /\ a2 \in w4.waits
    BY <1>9, <1>11 DEF Entry, Target, Keeps
  <2> HIDE DEF w3, w4, x2
  <2> QED
    BY <1>7, <1>8, <1>12, <2>1, <2>2, JumpLeg
<1>17. Leg(l5, w4, w5, G2, c + 1, m)
  <2>1. x1.lands = "next" /\ w5.n <= w4.n /\ w4.inner = {} /\ w4.waits \subseteq w5.waits \cup {a1}
        /\ ~w5.open
    BY <1>9, <1>11 DEF Entry, Target
  <2>2. Enter(w4, w5)
    BY DEF Enter, Entry
  <2>3. Sub(x1, w5)
    BY SubMade DEF Target, Entry
  <2> HIDE DEF w4, w5, x1
  <2> QED
    BY <1>7, <1>8, <1>12, <2>1, <2>2, <2>3, NextLeg
<1>18. PICK w6 : /\ Leads(F, w5, w6, G2, c + 1, m) /\ EntryOK(w6, c + 1)
                 /\ Goes(w6.k, t.b, u.k, t.b, w6.may) /\ w6.b = t.b
                 /\ w6.n = t.n + 1 /\ w6.waits = W2 /\ w6.inner = {}
  <2>1. /\ w5.b = t.b /\ w5.n = t.n + 1 /\ w5.waits = W2 /\ w5.inner = {}
        /\ w5.k = F \o u.k
    BY DEF Entry, KF
  <2> HIDE DEF w5, W2
  <2>2. Goes(w5.k, w5.b, F \o u.k, w5.b, w5.may)
    <3>1. Goes(w5.k, w5.b, w5.k, w5.b, w5.may)
      BY GoesSelf
    <3> QED
      BY <2>1, <3>1
  <2>3. AllGood(S, w5.b, m)
    BY <1>4 DEF AllGood
  <2>4. LeadsOn(F, w5, u.k, G2, c + 1, m)
    BY <1>4, <1>5, <1>12, <2>1, <2>2, <2>3, Statements
  <2> QED
    BY <2>1, <2>4 DEF LeadsOn
<1>19. Leg(l7, w6, u, G2, c + 1, m)
  <2>1. x2.lands = "next" /\ u.n <= w6.n /\ w6.waits \subseteq u.waits \cup {a2}
    BY <1>1, <1>11, <1>18 DEF Target
  <2>2. Enter(w6, u)
    <3>1. w6.may \subseteq u.may
      BY <1>1, <1>18 DEF EntryOK
    <3> QED
      BY <1>1, <1>18, <3>1, EnterMade
  <2>3. Sub(x2, u)
    BY <1>1, SubMade DEF Target
  <2> HIDE DEF x2
  <2> QED
    BY <1>0, <1>1, <1>7, <1>8, <1>18, <2>1, <2>2, <2>3, NextLeg
<1> HIDE DEF l2, l4, l5, l7, w1, w2, w3, w4, w5
<1>20. Leads(<<l5>>, w4, w5, G2, c + 1, m)
  BY <1>17, EndOfWay
<1>21. Leads(<<body, l4, l5>>, w2, w5, G2, c + 1, m)
  BY <1>15, <1>16, <1>20, Before2, Before3
<1>22. Leads(<<cond, l2, body, l4, l5>>, t, w5, G2, c + 1, m)
  BY <1>13, <1>14, <1>21, Before4, Before5
<1>23. Leads(<<l7>>, w6, u, G2, c + 1, m)
  BY <1>19, EndOfWay
<1> DEFINE A == <<cond, l2, body, l4, l5>>
           B == <<l7>>
<1>24. IsSeq(A) /\ IsSeq(B)
  <2>1. A \in Seq({cond, l2, body, l4, l5}) /\ B \in Seq({l7})
    OBVIOUS
  <2> QED
    BY <2>1, SeqIs
<1>25. ast = A \o F \o B
  BY <1>10
<1>26. Leads(A, t, w5, G2, c + 1, m) /\ Leads(B, w6, u, G2, c + 1, m)
  BY <1>22, <1>23
<1> HIDE DEF A, B
<1>27. Leads(A \o F, t, w6, G2, c + 1, m)
  BY <1>0, <1>5, <1>18, <1>24, <1>26, Compose
<1>28. IsSeq(A \o F) /\ IsSeq(A \o F \o B)
  BY <1>5, <1>24, Joined
<1>29. Leads(A \o F \o B, t, u, G2, c + 1, m)
  BY <1>0, <1>24, <1>26, <1>27, <1>28, Compose
<1> QED
  BY <1>7, <1>25, <1>28, <1>29 DEF Compiles, ast

\* gacBody: the block is open while its statements run.
LEMMA CompilesBody ==
    ASSUME NEW n, NEW t, NEW u, NEW G, NEW c \in Nat, NEW m, EntryOK(t, c), EntryOK(u, c),
           n.kind = "body", NodeFits(n, t, u, m)
    PROVE  Compiles(n, t, u, G, c, m)
<1> DEFINE F  == n.stmts
           M  == IF F = <<>> THEN <<newStatment>> ELSE F
           KC == <<Meaning!Close(n.scope)>> \o u.k
           KN == <<n>> \o u.k
           KF == F \o KC
           B  == Append(t.b, n.scope)
           w1 == Entry(KN, t.b, 0, Free, Int, TRUE, t.n + 1, t.waits, {})
           w2 == Entry(KF, B, 0, Free, Int, TRUE, t.n + 1, t.waits, {})
<1>0. EntryOK(t, c + 1) /\ EntryOK(u, c + 1)
  BY EntryGrows
<1>1. /\ Goes(t.k, t.b, KN, t.b, t.may) /\ Good(n, t.b, m)
      /\ u.b = t.b /\ Int \subseteq u.may /\ u.may \subseteq Int /\ u.h = 0 /\ u.s = Free
      /\ u.open /\ u.n <= t.n + 1 /\ t.waits \subseteq u.waits /\ t.inner = {}
  BY DEF NodeFits, Opens, Expressions, After, EntryOK
<1>2. PICK S : F \in Seq(S) /\ \A e \in S : \A x : Good(e, x, m)
  <2>1. PICK S : /\ WellFormed(n, S)
                 /\ n.kind \notin Expressions \cup {"return"} =>
                        \A e \in S : \A x : Good(e, x, m)
    BY <1>1, GoodParts
  <2> QED
    BY <2>1 DEF WellFormed, Expressions
<1>3. IsSeq(u.k) /\ IsSeq(KN) /\ IsSeq(KC) /\ IsSeq(F) /\ IsSeq(KF)
  <2>1. IsSeq(u.k) /\ IsSeq(F)
    BY <1>2, SeqIs DEF EntryOK
  <2> QED
    BY <2>1, ConsFacts, Joined
<1>4. OpensTo(n, u.k, t.b, KF)
  <2>1. \A v : Same(<<<<n>> \o u.k, t.b>>, <<KF, Append(t.b, n.scope)>>, v)
    BY <1>3, UnfoldBody
  <2> QED
    BY <2>1 DEF OpensTo
<1>5. /\ IsSeq(t.b) /\ t.n \in Nat /\ t.may \subseteq Int /\ t.waits \subseteq Vars(c + 1)
      /\ u.n \in Nat
  BY <1>0 DEF EntryOK
<1>6. IsSeq(B)
  BY <1>5, AppendIsSeq
<1> DEFINE ast == ast2asm(n, c)
           l2 == PushScope(n)
<1>7. ast = <<newStatment, l2>> \o M \o <<newStatment, PopScope>>
  BY DEF ast2asm, Expressions, gacBody
<1>8. F = <<>> => KF = KC
  BY <1>3, Empty
<1> HIDE DEF F, KC, KN, KF, ast
<1>9. EntryOK(w1, c + 1) /\ EntryOK(w2, c + 1)
  <2> HIDE DEF B
  <2> QED
    BY <1>3, <1>5, <1>6 DEF EntryOK, Entry
<1>10. Leg(newStatment, t, w1, G, c + 1, m)
  <2>1. Enter(t, w1)
    BY <1>1, <1>5, EnterMade DEF Entry
  <2>2. w1.open /\ w1.n = t.n + 1 /\ t.waits \subseteq w1.waits
    BY DEF Entry
  <2> HIDE DEF w1
  <2> QED
    BY <1>0, <1>1, <1>9, <2>1, <2>2, StatementLeg
<1>11. Leg(l2, w1, w2, G, c + 1, m)
  <2>1. /\ w1.may \subseteq w2.may /\ w1.k = <<n>> \o u.k /\ w1.b = t.b /\ w1.h = 0 /\ w1.s = Free
        /\ w1.open /\ w2.k = KF /\ w2.b = Append(t.b, n.scope) /\ w2.h = 0 /\ w2.s = Free
        /\ w2.open /\ w2.n <= w1.n /\ Keeps(w1, w2)
    BY <1>5 DEF Entry, Keeps, KN
  <2> HIDE DEF w1, w2
  <2> QED
    BY <1>3, <1>4, <1>5, <1>9, <2>1, PushLeg
<1>12. PICK w3 : /\ Leads(M, w2, w3, G, c + 1, m) /\ EntryOK(w3, c + 1) /\ IsSeq(M)
                 /\ Goes(w3.k, B, KC, B, w3.may) /\ w3.b = B
                 /\ w3.n >= t.n + 1 /\ w3.waits = t.waits /\ w3.inner = {}
  <2>0. /\ w2.k = KF /\ w2.b = B /\ w2.n = t.n + 1 /\ w2.waits = t.waits /\ w2.inner = {}
        /\ w2.may = Int
    BY DEF Entry
  <2>1. CASE F = <<>>
    <3> DEFINE w == Entry(KC, B, 0, Free, Int, TRUE, t.n + 1 + 1, t.waits, {})
    <3>1. EntryOK(w, c + 1)
      BY <1>3, <1>5, <1>6 DEF EntryOK, Entry
    <3>2. w.k = KC /\ w.b = B /\ w.n = t.n + 1 + 1 /\ w.waits = t.waits /\ w.inner = {} /\ w.open
          /\ w.may = Int /\ w.h = 0 /\ w.s = Free
      BY DEF Entry
    <3> HIDE DEF w, w2, B
    <3>3. Enter(w2, w)
      BY <1>8, <2>0, <2>1, <3>2, GoesSelf, EnterMade
    <3>4. Leg(newStatment, w2, w, G, c + 1, m)
      BY <1>9, <2>0, <3>1, <3>2, <3>3, StatementLeg
    <3>5. Leads(<<newStatment>>, w2, w, G, c + 1, m)
      BY <3>4, EndOfWay
    <3>6. w.n >= t.n + 1
      BY <1>5, <3>2
    <3>7. M = <<newStatment>>
      BY <2>1
    <3> QED
      BY <3>1, <3>2, <3>5, <3>6, <3>7, GoesSelf, ShortSeqs
  <2>2. CASE F # <<>>
    <3>1. M = F
      BY <2>2
    <3>2. Goes(w2.k, w2.b, F \o KC, w2.b, w2.may)
      BY <2>0, GoesSelf, ZenonT(40) DEF KF
    <3>3. AllGood(S, w2.b, m)
      BY <1>2 DEF AllGood
    <3> HIDE DEF w2, B, M
    <3>4. LeadsOn(F, w2, KC, G, c + 1, m)
      BY <1>2, <1>3, <1>9, <2>0, <3>2, <3>3, Statements
    <3>5. \A z : z = t.n + 1 => z >= t.n + 1
      BY <1>5
    <3> QED
      BY <1>3, <2>0, <3>1, <3>4, <3>5 DEF LeadsOn
  <2> HIDE DEF M
  <2> QED
    BY <2>1, <2>2
<1> DEFINE w4 == Entry(KC, B, 0, Free, Int, TRUE, w3.n + 1, t.waits, {})
<1>13. EntryOK(w4, c + 1)
  <2>1. w3.n \in Nat
    BY <1>12 DEF EntryOK
  <2> QED
    BY <1>3, <1>5, <1>6, <2>1 DEF EntryOK, Entry
<1>14. Leg(newStatment, w3, w4, G, c + 1, m)
  <2>1. /\ w4.k = KC /\ w4.b = B /\ w4.h = 0 /\ w4.s = Free /\ w4.may = Int /\ w4.open
        /\ w4.n = w3.n + 1 /\ w4.waits = t.waits
    BY DEF Entry
  <2>2. w3.may \subseteq Int
    BY <1>12 DEF EntryOK
  <2> HIDE DEF w4, B, M
  <2>3. Enter(w3, w4)
    BY <1>12, <2>1, <2>2, EnterMade
  <2> QED
    BY <1>12, <1>13, <2>1, <2>3, StatementLeg
<1>15. Leg(PopScope, w4, u, G, c + 1, m)
  <2>1. /\ w4.may \subseteq u.may /\ w4.k = <<Meaning!Close(n.scope)>> \o u.k
        /\ w4.b = Append(t.b, n.scope) /\ w4.h = 0 /\ w4.s = Free /\ w4.open
    BY <1>1 DEF Entry, KC
  <2>2. u.n <= w4.n
    <3>1. w4.n = w3.n + 1 /\ w3.n \in Nat
      BY <1>12 DEF Entry, EntryOK
    <3> HIDE DEF w4, M
    <3>2. \A x, y, z \in Nat : x <= y + 1 /\ z >= y + 1 => x <= z + 1
      OBVIOUS
    <3> QED
      BY <1>1, <1>5, <1>12, <3>1, <3>2
  <2>3. Keeps(w4, u)
    BY <1>1 DEF Entry, Keeps
  <2> HIDE DEF w4, M
  <2> QED
    BY <1>0, <1>1, <1>3, <1>5, <1>13, <2>1, <2>2, <2>3, PopLeg
<1> HIDE DEF l2, w1, w2, w4, M
<1> DEFINE A == <<newStatment, l2>>
           Z == <<newStatment, PopScope>>
<1>16. Leads(A, t, w2, G, c + 1, m)
  BY <1>10, <1>11, EndOfWay, Before2
<1>17. Leads(Z, w3, u, G, c + 1, m)
  BY <1>14, <1>15, EndOfWay, Before2
<1>18. IsSeq(A) /\ IsSeq(Z)
  BY ShortSeqs
<1>19. ast = A \o M \o Z
  BY <1>7
<1> HIDE DEF A, Z
<1>20. Leads(A \o M, t, w3, G, c + 1, m)
  BY <1>0, <1>12, <1>16, <1>18, Compose
<1>21. IsSeq(A \o M) /\ IsSeq(A \o M \o Z)
  BY <1>12, <1>18, Joined
<1>22. Leads(A \o M \o Z, t, u, G, c + 1, m)
  BY <1>0, <1>17, <1>18, <1>20, <1>21, Compose
<1> QED
  BY <1>19, <1>21, <1>22, NewVarsFacts DEF Compiles, ast

\* A list that leads from a weaker entry leads from the stronger one.
LEMMA LeadsWeaker ==
    ASSUME NEW list, NEW t, NEW u, NEW f, NEW G, NEW c, NEW m, IsSeq(list),
           EntryOK(t, c), EntryOK(u, c), Weaker(t, u), Leads(list, u, f, G, c, m)
    PROVE  Leads(list, t, f, G, c, m)
<1>1. Leads(<<>>, t, u, G, c, m)
  BY Nothing
<1>2. Leads(<<>> \o list, t, f, G, c, m)
  BY <1>1, ShortSeqs, Compose
<1> QED
  BY <1>2, Empty

\* Things that each lead to the next entry lead to the last.
LEMMA Chain ==
    ASSUME NEW list, NEW ty, NEW G, NEW c, NEW m, Len(list) \in Nat, EntryOK(ty[Len(list) + 1], c),
           \A i \in 1..Len(list) : Leg(list[i], ty[i], ty[i + 1], G, c, m)
    PROVE  Leads(list, ty[1], ty[Len(list) + 1], G, c, m)
<1>1. Way(list, ty, G, c, m)
  <2> SUFFICES ASSUME NEW i \in 1..Len(list)
               PROVE  /\ EntryOK(ty[i], c)
                      /\ \E z : EntryOK(z, c) /\ Fits(list[i], ty[i], z, G, c, m) /\ Weaker(z, ty[i + 1])
    BY DEF Way
  <2>1. EntryOK(ty[i], c) /\ EntryOK(ty[i + 1], c) /\ Fits(list[i], ty[i], ty[i + 1], G, c, m)
    BY DEF Leg
  <2>2. Weaker(ty[i + 1], ty[i + 1])
    BY <2>1, WeakerSelf
  <2> QED
    BY <2>1, <2>2
<1>2. EntryOK(ty[1], c)
  <2>1. CASE Len(list) = 0
    BY <2>1
  <2>2. CASE Len(list) # 0
    <3>1. 1 \in 1..Len(list)
      BY <2>2
    <3> QED
      BY <3>1 DEF Leg
  <2> QED
    BY <2>1, <2>2
<1>3. Weaker(ty[1], ty[1])
  BY <1>2, WeakerSelf
<1> QED
  BY <1>1, <1>3 DEF Leads

\* The labels of a group: the first and the others.
LEMMA HeadAndTail ==
    ASSUME NEW s \in Seq(Int), s # <<>>
    PROVE  /\ Head(s) \in Int /\ Tail(s) \in Seq(Int)
           /\ Elements(s) = {Head(s)} \cup Elements(Tail(s))
<1>1. /\ Len(s) \in Nat \ {0} /\ Len(Tail(s)) = Len(s) - 1 /\ Head(s) = s[1]
      /\ DOMAIN s = 1..Len(s) /\ DOMAIN Tail(s) = 1..(Len(s) - 1)
      /\ \A i \in 1..(Len(s) - 1) : Tail(s)[i] = s[i + 1]
      /\ Head(s) \in Int /\ Tail(s) \in Seq(Int)
  OBVIOUS
<1>2. ASSUME NEW i \in 1..Len(s) PROVE s[i] \in {Head(s)} \cup Elements(Tail(s))
  <2>1. CASE i = 1
    BY <1>1, <2>1
  <2>2. CASE i # 1
    <3>1. i - 1 \in 1..(Len(s) - 1) /\ (i - 1) + 1 = i
      BY <1>1, <2>2
    <3>2. Tail(s)[i - 1] = s[i]
      BY <1>1, <3>1
    <3> QED
      BY <1>1, <3>1, <3>2 DEF Elements
  <2> QED
    BY <2>1, <2>2
<1>3. ASSUME NEW i \in 1..(Len(s) - 1) PROVE Tail(s)[i] \in Elements(s)
  <2>1. i + 1 \in 1..Len(s)
    BY <1>1
  <2> QED
    BY <1>1, <2>1 DEF Elements
<1>4. Head(s) \in Elements(s)
  <2>1. 1 \in 1..Len(s)
    BY <1>1
  <2> QED
    BY <1>1, <2>1 DEF Elements
<1> QED
  BY <1>1, <1>2, <1>3, <1>4, SMTT(30) DEF Elements

\* The tests of a group lead on.
LEMMA TestsLeg ==
    ASSUME NEW labels, NEW x, NEW t, NEW u, NEW G, NEW c, NEW m, EntryOK(t, c), EntryOK(u, c),
           x \in Vars(c), TestsFit(labels, x, t, u, G)
    PROVE  Leg(Tests(labels, x), t, u, G, c, m)
BY DEF Leg, Fits, Tests

\* CASE pushes the label over the value.
LEMMA CaseHits ==
    ASSUME NEW ins, NEW t, NEW v, NEW u, NEW m, ins.op = "CASE", t.h = 1, t.s = OnTop,
           Hit(t, v, t.b, 2, LabelOn(ins.label), u)
    PROVE  PlainHit(ins, t, v, u, m)
<1>1. t.h + 1 = 2 /\ t.h >= 1
  OBVIOUS
<1> QED
  BY <1>1 DEF PlainHit

\* EQU replaces the label by what the comparison gives.
LEMMA EquHits ==
    ASSUME NEW ins, NEW l, NEW t, NEW v, NEW u, NEW m, ins.op = "EQU", t.h = 2, t.s = LabelOn(l),
           Hit(t, v, t.b, 2, EqualOn(l), u)
    PROVE  PlainHit(ins, t, v, u, m)
<1>1. t.s.label = l /\ t.h >= 2
  BY DEF LabelOn
<1> QED
  BY <1>1 DEF PlainHit

\* JT takes the value off and leaves if it was the label, and keeps it if
\* not.
LEMMA JtHits ==
    ASSUME NEW l, NEW t, NEW v, NEW u, NEW x, t.h = 2, t.s = EqualOn(l),
           IF v = l THEN Hit(t, v, t.b, 0, Free, x) ELSE Hit(t, v, t.b, 1, OnTop, u)
    PROVE  JumpHit("JT", t, v, u, x, FALSE)
<1>1. t.s.label = l /\ t.s.kind = "equal" /\ t.h >= 2 /\ t.h >= 1 /\ t.h - 1 = 1
  BY DEF EqualOn
<1>2. Takes("JT", t.s, v) <=> v = l
  BY <1>1 DEF Takes
<1>3. Left(t.s) = OnTop
  BY <1>1 DEF Left
<1> QED
  BY <1>1, <1>2, <1>3 DEF JumpHit

\* gacTests: the values of the group leave for its body, the others go on to
\* the next group.
LEMMA CompilesTests ==
    ASSUME NEW y, NEW t, NEW u, NEW G, NEW c \in Nat, NEW m, EntryOK(t, c), EntryOK(u, c),
           y.kind = "tests", y.var \in Vars(c), TestsFit(y.labels, y.var, t, u, G)
    PROVE  Compiles(y, t, u, G, c, m)
<1> DEFINE labels == y.labels
           x == y.var
           l == Head(labels)
           rest == Tail(labels)
           W == t.waits \cup {x}
<1>0. EntryOK(t, c + 1) /\ EntryOK(u, c + 1) /\ x \in Vars(c + 1)
  BY EntryGrows, NewVarsFacts
<1>1. /\ labels \in Seq(Int) /\ G[x].lands = "next"
      /\ t.h = 1 /\ t.s = OnTop /\ u.h = 1 /\ u.s = OnTop
      /\ \A v \in t.may :
          IF v \in Elements(labels) \/ Default \in Elements(labels)
          THEN Hit(t, v, t.b, 0, Free, G[x])
          ELSE Hit(t, v, t.b, 1, OnTop, u)
      /\ t.open /\ u.open /\ u.n <= t.n /\ Keeps(t, u) /\ x \in u.waits
  BY DEF TestsFit
<1>2. ast2asm(y, c) = gacTests(labels, x)
  BY DEF ast2asm, Expressions
<1>3. Extends(G, G, c)
  BY DEF Extends
<1>4. /\ IsSeq(t.k) /\ IsSeq(t.b) /\ t.n \in Nat /\ t.may \subseteq Int
      /\ t.waits \subseteq Vars(c + 1) /\ t.inner \subseteq Vars(c + 1)
      /\ W \subseteq Vars(c + 1) /\ u.n \in Nat
  BY <1>0 DEF EntryOK
<1> HIDE DEF labels, x
<1>5. CASE labels = <<>>
  <2>1. Elements(labels) = {}
    BY <1>5 DEF Elements
  <2>2. Sub(t, u)
    BY <1>1, <2>1 DEF Sub
  <2>3. Weaker(t, u)
    BY <1>1, <2>2 DEF Weaker
  <2>4. ast2asm(y, c) = <<>>
    BY <1>2, <1>5 DEF gacTests
  <2>5. Leads(<<>>, t, u, G, c + 1, m)
    BY <1>0, <2>3, Nothing
  <2> QED
    BY <1>3, <2>4, <2>5, ShortSeqs DEF Compiles
<1>6. CASE labels # <<>> /\ l = Default
  <2> DEFINE w == Entry(t.k, t.b, 1, OnTop, {}, TRUE, t.n, W, t.inner)
             j == Jump("JMP", x)
             r == Tests(rest, x)
  <2>1. Default \in Elements(labels) /\ rest \in Seq(Int)
    BY <1>1, <1>6, HeadAndTail
  <2>2. ast2asm(y, c) = <<j>> \o <<r>>
    BY <1>2, <1>6 DEF gacTests
  <2>3. EntryOK(w, c + 1)
    <3> HIDE DEF W
    <3> QED
      BY <1>4 DEF EntryOK, Entry
  <2>4. Leg(j, t, w, G, c + 1, m)
    <3>1. JumpFits("JMP", t, w, G[x], FALSE)
      <4> SUFFICES ASSUME NEW v \in t.may PROVE JumpHit("JMP", t, v, w, G[x], FALSE)
        BY DEF JumpFits, JumpOps
      <4>1. Hit(t, v, t.b, 0, Free, G[x])
        BY <1>1, <2>1
      <4> QED
        BY <4>1 DEF JumpHit
    <3>2. w.open /\ w.n <= t.n /\ Keeps(t, w) /\ x \in w.waits
      BY <1>4 DEF Entry, Keeps
    <3> HIDE DEF w
    <3> QED
      BY <1>0, <1>1, <2>3, <3>1, <3>2, JumpLeg
  <2>5. Leg(r, w, u, G, c + 1, m)
    <3>1. TestsFit(rest, x, w, u, G)
      BY <1>1, <2>1 DEF TestsFit, Entry, Keeps
    <3> HIDE DEF w
    <3> QED
      BY <1>0, <2>3, <3>1, TestsLeg
  <2> HIDE DEF w, j, r
  <2>6. Leads(<<r>>, w, u, G, c + 1, m)
    BY <2>5, EndOfWay
  <2>7. Leads(<<j>> \o <<r>>, t, u, G, c + 1, m)
    BY <2>4, <2>6, ShortSeqs, StepBefore
  <2>8. IsSeq(<<j>> \o <<r>>)
    BY ShortSeqs, Joined
  <2> QED
    BY <1>3, <2>2, <2>7, <2>8 DEF Compiles
<1>7. CASE labels # <<>> /\ l # Default
  <2> DEFINE w1 == Entry(t.k, t.b, 2, LabelOn(l), t.may, TRUE, t.n, t.waits, t.inner)
             w2 == Entry(t.k, t.b, 2, EqualOn(l), t.may, TRUE, t.n, t.waits, t.inner)
             w3 == Entry(t.k, t.b, 1, OnTop, t.may \ {l}, TRUE, t.n, W, t.inner)
             i1 == Insert([op |-> "CASE", label |-> l])
             i2 == Insert([op |-> "EQU"])
             j == Jump("JT", x)
             r == Tests(rest, x)
  <2>1. l \in Int /\ rest \in Seq(Int) /\ Elements(labels) = {l} \cup Elements(rest)
    BY <1>1, <1>7, HeadAndTail
  <2>2. ast2asm(y, c) = <<i1, i2, j>> \o <<r>>
    BY <1>2, <1>7 DEF gacTests
  <2> HIDE DEF l, rest
  <2>3. EntryOK(w1, c + 1) /\ EntryOK(w2, c + 1) /\ EntryOK(w3, c + 1)
    <3> HIDE DEF W
    <3> QED
      BY <1>4 DEF EntryOK, Entry
  <2>4. Leg(i1, t, w1, G, c + 1, m)
    <3> DEFINE ins == [op |-> "CASE", label |-> l]
    <3>0. ins.op = "CASE" /\ ins.label = l /\ ins.op \in PlainOps
      BY DEF PlainOps
    <3>1. /\ w1.k = t.k /\ w1.b = t.b /\ w1.h = 2 /\ w1.s = LabelOn(l) /\ w1.may = t.may
          /\ w1.open /\ w1.n <= t.n /\ Keeps(t, w1)
      BY <1>4 DEF Entry, Keeps
    <3> HIDE DEF w1, ins
    <3>2. ASSUME NEW v \in t.may PROVE PlainHit(ins, t, v, w1, m)
      <4>1. Hit(t, v, t.b, 2, LabelOn(ins.label), w1)
        BY <3>0, <3>1, SameIsEquivalence DEF Hit
      <4> QED
        BY <1>1, <3>0, <4>1, CaseHits
    <3>3. InsertFits(ins, t, w1, m)
      BY <1>1, <3>0, <3>1, <3>2 DEF InsertFits, PlainFits
    <3> QED
      BY <1>0, <2>3, <3>3 DEF Leg, Fits, Insert, ins
  <2>5. Leg(i2, w1, w2, G, c + 1, m)
    <3> DEFINE ins == [op |-> "EQU"]
    <3>0. ins.op = "EQU" /\ ins.op \in PlainOps
      BY DEF PlainOps
    <3>1. /\ w1.k = t.k /\ w1.b = t.b /\ w1.h = 2 /\ w1.s = LabelOn(l) /\ w1.may = t.may
          /\ w2.k = t.k /\ w2.b = t.b /\ w2.h = 2 /\ w2.s = EqualOn(l) /\ w2.may = t.may
          /\ w1.open /\ w2.open /\ w2.n <= w1.n /\ Keeps(w1, w2)
      BY <1>4 DEF Entry, Keeps
    <3> HIDE DEF w1, w2, ins
    <3>2. ASSUME NEW v \in w1.may PROVE PlainHit(ins, w1, v, w2, m)
      <4>1. Hit(w1, v, w1.b, 2, EqualOn(l), w2)
        BY <3>1, SameIsEquivalence DEF Hit
      <4> QED
        BY <3>0, <3>1, <4>1, EquHits
    <3>3. InsertFits(ins, w1, w2, m)
      BY <3>0, <3>1, <3>2 DEF InsertFits, PlainFits
    <3> QED
      BY <2>3, <3>3 DEF Leg, Fits, Insert, ins
  <2>6. Leg(j, w2, w3, G, c + 1, m)
    <3>1. /\ w2.k = t.k /\ w2.b = t.b /\ w2.h = 2 /\ w2.s = EqualOn(l) /\ w2.may = t.may
          /\ w3.k = t.k /\ w3.b = t.b /\ w3.h = 1 /\ w3.s = OnTop /\ w3.may = t.may \ {l}
          /\ w2.open /\ w3.open /\ w3.n <= w2.n /\ Keeps(w2, w3) /\ x \in w3.waits
      BY <1>4 DEF Entry, Keeps
    <3> HIDE DEF w2, w3
    <3>2. JumpFits("JT", w2, w3, G[x], FALSE)
      <4> SUFFICES ASSUME NEW v \in w2.may PROVE JumpHit("JT", w2, v, w3, G[x], FALSE)
        BY DEF JumpFits, JumpOps
      <4>1. CASE v = l
        <5>1. Hit(t, v, t.b, 0, Free, G[x])
          BY <1>1, <2>1, <3>1, <4>1
        <5>2. Hit(w2, v, w2.b, 0, Free, G[x])
          BY <3>1, <5>1 DEF Hit
        <5> QED
          BY <3>1, <4>1, <5>2, JtHits
      <4>2. CASE v # l
        <5>1. Hit(w2, v, w2.b, 1, OnTop, w3)
          BY <3>1, <4>2, SameIsEquivalence DEF Hit
        <5> QED
          BY <3>1, <4>2, <5>1, JtHits
      <4> QED
        BY <4>1, <4>2
    <3> QED
      BY <1>0, <1>1, <2>3, <3>1, <3>2, JumpLeg
  <2>7. Leg(r, w3, u, G, c + 1, m)
    <3>1. ASSUME NEW v \in w3.may
          PROVE  IF v \in Elements(rest) \/ Default \in Elements(rest)
                 THEN Hit(w3, v, w3.b, 0, Free, G[x])
                 ELSE Hit(w3, v, w3.b, 1, OnTop, u)
      <4>1. v \in t.may /\ v # l /\ w3.k = t.k /\ w3.b = t.b
        BY DEF Entry
      <4>2. /\ v \in Elements(labels) <=> v \in Elements(rest)
            /\ Default \in Elements(labels) <=> Default \in Elements(rest)
        BY <1>7, <2>1, <4>1 DEF l
      <4>3. IF v \in Elements(rest) \/ Default \in Elements(rest)
            THEN Hit(t, v, t.b, 0, Free, G[x])
            ELSE Hit(t, v, t.b, 1, OnTop, u)
        BY <1>1, <4>1, <4>2
      <4> HIDE DEF w3
      <4>4. \A b, h, s, z : Hit(t, v, b, h, s, z) => Hit(w3, v, b, h, s, z)
        BY <4>1 DEF Hit
      <4> QED
        BY <4>1, <4>3, <4>4
    <3>2. /\ w3.h = 1 /\ w3.s = OnTop /\ w3.open /\ u.n <= w3.n /\ Keeps(w3, u)
      BY <1>1 DEF Entry, Keeps
    <3> HIDE DEF w3
    <3>3. TestsFit(rest, x, w3, u, G)
      BY <1>1, <2>1, <3>1, <3>2 DEF TestsFit
    <3> QED
      BY <1>0, <2>3, <3>3, TestsLeg
  <2> HIDE DEF w1, w2, w3, i1, i2, j, r
  <2>8. Leads(<<r>>, w3, u, G, c + 1, m)
    BY <2>7, EndOfWay
  <2>9. Leads(<<i1, i2, j>>, t, w3, G, c + 1, m)
    BY <2>4, <2>5, <2>6, EndOfWay, Before2, Before3
  <2> DEFINE A == <<i1, i2, j>>
             B == <<r>>
  <2>10. IsSeq(A) /\ IsSeq(B)
    BY ShortSeqs
  <2> HIDE DEF A, B
  <2>11. Leads(A \o B, t, u, G, c + 1, m)
    BY <1>0, <2>8, <2>9, <2>10, Compose DEF A, B
  <2>12. IsSeq(A \o B)
    BY <2>10, Joined
  <2> QED
    BY <1>3, <2>2, <2>11, <2>12 DEF Compiles, A, B
<1> QED
  BY <1>5, <1>6, <1>7

\* A body of a switch, and the jump to its end from all but the last.
LEMMA CompilesCase ==
    ASSUME NEW y, NEW t, NEW u, NEW G, NEW c \in Nat, NEW m, EntryOK(t, c), EntryOK(u, c),
           y.kind = "case", y.var \in Vars(c), ~y.last => y.end \in Vars(c),
           CaseFits(y, t, u, G, m)
    PROVE  Compiles(y, t, u, G, c, m)
<1>0. EntryOK(t, c + 1) /\ EntryOK(u, c + 1) /\ y.var \in Vars(c + 1)
      /\ (~y.last => y.end \in Vars(c + 1))
  BY EntryGrows, NewVarsFacts
<1>1. PICK K, b :
          /\ IsSeq(K) /\ IsSeq(b) /\ Good(y.body, b, m)
          /\ Sub(G[y.var], Target(<<y.body>> \o K, b, 0, Free, Int, "next", 0))
          /\ LET end == Target(K, b, 0, Free, Int, "next", 0)
             IN  IF y.last THEN Sub(end, u) ELSE Sub(end, G[y.end]) /\ y.end \in u.waits
  BY DEF CaseFits
<1>2. /\ G[y.var].lands = "next" /\ (~y.last => G[y.end].lands = "next")
      /\ t.may = {} /\ y.body.kind = "body"
      /\ u.open /\ u.n <= t.n /\ t.waits \subseteq u.waits \cup {y.var} /\ t.inner = {}
  BY DEF CaseFits
<1> DEFINE KB == <<y.body>> \o K
           x1 == Target(KB, b, 0, Free, Int, "next", 0)
           x2 == Target(K, b, 0, Free, Int, "next", 0)
           W  == t.waits \ {y.var}
           w1 == Entry(KB, b, 0, Free, Int, FALSE, t.n, W, {})
           w2 == Entry(K, b, 0, Free, Int, TRUE, t.n, W, {})
           A  == <<ToNext(y.var), y.body>>
           B  == IF y.last THEN <<>> ELSE <<Jump("JMP", y.end)>>
<1>3. Sub(G[y.var], x1) /\ (y.last => Sub(x2, u))
      /\ (~y.last => Sub(x2, G[y.end]) /\ y.end \in u.waits)
  BY <1>1
<1>4. ast2asm(y, c) = A \o B
  BY DEF ast2asm, Expressions, gacCase
<1>5. IsSeq(KB) /\ t.n \in Nat /\ u.n \in Nat /\ W \subseteq Vars(c + 1) /\ W \subseteq u.waits
  BY <1>0, <1>1, <1>2, ConsFacts DEF EntryOK
<1> HIDE DEF KB
<1>6. EntryOK(w1, c + 1) /\ EntryOK(w2, c + 1)
  <2> HIDE DEF W
  <2> QED
    BY <1>1, <1>5 DEF EntryOK, Entry
<1>7. Leg(ToNext(y.var), t, w1, G, c + 1, m)
  <2>1. Sub(x1, w1)
    BY SubMade DEF Target, Entry
  <2>2. ~w1.open /\ w1.n <= t.n /\ t.waits \subseteq w1.waits \cup {y.var}
    BY <1>5 DEF Entry
  <2> HIDE DEF w1, x1
  <2>3. Sub(G[y.var], w1)
    BY <1>3, <2>1, SubTrans
  <2>4. Enter(t, w1)
    BY <1>2 DEF Enter
  <2> QED
    BY <1>0, <1>2, <1>6, <2>2, <2>3, <2>4, NextLeg
<1>8. Leg(y.body, w1, w2, G, c + 1, m)
  <2>1. Goes(w1.k, w1.b, <<y.body>> \o w2.k, w1.b, w1.may)
    BY GoesSelf DEF Entry, KB
  <2>2. /\ w2.b = w1.b /\ Int \subseteq w2.may /\ w2.h = 0 /\ w2.s = Free
        /\ w2.open /\ w2.n <= w1.n + 1 /\ w1.waits \subseteq w2.waits /\ w1.inner = {}
        /\ w1.b = b
    BY <1>5 DEF Entry
  <2> HIDE DEF w1, w2
  <2> QED
    BY <1>1, <1>2, <1>6, <2>1, <2>2, BlockLeg
<1>9. Leads(A, t, w2, G, c + 1, m) /\ IsSeq(A)
  <2> HIDE DEF w1, w2
  <2> QED
    BY <1>7, <1>8, EndOfWay, Before2, ShortSeqs
<1>10. Leads(B, w2, u, G, c + 1, m) /\ IsSeq(B)
  <2>0. Sub(w2, x2) /\ w2.open /\ u.n <= w2.n /\ Keeps(w2, u)
    BY <1>2, <1>5, SubMade DEF Entry, Target, Keeps
  <2>1. CASE y.last
    <3> HIDE DEF w2, x2
    <3>1. Sub(w2, u)
      BY <1>3, <2>0, <2>1, SubTrans
    <3>2. Weaker(w2, u)
      BY <1>2, <2>0, <3>1 DEF Weaker
    <3>3. Leads(<<>>, w2, u, G, c + 1, m)
      BY <1>0, <3>2, Nothing
    <3> QED
      BY <2>1, <3>3, ShortSeqs
  <2>2. CASE ~y.last
    <3>1. w2.b = b /\ w2.h = 0 /\ w2.s = Free
      BY DEF Entry
    <3> HIDE DEF w2, x2
    <3>2. Sub(w2, G[y.end])
      BY <1>3, <2>0, <2>2, SubTrans
    <3>3. JumpFits("JMP", w2, u, G[y.end], FALSE)
      <4> SUFFICES ASSUME NEW v \in w2.may PROVE JumpHit("JMP", w2, v, u, G[y.end], FALSE)
        BY DEF JumpFits, JumpOps
      <4>1. Hit(w2, v, w2.b, 0, Free, G[y.end])
        BY <3>1, <3>2 DEF Sub
      <4> QED
        BY <4>1 DEF JumpHit
    <3>4. Leg(Jump("JMP", y.end), w2, u, G, c + 1, m)
      BY <1>0, <1>2, <1>3, <1>6, <2>0, <2>2, <3>3, JumpLeg
    <3>5. Leads(<<Jump("JMP", y.end)>>, w2, u, G, c + 1, m)
      BY <3>4, EndOfWay
    <3> QED
      BY <2>2, <3>5, ShortSeqs
  <2> QED
    BY <2>1, <2>2
<1> HIDE DEF A, B
<1>11. Leads(A \o B, t, u, G, c + 1, m)
  <2> HIDE DEF w2
  <2> QED
    BY <1>0, <1>9, <1>10, Compose
<1>12. IsSeq(A \o B)
  BY <1>9, <1>10, Joined
<1> QED
  BY <1>4, <1>11, <1>12, NewVarsFacts DEF Compiles

-----------------------------------------------------------------------------
(* The groups of a switch.                                                   *)

\* The first of the groups with a label.
FirstWith(groups, h, l) ==
    /\ h \in DOMAIN groups /\ l \in Labels(groups[h])
    /\ \A i \in DOMAIN groups : l \in Labels(groups[i]) => h <= i

\* They are the same ones in another order, the one with the default last,
\* and of those with a label the same one comes first.
Reordered(D, groups) ==
    /\ Len(D) \in Nat \ {0}
    /\ \A g \in 1..Len(D) : \E h \in DOMAIN groups : D[g] = groups[h]
    /\ \A h \in DOMAIN groups : \E g \in 1..Len(D) : D[g] = groups[h]
    /\ \A g \in 1..Len(D) : Default \in Labels(D[g]) => g = Len(D)
    /\ \A g \in 1..Len(D) : \A l \in Labels(D[g]) :
          (\A i \in 1..(g - 1) : l \notin Labels(D[i])) =>
              \E h : D[g] = groups[h] /\ FirstWith(groups, h, l)

\* What the parser and the compiler let pass.
Clear(groups) ==
    /\ ~LabelIsRepeated(groups) /\ ~DefaultIsRepeated(DefaultLast(groups))
    /\ \A g \in DOMAIN groups : groups[g].labels # <<>> /\ groups[g].labels \in Seq(Int)

\* A set of numbers has a least member.
LEMMA LeastOf ==
    ASSUME NEW S, S \subseteq Nat, S # {}
    PROVE  \E x \in S : \A y \in S : x <= y
<1>1. PICK x \in S : \A y \in S : ~(<<y, x>> \in OpToRel(<, Nat))
  BY NatLessThanWellFounded, WFMin
<1>2. \A y \in S : ~(y < x)
  BY <1>1 DEF OpToRel
<1> QED
  BY <1>2

\* A set of indexes has a greatest member.
LEMMA GreatestOf ==
    ASSUME NEW L \in Nat, NEW S, S \subseteq 1..L, S # {}
    PROVE  \E x \in S : \A y \in S : y <= x
<1> DEFINE T == {L - x : x \in S}
<1>1. T \subseteq Nat /\ T # {}
  <2>1. \A x \in S : L - x \in Nat
    OBVIOUS
  <2> QED
    BY <2>1
<1>2. PICK t \in T : \A y \in T : t <= y
  <2> HIDE DEF T
  <2> QED
    BY <1>1, LeastOf
<1>3. PICK x \in S : t = L - x
  OBVIOUS
<1>4. ASSUME NEW y \in S PROVE y <= x
  <2>1. L - y \in T
    OBVIOUS
  <2> QED
    BY <1>2, <1>3, <2>1
<1> QED
  BY <1>4

\* A sequence with one element taken out and another put at its end.
Without(s, p, e) == Append(SubSeq(s, 1, p - 1) \o SubSeq(s, p + 1, Len(s)), e)
IsWithout(d, s, p, e) ==
    /\ Len(d) = Len(s) /\ d[Len(s)] = e
    /\ \A i \in 1..(p - 1) : d[i] = s[i]
    /\ \A i \in p..(Len(s) - 1) : d[i] = s[i + 1]

LEMMA TakenOut ==
    ASSUME NEW R, NEW s \in Seq(R), NEW p \in 1..Len(s), NEW e \in R
    PROVE  IsWithout(Without(s, p, e), s, p, e) /\ Without(s, p, e) \in Seq(R)
<1> DEFINE L == Len(s)
           A == SubSeq(s, 1, p - 1)
           B == SubSeq(s, p + 1, L)
<1>1. L \in Nat /\ p \in 1..L /\ s[p] \in R
  OBVIOUS
<1>2. A \in Seq(R) /\ Len(A) = p - 1 /\ \A i \in 1..(p - 1) : A[i] = s[i]
  BY <1>1
<1>3. B \in Seq(R) /\ Len(B) = L - p /\ \A i \in 1..(L - p) : B[i] = s[p + i]
  BY <1>1
<1> HIDE DEF A, B, L
<1> DEFINE C == A \o B
<1>4. /\ C \in Seq(R) /\ Len(C) = L - 1
      /\ \A i \in 1..(p - 1) : C[i] = s[i]
      /\ \A i \in 1..(L - p) : C[p - 1 + i] = s[p + i]
  <2>1. IsSeq(A) /\ IsSeq(B) /\ C \in Seq(R)
    BY <1>2, <1>3, SeqIs
  <2>2. /\ Len(C) = Len(A) + Len(B)
        /\ \A i \in 1..Len(A) : C[i] = A[i]
        /\ \A i \in 1..Len(B) : C[Len(A) + i] = B[i]
    BY <2>1, Joined
  <2>3. (p - 1) + (L - p) = L - 1
    BY <1>1
  <2> HIDE DEF C
  <2> QED
    BY <1>2, <1>3, <2>1, <2>2, <2>3
<1> HIDE DEF C
<1> DEFINE d == Append(C, e)
<1>5. Len(d) = L /\ d[L] = e /\ d \in Seq(R) /\ \A i \in 1..(L - 1) : d[i] = C[i]
  BY <1>1, <1>4
<1>6. \A i \in 1..(p - 1) : i \in 1..(L - 1)
  BY <1>1
<1>7. ASSUME NEW i \in p..(L - 1) PROVE C[i] = s[i + 1]
  <2>1. i - p + 1 \in 1..(L - p) /\ p - 1 + (i - p + 1) = i /\ p + (i - p + 1) = i + 1
    BY <1>1
  <2> QED
    BY <1>4, <2>1
<1>8. \A i \in p..(L - 1) : i \in 1..(L - 1)
  BY <1>1
<1> HIDE DEF d
<1>9. /\ Len(d) = L /\ d[L] = e /\ d \in Seq(R)
      /\ \A i \in 1..(p - 1) : d[i] = s[i]
      /\ \A i \in p..(L - 1) : d[i] = s[i + 1]
  BY <1>4, <1>5, <1>6, <1>7, <1>8
<1> QED
  BY <1>9 DEF d, C, A, B, L, Without, IsWithout

\* Two groups with the default are one default too many.
LEMMA TwoDefaults ==
    ASSUME NEW D, NEW g \in DOMAIN D, NEW h \in DOMAIN D, g # h,
           Default \in Labels(D[g]), Default \in Labels(D[h])
    PROVE  DefaultIsRepeated(D)
<1>1. PICK j \in DOMAIN D[g].labels : D[g].labels[j] = Default
  BY DEF Labels
<1>2. PICK k \in DOMAIN D[h].labels : D[h].labels[k] = Default
  BY DEF Labels
<1>3. <<g, j>> # <<h, k>>
  OBVIOUS
<1> QED
  BY <1>1, <1>2, <1>3 DEF DefaultIsRepeated

\* The groups with the default and those that begin with it, and what
\* DefaultLast makes of them.
WithDefault(groups) ==
    {g \in DOMAIN groups : \E j \in DOMAIN groups[g].labels : groups[g].labels[j] = Default}
HeadDefault(groups) == {g \in DOMAIN groups : groups[g].labels[1] = Default}

\* DefaultLast takes out the first group that begins with the default and
\* appends the last that has it.
LEMMA DefaultLastIs ==
    ASSUME NEW R, NEW groups \in Seq(R)
    PROVE  \/ WithDefault(groups) = {} /\ DefaultLast(groups) = groups
           \/ \E w \in WithDefault(groups) :
                 \/ HeadDefault(groups) = {} /\ DefaultLast(groups) = Append(groups, groups[w])
                 \/ \E p \in HeadDefault(groups) :
                       DefaultLast(groups) = Without(groups, p, groups[w])
<1> DEFINE with == WithDefault(groups)
           head == HeadDefault(groups)
           PW(g) == \A h \in with : h <= g
           PH(g) == \A h \in head : g <= h
           w == CHOOSE g \in with : PW(g)
           p == CHOOSE g \in head : PH(g)
<1>1. Len(groups) \in Nat /\ with \subseteq 1..Len(groups) /\ head \subseteq 1..Len(groups)
  BY DEF WithDefault, HeadDefault
<1>2. with # {} => w \in with
  <2> SUFFICES ASSUME with # {} PROVE w \in with
    OBVIOUS
  <2> HIDE DEF with
  <2>1. \E g \in with : PW(g)
    BY <1>1, GreatestOf
  <2> HIDE DEF PW
  <2> QED
    BY <2>1
<1>3. head # {} => p \in head
  <2> SUFFICES ASSUME head # {} PROVE p \in head
    OBVIOUS
  <2> HIDE DEF head
  <2>0. head \subseteq Nat
    BY <1>1
  <2>1. \E g \in head : PH(g)
    BY <2>0, LeastOf
  <2> HIDE DEF PH
  <2> QED
    BY <2>1
<1>4. DefaultLast(groups) =
         IF with = {} THEN groups
         ELSE Append(IF head = {} THEN groups
                     ELSE SubSeq(groups, 1, p - 1) \o SubSeq(groups, p + 1, Len(groups)),
                     groups[w])
  BY Zenon DEF DefaultLast, WithDefault, HeadDefault
<1> HIDE DEF with, head, w, p
<1>5. CASE with = {}
  BY <1>4, <1>5 DEF with
<1>6. CASE with # {} /\ head = {}
  BY <1>2, <1>4, <1>6 DEF with, head
<1>7. CASE with # {} /\ head # {}
  <2>1. DefaultLast(groups) = Without(groups, p, groups[w])
    BY <1>4, <1>7 DEF Without
  <2> QED
    BY <1>2, <1>3, <1>7, <2>1 DEF with, head
<1> QED
  BY <1>5, <1>6, <1>7

\* In groups that are let pass one at most has the default, as its first
\* label, and it is the one that goes to the end.
LEMMA OneDefault ==
    ASSUME NEW R, NEW groups \in Seq(R), groups # <<>>, Clear(groups)
    PROVE  \/ WithDefault(groups) = {} /\ DefaultLast(groups) = groups
           \/ \E p \in HeadDefault(groups) :
                 /\ WithDefault(groups) = {p}
                 /\ DefaultLast(groups) = Without(groups, p, groups[p])
<1> DEFINE L == Len(groups)
           D == DefaultLast(groups)
<1>1. L \in Nat \ {0} /\ DOMAIN groups = 1..L /\ \A g \in 1..L : groups[g] \in R
  OBVIOUS
<1>2. \A g : g \in WithDefault(groups) <=> g \in 1..L /\ Default \in Labels(groups[g])
  BY <1>1 DEF Labels, WithDefault
<1>3. HeadDefault(groups) \subseteq WithDefault(groups)
  <2> SUFFICES ASSUME NEW g \in HeadDefault(groups) PROVE g \in WithDefault(groups)
    OBVIOUS
  <2>1. 1 \in DOMAIN groups[g].labels
    BY DEF Clear, HeadDefault
  <2> QED
    BY <2>1 DEF HeadDefault, WithDefault
<1>4. ~DefaultIsRepeated(D)
  BY DEF Clear
<1>5. ASSUME NEW w \in WithDefault(groups), D = Append(groups, groups[w]) PROVE FALSE
  <2>1. w \in 1..L /\ Default \in Labels(groups[w])
    BY <1>2
  <2>2. w \in DOMAIN D /\ L + 1 \in DOMAIN D /\ w # L + 1
        /\ D[w] = groups[w] /\ D[L + 1] = groups[w]
    BY <1>1, <1>5, <2>1
  <2> HIDE DEF D
  <2> QED
    BY <1>4, <2>1, <2>2, TwoDefaults
<1>6. ASSUME NEW w \in WithDefault(groups), NEW p \in HeadDefault(groups),
             D = Without(groups, p, groups[w])
      PROVE  WithDefault(groups) = {p} /\ w = p
  <2>1. w \in 1..L /\ Default \in Labels(groups[w]) /\ p \in 1..L /\ groups[w] \in R
    BY <1>1, <1>2, <1>3
  <2>2. /\ Len(D) = L /\ D[L] = groups[w] /\ D \in Seq(R)
        /\ \A i \in 1..(p - 1) : D[i] = groups[i]
        /\ \A i \in p..(L - 1) : D[i] = groups[i + 1]
    <3>1. IsWithout(D, groups, p, groups[w]) /\ D \in Seq(R)
      <4> HIDE DEF D
      <4> QED
        BY <1>6, <2>1, TakenOut
    <3> QED
      BY <3>1 DEF IsWithout
  <2> HIDE DEF D, L
  <2>3. DOMAIN D = 1..L /\ L \in 1..L
    BY <1>1, <2>2
  <2>4. ASSUME NEW q \in WithDefault(groups), q # p PROVE FALSE
    <3>1. q \in 1..L /\ Default \in Labels(groups[q])
      BY <1>2
    <3>2. \E i \in 1..L : i # L /\ D[i] = groups[q]
      <4>1. CASE q < p
        <5>1. q \in 1..(p - 1) /\ q \in 1..L /\ q # L
          BY <1>1, <2>1, <3>1, <4>1
        <5> QED
          BY <2>2, <5>1
      <4>2. CASE q > p
        <5>1. q - 1 \in p..(L - 1) /\ q - 1 \in 1..L /\ q - 1 # L /\ (q - 1) + 1 = q
          BY <1>1, <2>1, <3>1, <4>2
        <5> QED
          BY <2>2, <5>1
      <4> QED
        BY <1>1, <2>1, <2>4, <3>1, <4>1, <4>2
    <3> QED
      BY <1>4, <2>1, <2>2, <2>3, <3>1, <3>2, TwoDefaults
  <2> QED
    BY <1>3, <2>4
<1>7. CASE WithDefault(groups) = {} /\ D = groups
  BY <1>7
<1>8. CASE \E w \in WithDefault(groups) :
              \/ HeadDefault(groups) = {} /\ D = Append(groups, groups[w])
              \/ \E p \in HeadDefault(groups) : D = Without(groups, p, groups[w])
  <2> HIDE DEF D
  <2>1. PICK w \in WithDefault(groups) :
              \/ HeadDefault(groups) = {} /\ D = Append(groups, groups[w])
              \/ \E p \in HeadDefault(groups) : D = Without(groups, p, groups[w])
    BY <1>8
  <2>2. PICK p \in HeadDefault(groups) : D = Without(groups, p, groups[w])
    BY <1>5, <2>1
  <2>3. WithDefault(groups) = {p} /\ w = p
    BY <1>6, <2>2
  <2> QED
    BY <2>2, <2>3 DEF D
<1> QED
  BY <1>7, <1>8, DefaultLastIs

\* The parser's sort puts the group with default last and keeps the others.
LEMMA DefaultComesLast ==
    ASSUME NEW R, NEW groups \in Seq(R), groups # <<>>, Clear(groups)
    PROVE  Reordered(DefaultLast(groups), groups)
<1> DEFINE L == Len(groups)
           with == WithDefault(groups)
<1>1. L \in Nat \ {0} /\ DOMAIN groups = 1..L /\ \A g \in 1..L : groups[g] \in R
  OBVIOUS
<1>2. \A g \in 1..L : g \in with <=> Default \in Labels(groups[g])
  BY <1>1 DEF Labels, WithDefault
<1>3. CASE with = {} /\ DefaultLast(groups) = groups
  <2>1. \A g \in 1..L : Default \notin Labels(groups[g])
    BY <1>2, <1>3
  <2>2. ASSUME NEW g \in 1..L, NEW l \in Labels(groups[g]),
               \A i \in 1..(g - 1) : l \notin Labels(groups[i])
        PROVE  FirstWith(groups, g, l)
    <3>1. ASSUME NEW i \in 1..L, l \in Labels(groups[i]) PROVE g <= i
      <4> SUFFICES ASSUME ~(g <= i) PROVE FALSE
        OBVIOUS
      <4>1. i \in 1..(g - 1)
        BY <1>1
      <4> QED
        BY <2>2, <3>1, <4>1
    <3> QED
      BY <1>1, <3>1 DEF FirstWith
  <2> QED
    BY <1>1, <1>3, <2>1, <2>2 DEF Reordered
<1>4. ASSUME NEW p \in HeadDefault(groups), with = {p},
             DefaultLast(groups) = Without(groups, p, groups[p])
      PROVE  Reordered(DefaultLast(groups), groups)
  <2>1. p \in 1..L /\ Default \in Labels(groups[p]) /\ groups[p].labels[1] = Default
        /\ groups[p] \in R
    BY <1>1, <1>2, <1>4 DEF HeadDefault
  <2>2. \A q \in 1..L : Default \in Labels(groups[q]) => q = p
    BY <1>2, <1>4
  <2> DEFINE d == Without(groups, p, groups[p])
  <2>3. /\ Len(d) = L /\ d[L] = groups[p]
        /\ \A i \in 1..(p - 1) : d[i] = groups[i]
        /\ \A i \in p..(L - 1) : d[i] = groups[i + 1]
    <3>1. IsWithout(d, groups, p, groups[p])
      BY <2>1, TakenOut
    <3> QED
      BY <3>1 DEF IsWithout
  <2> HIDE DEF d, with, L
  <2>4. \A q \in 1..L : \A j \in DOMAIN groups[p].labels :
           \A k \in DOMAIN groups[q].labels :
              p < q /\ j > 1 => groups[p].labels[j] # groups[q].labels[k]
    BY <1>1, <2>1 DEF Clear, LabelIsRepeated
  <2>5. \* No group after the one with default has a label of it.
        ASSUME NEW q \in 1..L, p < q, NEW l \in Labels(groups[p]), l \in Labels(groups[q])
        PROVE  FALSE
    <3>1. PICK j \in DOMAIN groups[p].labels : groups[p].labels[j] = l
      BY DEF Labels
    <3>2. PICK k \in DOMAIN groups[q].labels : groups[q].labels[k] = l
      BY <2>5 DEF Labels
    <3>3. l # Default
      BY <1>1, <2>1, <2>2, <2>5
    <3>4. j > 1
      <4>1. groups[p].labels \in Seq(Int)
        BY <1>1, <2>1 DEF Clear
      <4>2. j \in Nat /\ j >= 1
        BY <4>1
      <4> QED
        BY <2>1, <3>1, <3>3, <4>2
    <3> QED
      BY <2>4, <2>5, <3>1, <3>2, <3>4
  <2>6. \* Where the groups of d come from.
        ASSUME NEW g \in 1..L
        PROVE  \/ g = L /\ d[g] = groups[p]
               \/ g < p /\ d[g] = groups[g] /\ g # L
               \/ g >= p /\ g # L /\ g + 1 \in 1..L /\ d[g] = groups[g + 1]
    <3>1. CASE g = L
      BY <2>3, <3>1
    <3>2. CASE g # L /\ g < p
      <4>1. g \in 1..(p - 1)
        BY <1>1, <2>1, <3>2
      <4> QED
        BY <2>3, <3>2, <4>1
    <3>3. CASE g # L /\ ~(g < p)
      <4>1. g \in p..(L - 1) /\ g + 1 \in 1..L /\ g >= p
        BY <1>1, <2>1, <3>3
      <4> QED
        BY <2>3, <3>3, <4>1
    <3> QED
      BY <3>1, <3>2, <3>3
  <2>7. \* And where the groups go.
        /\ d[L] = groups[p] /\ L \in 1..L
        /\ \A h \in 1..L : h < p => d[h] = groups[h]
        /\ \A h \in 1..L : h > p => h - 1 \in 1..L /\ d[h - 1] = groups[h]
    <3>1. ASSUME NEW h \in 1..L, h < p PROVE d[h] = groups[h]
      <4>1. h \in 1..(p - 1)
        BY <1>1, <2>1, <3>1
      <4> QED
        BY <2>3, <4>1
    <3>2. ASSUME NEW h \in 1..L, h > p PROVE h - 1 \in 1..L /\ d[h - 1] = groups[h]
      <4>1. h - 1 \in p..(L - 1) /\ h - 1 \in 1..L /\ h - 1 + 1 = h
        BY <1>1, <2>1, <3>2
      <4> QED
        BY <2>3, <4>1
    <3> QED
      BY <1>1, <2>3, <3>1, <3>2
  <2>8. ASSUME NEW g \in 1..L PROVE \E h \in 1..L : d[g] = groups[h]
    BY <2>1, <2>6
  <2>9. ASSUME NEW h \in 1..L PROVE \E g \in 1..L : d[g] = groups[h]
    <3>1. h = p \/ h < p \/ h > p
      BY <1>1, <2>1
    <3> QED
      BY <2>7, <3>1
  <2>10. ASSUME NEW g \in 1..L, Default \in Labels(d[g]) PROVE g = L
    <3>1. CASE g < p /\ d[g] = groups[g] /\ g # L
      <4>1. g = p
        BY <2>2, <2>10, <3>1
      <4> QED
        BY <1>1, <2>1, <3>1, <4>1
    <3>2. CASE g >= p /\ g # L /\ g + 1 \in 1..L /\ d[g] = groups[g + 1]
      <4>1. g + 1 = p
        BY <2>2, <2>10, <3>2
      <4> QED
        BY <1>1, <2>1, <3>2, <4>1
    <3> QED
      BY <2>6, <3>1, <3>2
  <2>11. ASSUME NEW g \in 1..L, NEW l \in Labels(d[g]),
                \A i \in 1..(g - 1) : l \notin Labels(d[i])
         PROVE  \E h : d[g] = groups[h] /\ FirstWith(groups, h, l)
    <3>1. CASE g = L /\ d[g] = groups[p]
      <4>1. ASSUME NEW i \in 1..L, l \in Labels(groups[i]), i # p PROVE FALSE
        <5>1. CASE i < p
          <6>1. d[i] = groups[i] /\ i \in 1..(g - 1)
            BY <1>1, <2>1, <2>7, <3>1, <5>1
          <6> QED
            BY <2>11, <4>1, <6>1
        <5>2. CASE i > p
          BY <2>5, <2>11, <3>1, <4>1, <5>2
        <5> QED
          BY <1>1, <2>1, <4>1, <5>1, <5>2
      <4>2. \A i \in 1..L : l \in Labels(groups[i]) => p <= i
        BY <1>1, <2>1, <4>1
      <4>3. FirstWith(groups, p, l)
        BY <1>1, <2>1, <2>11, <3>1, <4>2 DEF FirstWith
      <4> QED
        BY <3>1, <4>3
    <3>2. CASE g < p /\ d[g] = groups[g] /\ g # L
      <4>1. ASSUME NEW i \in 1..L, l \in Labels(groups[i]) PROVE g <= i
        <5> SUFFICES ASSUME i < g PROVE FALSE
          BY <1>1
        <5>1. i < p /\ i \in 1..(g - 1)
          BY <1>1, <2>1, <3>2
        <5>2. d[i] = groups[i]
          BY <2>7, <5>1
        <5> QED
          BY <2>11, <4>1, <5>1, <5>2
      <4>2. FirstWith(groups, g, l)
        BY <1>1, <2>11, <3>2, <4>1 DEF FirstWith
      <4> QED
        BY <3>2, <4>2
    <3>3. CASE g >= p /\ g # L /\ g + 1 \in 1..L /\ d[g] = groups[g + 1]
      <4>1. ASSUME NEW i \in 1..L, l \in Labels(groups[i]) PROVE g + 1 <= i
        <5> SUFFICES ASSUME i < g + 1 PROVE FALSE
          BY <1>1
        <5>1. CASE i < p
          <6>1. d[i] = groups[i] /\ i \in 1..(g - 1)
            BY <1>1, <2>1, <2>7, <3>3, <5>1
          <6> QED
            BY <2>11, <4>1, <6>1
        <5>2. CASE i = p
          <6>1. p < g + 1 /\ l \in Labels(groups[p]) /\ l \in Labels(groups[g + 1])
            BY <1>1, <2>1, <2>11, <3>3, <4>1, <5>2
          <6> QED
            BY <2>5, <3>3, <6>1
        <5>3. CASE i > p
          <6>1. d[i - 1] = groups[i] /\ i - 1 \in 1..(g - 1)
            BY <1>1, <2>1, <2>7, <3>3, <5>3
          <6> QED
            BY <2>11, <4>1, <6>1
        <5> QED
          BY <1>1, <2>1, <5>1, <5>2, <5>3
      <4>2. FirstWith(groups, g + 1, l)
        BY <1>1, <2>11, <3>3, <4>1 DEF FirstWith
      <4> QED
        BY <3>3, <4>2
    <3> QED
      BY <2>6, <3>1, <3>2, <3>3
  <2>12. Reordered(d, groups)
    BY <1>1, <2>3, <2>8, <2>9, <2>10, <2>11 DEF Reordered
  <2> QED
    BY <1>4, <2>12 DEF d
<1> QED
  BY <1>3, <1>4, OneDefault

\* The body of a label is that of the first group that has it.
LEMMA BodyOfGroup ==
    ASSUME NEW groups, NEW h, NEW l, FirstWith(groups, h, l), DOMAIN groups \subseteq Int
    PROVE  Meaning!BodyOf(groups, l) = <<groups[h].body>>
<1> DEFINE having == {g \in DOMAIN groups : l \in {groups[g].labels[j] : j \in DOMAIN groups[g].labels}}
           P(g) == \A i \in having : g <= i
<1>1. \A g : g \in having <=> g \in DOMAIN groups /\ l \in Labels(groups[g])
  BY DEF Labels
<1> HIDE DEF having
<1>2. h \in having /\ having \subseteq Int /\ P(h)
  BY <1>1 DEF FirstWith
<1>3. (CHOOSE g \in having : P(g)) = h
  <2> DEFINE c == CHOOSE g \in having : P(g)
  <2>1. c \in having /\ P(c)
    <3> HIDE DEF P
    <3> QED
      BY <1>2
  <2> HIDE DEF c
  <2>2. c <= h /\ h <= c
    BY <1>2, <2>1
  <2>3. c \in Int /\ h \in Int
    BY <1>2, <2>1
  <2>4. c = h
    BY <2>2, <2>3
  <2> QED
    BY <2>4 DEF c
<1>4. Meaning!BodyOf(groups, l) =
          IF having = {} THEN <<>> ELSE <<groups[CHOOSE g \in having : P(g)].body>>
  BY Zenon DEF Meaning!BodyOf, having
<1>5. having # {}
  BY <1>2
<1> QED
  BY ONLY <1>3, <1>4, <1>5

\* A label that no group has has no body.
LEMMA BodyOfNone ==
    ASSUME NEW groups, NEW l, \A h \in DOMAIN groups : l \notin Labels(groups[h])
    PROVE  Meaning!BodyOf(groups, l) = <<>>
<1> DEFINE having == {g \in DOMAIN groups : l \in {groups[g].labels[j] : j \in DOMAIN groups[g].labels}}
<1>1. having = {}
  BY DEF Labels
<1>2. Meaning!BodyOf(groups, l) =
          IF having = {} THEN <<>>
          ELSE <<groups[CHOOSE g \in having : \A h \in having : g <= h].body>>
  BY Zenon DEF Meaning!BodyOf, having
<1> QED
  BY <1>1, <1>2

\* The body that is selected.
LEMMA SelectGoes ==
    ASSUME NEW groups, DOMAIN groups \subseteq Int, NEW h, NEW v, NEW K, IsSeq(K), NEW b,
           \/ FirstWith(groups, h, v)
           \/ /\ FirstWith(groups, h, Default)
              /\ \A g \in DOMAIN groups : v \notin Labels(groups[g])
    PROVE  Same(<<<<Meaning!Select(groups)>> \o K, b>>, <<<<groups[h].body>> \o K, b>>, v)
<1> DEFINE x == IF Meaning!BodyOf(groups, v) # <<>> THEN Meaning!BodyOf(groups, v)
                ELSE Meaning!BodyOf(groups, Default)
<1>1. x = <<groups[h].body>>
  <2>1. CASE FirstWith(groups, h, v)
    <3>1. Meaning!BodyOf(groups, v) = <<groups[h].body>>
      BY <2>1, BodyOfGroup
    <3>2. <<groups[h].body>> # <<>>
      OBVIOUS
    <3> QED
      BY <3>1, <3>2
  <2>2. CASE /\ FirstWith(groups, h, Default)
             /\ \A g \in DOMAIN groups : v \notin Labels(groups[g])
    <3>1. Meaning!BodyOf(groups, Default) = <<groups[h].body>>
      BY <2>2, BodyOfGroup
    <3>2. Meaning!BodyOf(groups, v) = <<>>
      BY <2>2, BodyOfNone
    <3> QED
      BY <3>1, <3>2
  <2> QED
    BY <2>1, <2>2
<1>2. Same(<<<<Meaning!Select(groups)>> \o K, b>>, <<x \o K, b>>, v)
  BY UnfoldSelect
<1> QED
  BY <1>1, <1>2

\* The values that none of the first g groups is for.
Untested(V, D, g) ==
    {v \in V : \A h \in 1..g : v \notin Labels(D[h]) /\ Default \notin Labels(D[h])}

\* Whatever the value is, one of the groups is for it.
Covered(V, groups) ==
    (\A g \in DOMAIN groups : Default \notin Labels(groups[g])) =>
        \A v \in V : \E g \in DOMAIN groups : v \in Labels(groups[g])

\* What a switch that the parser accepts is made of.
LEMMA SwitchParts ==
    ASSUME NEW n, NEW b, NEW m, Good(n, b, m), n.kind = "switch", ~HasError(n)
    PROVE  /\ n.value.kind \in Expressions /\ \A x : Good(n.value, x, m)
           /\ \E R : n.groups \in Seq(R)
           /\ n.groups # <<>> /\ Clear(n.groups) /\ Covered(After(n.value), n.groups)
           /\ \A g \in DOMAIN n.groups :
                 n.groups[g].body.kind = "body" /\ \A x : Good(n.groups[g].body, x, m)
<1>1. PICK S : /\ WellFormed(n, S)
               /\ n.kind \notin Expressions \cup {"return"} =>
                        \A e \in S : \A x : Good(e, x, m)
  BY GoodParts
<1>2. \A e \in S : \A x : Good(e, x, m)
  BY <1>1 DEF Expressions
<1>3. /\ IsExpression(n.value, S)
      /\ n.groups \in Seq([labels : Seq(Int), body : S]) /\ n.groups # <<>>
      /\ \A g \in DOMAIN n.groups :
            IsBlock(n.groups[g].body, S) /\ n.groups[g].labels # <<>>
      /\ ValueHasGroup(n)
  BY <1>1 DEF WellFormed
<1>4. \A g \in DOMAIN n.groups : n.groups[g] \in [labels : Seq(Int), body : S]
  <2> DEFINE R == [labels : Seq(Int), body : S]
             gs == n.groups
  <2>1. gs \in Seq(R)
    BY <1>3
  <2> HIDE DEF R, gs
  <2>2. \A g \in DOMAIN gs : gs[g] \in R
    BY <2>1
  <2> QED
    BY <2>2 DEF R, gs
<1>5. Clear(n.groups)
  BY <1>3, <1>4 DEF Clear, HasError
<1>6. Covered(After(n.value), n.groups)
  <2> SUFFICES ASSUME \A g \in DOMAIN n.groups : Default \notin Labels(n.groups[g]),
                      NEW v \in After(n.value)
               PROVE  \E g \in DOMAIN n.groups : v \in Labels(n.groups[g])
    BY DEF Covered
  <2> DEFINE labels == UNION {Labels(n.groups[g]) : g \in DOMAIN n.groups}
  <2>1. Default \notin labels
    OBVIOUS
  <2>2. n.value.kind \in {"value", "operator"} /\ n.value.yields \subseteq labels
    BY <1>3, <2>1 DEF ValueHasGroup
  <2>3. v \in labels
    BY <2>2 DEF After
  <2> QED
    BY <2>3
<1> QED
  BY <1>2, <1>3, <1>5, <1>6 DEF IsExpression, IsBlock

\* In the compiler's order, the first group that tests true is the one
\* selected.
LEMMA SelectTest ==
    ASSUME NEW D, NEW groups, Reordered(D, groups), DOMAIN groups \subseteq Int,
           NEW g \in 1..Len(D), NEW V, NEW v \in Untested(V, D, g - 1),
           v \in Labels(D[g]) \/ Default \in Labels(D[g]), NEW K, IsSeq(K), NEW b
    PROVE  Same(<<<<Meaning!Select(groups)>> \o K, b>>, <<<<D[g].body>> \o K, b>>, v)
<1>1. \A i \in 1..(g - 1) : v \notin Labels(D[i]) /\ Default \notin Labels(D[i])
  BY DEF Untested
<1>2. CASE v \in Labels(D[g])
  <2>1. PICK h : D[g] = groups[h] /\ FirstWith(groups, h, v)
    BY <1>1, <1>2 DEF Reordered
  <2> QED
    BY <2>1, SelectGoes
<1>3. CASE v \notin Labels(D[g])
  <2>0. PICK h : D[g] = groups[h] /\ FirstWith(groups, h, Default)
    BY <1>1, <1>3 DEF Reordered
  <2>1. g = Len(D) /\ Len(D) \in Nat \ {0}
    BY <1>3 DEF Reordered
  <2>2. ASSUME NEW i \in DOMAIN groups PROVE v \notin Labels(groups[i])
    <3>1. PICK j \in 1..Len(D) : D[j] = groups[i]
      BY DEF Reordered
    <3>2. CASE j = g
      BY <1>3, <3>1, <3>2
    <3>3. CASE j # g
      <4>1. j \in 1..(g - 1)
        BY <2>1, <3>3
      <4> QED
        BY <3>1, <4>1 DEF Untested
    <3> QED
      BY <3>2, <3>3
  <2> QED
    BY <2>0, <2>2, SelectGoes
<1> QED
  BY <1>2, <1>3

\* No value is left when every group was tested.
LEMMA AllTested ==
    ASSUME NEW D, NEW groups, Reordered(D, groups), NEW V, Covered(V, groups)
    PROVE  Untested(V, D, Len(D)) = {}
<1> SUFFICES ASSUME NEW v \in Untested(V, D, Len(D)) PROVE FALSE
  OBVIOUS
<1>1. v \in V /\ \A h \in 1..Len(D) : v \notin Labels(D[h]) /\ Default \notin Labels(D[h])
  BY DEF Untested
<1>2. \A g \in DOMAIN groups : v \notin Labels(groups[g]) /\ Default \notin Labels(groups[g])
  BY <1>1 DEF Reordered
<1> QED
  BY <1>1, <1>2 DEF Covered

\* The numbers of the groups, for the inductions over them.
LEMMA FromEnd ==
    ASSUME NEW L \in Nat \ {0}
    PROVE  /\ 1..0 = {} /\ (L + 1)..L = {}
           /\ \A g \in 1..L : /\ g \in Nat /\ g # 0 /\ g + 1 \in Nat
                              /\ 1..(g - 1) \subseteq 1..L /\ g..L \subseteq 1..L
                              /\ 1..((g + 1) - 1) = 1..(g - 1) \cup {g}
                              /\ g..L = {g} \cup ((g + 1)..L)
           /\ \A g \in 1..(L + 1) : /\ g \in Nat
                                    /\ 1..(g - 1) \subseteq Nat /\ g..L \subseteq Nat
OBVIOUS

\* gacSwitch: the tests come to the body that the value selects, and from
\* every body to the end.
LEMMA CompilesSwitch ==
    ASSUME NEW n, NEW t, NEW u, NEW G, NEW c \in Nat, NEW m, EntryOK(t, c), EntryOK(u, c),
           n.kind = "switch", NodeFits(n, t, u, m), ~HasError(n)
    PROVE  Compiles(n, t, u, G, c, m)
<1> DEFINE D == DefaultLast(n.groups)
           L == Len(D)
           K == u.k
           b == t.b
           V == After(n.value)
           KS == <<Meaning!Select(n.groups)>> \o K
           KN == <<n>> \o K
           x0 == Target(K, b, 0, Free, Int, "next", 0)
           xg(i) == Target(<<D[i].body>> \o K, b, 0, Free, Int, "next", 0)
           f == [i \in Nat |-> IF i = 0 THEN x0 ELSE xg(i)]
           G2 == NewVars(G, c, f)
           N == t.n + 1
           WT(g) == t.waits \cup {<<c, h>> : h \in 1..(g - 1)}
           WZ(g) == t.waits \cup {<<c, 0>>} \cup {<<c, h>> : h \in g..L}
           w1 == Entry(KN, b, 0, Free, Int, TRUE, N, t.waits, {})
           T(g) == Entry(KS, b, 1, OnTop, Untested(V, D, g - 1), TRUE, N, WT(g), {})
           Z(g) == Entry(K, b, 0, Free, IF g = L + 1 THEN Int ELSE {}, TRUE, N, WZ(g), {})
           ltests == [g \in 1..L |-> Tests(D[g].labels, <<c, g>>)]
           lcases == [g \in 1..L |-> Case(D[g].body, <<c, g>>, <<c, 0>>, g = L)]
<1>0. EntryOK(t, c + 1) /\ EntryOK(u, c + 1)
  BY EntryGrows
<1>1. /\ Goes(t.k, b, KN, b, t.may) /\ Good(n, b, m)
      /\ u.b = b /\ Int \subseteq u.may /\ u.may \subseteq Int /\ u.h = 0 /\ u.s = Free
      /\ ~u.open /\ u.n <= N /\ t.waits \subseteq u.waits /\ t.inner = {}
  BY DEF NodeFits, Opens, Expressions, After, EntryOK
<1>2. /\ n.value.kind \in Expressions /\ \A x : Good(n.value, x, m)
      /\ n.groups # <<>> /\ Clear(n.groups) /\ Covered(V, n.groups)
      /\ \A g \in DOMAIN n.groups :
            n.groups[g].body.kind = "body" /\ \A x : Good(n.groups[g].body, x, m)
  BY <1>1, SwitchParts
<1>3. PICK R : n.groups \in Seq(R)
  BY <1>1, SwitchParts
<1>4. Reordered(D, n.groups) /\ DOMAIN n.groups \subseteq Int
  BY <1>2, <1>3, DefaultComesLast
<1>5. L \in Nat \ {0}
  BY <1>4 DEF Reordered
<1>6. V \subseteq Int
  BY <1>2, ExpressionParts
<1>7. /\ IsSeq(K) /\ IsSeq(b) /\ t.n \in Nat /\ N \in Nat /\ t.waits \subseteq Vars(c + 1)
      /\ t.may \subseteq Int /\ u.n \in Nat
  BY <1>0 DEF EntryOK
<1>8. IsSeq(KN) /\ IsSeq(KS) /\ \A i : IsSeq(<<D[i].body>> \o K)
  BY <1>7, ConsFacts
<1>9. \A g \in 1..L : D[g].body.kind = "body" /\ D[g].labels \in Seq(Int)
                      /\ \A x : Good(D[g].body, x, m)
  <2> SUFFICES ASSUME NEW g \in 1..L
               PROVE  /\ D[g].body.kind = "body" /\ D[g].labels \in Seq(Int)
                      /\ \A x : Good(D[g].body, x, m)
    OBVIOUS
  <2>1. PICK h \in DOMAIN n.groups : D[g] = n.groups[h]
    BY <1>4 DEF Reordered
  <2>2. n.groups[h].labels \in Seq(Int)
    BY <1>2 DEF Clear
  <2> QED
    BY <1>2, <2>1, <2>2
<1>10. Untested(V, D, L) = {}
  BY <1>2, <1>4, AllTested
<1>11. \A v : Same(<<KN, b>>, <<<<n.value>> \o KS, b>>, v)
  BY <1>7, UnfoldSwitch
<1>12. ast2asm(n, c) = <<newStatment, n.value>> \o ltests \o lcases \o <<ToNext(<<c, 0>>)>>
  BY Zenon DEF ast2asm, Expressions, gacSwitch
<1>13. /\ Extends(G, G2, c) /\ G2[<<c, 0>>] = x0
       /\ \A g \in 1..L : G2[<<c, g>>] = xg(g)
  <2>1. 0 \in Nat /\ f[0] = x0 /\ \A g \in 1..L : g \in Nat /\ f[g] = xg(g)
    BY <1>5
  <2> HIDE DEF f, xg, x0
  <2>2. \A i \in Nat : G2[<<c, i>>] = f[i]
    BY NewVarsAt
  <2>3. Extends(G, G2, c)
    BY NewVarsAt
  <2> QED
    BY <2>1, <2>2, <2>3
<1>14. \A i \in Nat : <<c, i>> \in Vars(c + 1)
  BY NewVarsFacts
<1> HIDE DEF D, KS, KN, K, b, V, G2, L, N
<1>15. \A g \in 1..(L + 1) : WT(g) \subseteq Vars(c + 1) /\ WZ(g) \subseteq Vars(c + 1)
  <2> SUFFICES ASSUME NEW g \in 1..(L + 1)
               PROVE  WT(g) \subseteq Vars(c + 1) /\ WZ(g) \subseteq Vars(c + 1)
    OBVIOUS
  <2>1. 1..(g - 1) \subseteq Nat /\ g..L \subseteq Nat
    BY <1>5, FromEnd
  <2> QED
    BY <1>7, <1>14, <2>1
<1>16. EntryOK(w1, c + 1)
  BY <1>7, <1>8 DEF EntryOK, Entry
<1>17. ASSUME NEW g \in 1..(L + 1) PROVE EntryOK(T(g), c + 1) /\ EntryOK(Z(g), c + 1)
  <2>1. Untested(V, D, g - 1) \subseteq Int
    BY <1>6 DEF Untested
  <2>2. WT(g) \subseteq Vars(c + 1) /\ WZ(g) \subseteq Vars(c + 1)
    BY <1>15
  <2> HIDE DEF WT, WZ
  <2> QED
    BY <1>7, <1>8, <2>1, <2>2 DEF EntryOK, Entry
<1>18. Leg(newStatment, t, w1, G2, c + 1, m)
  <2>1. Enter(t, w1)
    BY <1>1, <1>7, EnterMade DEF Entry, b
  <2>2. w1.open /\ w1.n = t.n + 1 /\ t.waits \subseteq w1.waits
    BY DEF Entry, N
  <2> HIDE DEF w1
  <2> QED
    BY <1>0, <1>1, <1>16, <2>1, <2>2, StatementLeg
<1>19. Leg(n.value, w1, T(1), G2, c + 1, m)
  <2>1. Untested(V, D, 1 - 1) = V
    BY DEF Untested
  <2>2. WT(1) = t.waits
    OBVIOUS
  <2>3. 1 \in 1..(L + 1)
    BY <1>5
  <2>4. EntryOK(T(1), c + 1)
    BY <1>17, <2>3
  <2> DEFINE w2 == T(1)
  <2>5. Goes(w1.k, w1.b, <<n.value>> \o w2.k, w1.b, w1.may)
    BY <1>11 DEF Entry, Goes
  <2>6. /\ w2.b = w1.b /\ V \subseteq w2.may /\ w2.h = 1 /\ w2.s = OnTop
        /\ w2.open /\ w2.n <= w1.n + 1 /\ w1.waits \subseteq w2.waits /\ w1.inner = {}
    BY <1>7, <2>1, <2>2 DEF Entry
  <2>7. EntryOK(w2, c + 1)
    BY <2>4
  <2> HIDE DEF w1, w2, T
  <2>8. Leg(n.value, w1, w2, G2, c + 1, m)
    BY <1>2, <1>16, <2>5, <2>6, <2>7, ExpressionLeg DEF V
  <2> QED
    BY <2>8 DEF w2
<1>20. ASSUME NEW g \in 1..L PROVE Leg(ltests[g], T(g), T(g + 1), G2, c + 1, m)
  <2> DEFINE x == <<c, g>>
             ta == T(g)
             tb == T(g + 1)
             lab == D[g].labels
  <2>1. /\ g \in 1..(L + 1) /\ g + 1 \in 1..(L + 1) /\ g \in Nat /\ (g + 1) - 1 = g
        /\ 1..g = 1..(g - 1) \cup {g}
    BY <1>5
  <2>2. EntryOK(ta, c + 1) /\ EntryOK(tb, c + 1)
    BY <1>17, <2>1
  <2>3. G2[x] = xg(g) /\ x \in Vars(c + 1) /\ lab \in Seq(Int)
    BY <1>9, <1>13, <1>14, <2>1
  <2>4. /\ ta.k = KS /\ ta.b = b /\ ta.h = 1 /\ ta.s = OnTop /\ ta.may = Untested(V, D, g - 1)
        /\ ta.open /\ ta.n = N /\ ta.waits = WT(g) /\ ta.inner = {}
    BY DEF Entry
  <2>5. /\ tb.k = KS /\ tb.b = b /\ tb.h = 1 /\ tb.s = OnTop /\ tb.may = Untested(V, D, g)
        /\ tb.open /\ tb.n = N /\ tb.waits = WT(g + 1) /\ tb.inner = {}
    BY <2>1 DEF Entry
  <2>6. WT(g) \subseteq WT(g + 1) /\ x \in WT(g + 1)
    BY <2>1
  <2>7. Elements(lab) = Labels(D[g])
    BY DEF Elements, Labels
  <2>8. \A v : v \in Untested(V, D, g) <=>
            v \in Untested(V, D, g - 1) /\ v \notin Labels(D[g]) /\ Default \notin Labels(D[g])
    BY <2>1 DEF Untested
  <2>9. /\ xg(g).k = <<D[g].body>> \o K /\ xg(g).b = b /\ xg(g).h = 0 /\ xg(g).s = Free
        /\ xg(g).may = Int /\ xg(g).lands = "next"
    BY DEF Target
  <2> HIDE DEF ta, tb, WT, xg, lab, T, x
  <2>10. ASSUME NEW v \in ta.may
         PROVE  IF v \in Elements(lab) \/ Default \in Elements(lab)
                THEN Hit(ta, v, ta.b, 0, Free, G2[x])
                ELSE Hit(ta, v, ta.b, 1, OnTop, tb)
    <3>1. CASE v \in Labels(D[g]) \/ Default \in Labels(D[g])
      <4>1. v \in Untested(V, D, g - 1) /\ v \in Int
        BY <1>6, <2>4 DEF Untested
      <4>2. g \in 1..Len(D)
        BY DEF L
      <4>3. Same(<<KS, b>>, <<<<D[g].body>> \o K, b>>, v)
        BY <1>2, <1>4, <1>7, <3>1, <4>1, <4>2, SelectTest DEF KS
      <4>4. Hit(ta, v, ta.b, 0, Free, G2[x])
        BY <2>3, <2>4, <2>9, <4>1, <4>3 DEF Hit
      <4> QED
        BY <2>7, <3>1, <4>4
    <3>2. CASE ~(v \in Labels(D[g]) \/ Default \in Labels(D[g]))
      <4>1. v \in tb.may
        BY <2>4, <2>5, <2>8, <3>2
      <4>2. Hit(ta, v, ta.b, 1, OnTop, tb)
        BY <2>4, <2>5, <4>1, SameIsEquivalence DEF Hit
      <4> QED
        BY <2>7, <3>2, <4>2
    <3> QED
      BY <3>1, <3>2
  <2>11. ta.open /\ tb.open /\ tb.n <= ta.n /\ Keeps(ta, tb) /\ x \in tb.waits
    BY <1>7, <2>4, <2>5, <2>6 DEF Keeps
  <2>12. TestsFit(lab, x, ta, tb, G2)
    BY <2>3, <2>4, <2>5, <2>9, <2>10, <2>11 DEF TestsFit
  <2>13. Leg(Tests(lab, x), ta, tb, G2, c + 1, m)
    BY <2>2, <2>3, <2>12, TestsLeg
  <2>14. ltests[g] = Tests(lab, x)
    BY DEF lab, x
  <2> HIDE DEF ltests
  <2> QED
    BY <2>13, <2>14 DEF ta, tb
<1>21. ASSUME NEW g \in 1..L PROVE Leg(lcases[g], Z(g), Z(g + 1), G2, c + 1, m)
  <2> DEFINE y == Case(D[g].body, <<c, g>>, <<c, 0>>, g = L)
             za == Z(g)
             zb == Z(g + 1)
  <2>1. /\ g \in 1..(L + 1) /\ g + 1 \in 1..(L + 1) /\ g \in Nat /\ g # L + 1
        /\ (g + 1 = L + 1 <=> g = L) /\ g..L = {g} \cup ((g + 1)..L)
    BY <1>5
  <2>2. EntryOK(za, c + 1) /\ EntryOK(zb, c + 1)
    BY <1>17, <2>1
  <2>3. /\ y.kind = "case" /\ y.body = D[g].body /\ y.var = <<c, g>> /\ y.end = <<c, 0>>
        /\ y.last = (g = L)
    BY DEF Case
  <2>4. /\ G2[y.var] = xg(g) /\ G2[y.end] = x0 /\ y.var \in Vars(c + 1) /\ y.end \in Vars(c + 1)
    BY <1>13, <1>14, <2>1, <2>3
  <2>5. /\ za.may = {} /\ za.n = N /\ za.waits = WZ(g) /\ za.inner = {}
    BY <2>1 DEF Entry
  <2>6. /\ zb.k = K /\ zb.b = b /\ zb.h = 0 /\ zb.s = Free /\ (g = L => zb.may = Int)
        /\ zb.open /\ zb.n = N /\ zb.waits = WZ(g + 1) /\ zb.inner = {}
    BY <2>1 DEF Entry
  <2>7. <<c, 0>> \in WZ(g + 1) /\ WZ(g) \subseteq WZ(g + 1) \cup {<<c, g>>}
    BY <2>1
  <2>8. xg(g).lands = "next" /\ x0.lands = "next"
    BY DEF Target
  <2>9. g = L => Sub(x0, zb)
    <3>1. x0.may = Int /\ x0.k = K /\ x0.b = b /\ x0.h = 0 /\ x0.s = Free
      BY DEF Target
    <3> HIDE DEF x0, zb, Z
    <3> QED
      BY <2>6, <3>1, SubMade
  <2>10. Sub(G2[y.var], Target(<<y.body>> \o K, b, 0, Free, Int, "next", 0))
    BY <2>3, <2>4, SubSelf
  <2>11. Sub(x0, G2[y.end])
    BY <2>4, SubSelf
  <2>12. Good(y.body, b, m) /\ y.body.kind = "body"
    BY <1>9, <2>3
  <2> HIDE DEF za, zb, Z, WZ, xg, y
  <2>13. LET end == Target(K, b, 0, Free, Int, "next", 0)
         IN  IF y.last THEN Sub(end, zb) ELSE Sub(end, G2[y.end]) /\ y.end \in zb.waits
    BY <2>3, <2>6, <2>7, <2>9, <2>11
  <2> HIDE DEF x0
  <2>14. CaseFits(y, za, zb, G2, m)
    <3>1. zb.n <= za.n
      BY <1>7, <2>5, <2>6
    <3>2. /\ G2[y.var].lands = "next" /\ (~y.last => G2[y.end].lands = "next")
          /\ zb.open /\ za.waits \subseteq zb.waits \cup {y.var} /\ za.inner = {} /\ za.may = {}
      BY <2>3, <2>4, <2>5, <2>6, <2>7, <2>8
    <3> QED
      BY <1>7, <2>10, <2>12, <2>13, <3>1, <3>2 DEF CaseFits
  <2>15. Leg(y, za, zb, G2, c + 1, m)
    BY <2>2, <2>3, <2>4, <2>14 DEF Leg, Fits
  <2>16. lcases[g] = y
    BY DEF y
  <2> HIDE DEF lcases
  <2> QED
    BY <2>15, <2>16 DEF za, zb
<1>22. Leads(<<newStatment, n.value>>, t, T(1), G2, c + 1, m)
  <2> HIDE DEF T, w1
  <2> QED
    BY <1>18, <1>19, EndOfWay, Before2
<1>23. Len(ltests) = L /\ Len(lcases) = L /\ IsSeq(ltests) /\ IsSeq(lcases)
  <2>1. L \in Nat
    BY <1>5
  <2>2. ltests \in Seq({ltests[g] : g \in 1..L}) /\ lcases \in Seq({lcases[g] : g \in 1..L})
        /\ Len(ltests) = L /\ Len(lcases) = L
    BY <2>1
  <2> QED
    BY <2>2, SeqIs
<1>24. Leads(ltests, T(1), T(L + 1), G2, c + 1, m)
  <2> DEFINE ty == [g \in 1..(L + 1) |-> T(g)]
  <2>1. /\ 1 \in 1..(L + 1) /\ L + 1 \in 1..(L + 1)
        /\ \A g \in 1..L : g \in 1..(L + 1) /\ g + 1 \in 1..(L + 1)
    BY <1>5
  <2>2. EntryOK(T(L + 1), c + 1)
    BY <1>17, <2>1
  <2>3. \A g \in 1..(L + 1) : ty[g] = T(g)
    OBVIOUS
  <2> HIDE DEF T, ty, ltests
  <2>4. \A g \in 1..L : Leg(ltests[g], ty[g], ty[g + 1], G2, c + 1, m)
    BY <1>20, <2>1, <2>3
  <2>5. EntryOK(ty[L + 1], c + 1) /\ L \in Nat
    BY <1>5, <2>1, <2>2, <2>3
  <2>6. Leads(ltests, ty[1], ty[L + 1], G2, c + 1, m)
    BY <1>23, <2>4, <2>5, Chain
  <2> QED
    BY <2>1, <2>3, <2>6
<1>25. Leads(lcases, Z(1), Z(L + 1), G2, c + 1, m)
  <2> DEFINE ty == [g \in 1..(L + 1) |-> Z(g)]
  <2>1. /\ 1 \in 1..(L + 1) /\ L + 1 \in 1..(L + 1)
        /\ \A g \in 1..L : g \in 1..(L + 1) /\ g + 1 \in 1..(L + 1)
    BY <1>5
  <2>2. EntryOK(Z(L + 1), c + 1)
    BY <1>17, <2>1
  <2>3. \A g \in 1..(L + 1) : ty[g] = Z(g)
    OBVIOUS
  <2> HIDE DEF Z, ty, lcases
  <2>4. \A g \in 1..L : Leg(lcases[g], ty[g], ty[g + 1], G2, c + 1, m)
    BY <1>21, <2>1, <2>3
  <2>5. EntryOK(ty[L + 1], c + 1) /\ L \in Nat
    BY <1>5, <2>1, <2>2, <2>3
  <2>6. Leads(lcases, ty[1], ty[L + 1], G2, c + 1, m)
    BY <1>23, <2>4, <2>5, Chain
  <2> QED
    BY <2>1, <2>3, <2>6
<1>26. EntryOK(T(1), c + 1) /\ EntryOK(T(L + 1), c + 1)
       /\ EntryOK(Z(1), c + 1) /\ EntryOK(Z(L + 1), c + 1)
  <2>1. 1 \in 1..(L + 1) /\ L + 1 \in 1..(L + 1)
    BY <1>5
  <2> QED
    BY <1>17, <2>1
<1>27. Weaker(T(L + 1), Z(1))
  <2> DEFINE ta == T(L + 1)
             zb == Z(1)
  <2>1. ta.may = {} /\ ta.open /\ ta.n = N /\ ta.waits = WT(L + 1) /\ ta.inner = {}
    <3>1. (L + 1) - 1 = L
      BY <1>5
    <3> QED
      BY <1>10, <3>1 DEF Entry
  <2>2. zb.open /\ zb.n = N /\ zb.waits = WZ(1) /\ zb.inner = {}
    BY DEF Entry
  <2>3. WT(L + 1) \subseteq WZ(1)
    <3>1. (L + 1) - 1 = L
      BY <1>5
    <3> QED
      BY <3>1
  <2> HIDE DEF ta, zb, T, Z, WT, WZ
  <2>4. Sub(ta, zb)
    BY <2>1 DEF Sub
  <2>5. Weaker(ta, zb)
    BY <1>7, <2>1, <2>2, <2>3, <2>4 DEF Weaker, Keeps
  <2> QED
    BY <2>5 DEF ta, zb
<1>28. Leads(lcases, T(L + 1), Z(L + 1), G2, c + 1, m)
  <2> HIDE DEF T, Z, lcases
  <2> QED
    BY <1>23, <1>25, <1>26, <1>27, LeadsWeaker
<1>29. Leads(<<ToNext(<<c, 0>>)>>, Z(L + 1), u, G2, c + 1, m)
  <2> DEFINE z == Z(L + 1)
  <2>1. /\ z.k = K /\ z.b = b /\ z.h = 0 /\ z.s = Free /\ z.may = Int
        /\ z.open /\ z.n = N /\ z.waits = WZ(L + 1) /\ z.inner = {}
    BY DEF Entry
  <2>2. WZ(L + 1) = t.waits \cup {<<c, 0>>}
    <3>1. (L + 1)..L = {}
      BY <1>5
    <3> QED
      BY <3>1
  <2>3. EntryOK(z, c + 1)
    BY <1>26
  <2>4. /\ x0.k = K /\ x0.b = b /\ x0.h = 0 /\ x0.s = Free /\ x0.may = Int /\ x0.lands = "next"
    BY DEF Target
  <2> HIDE DEF z, Z, WZ, x0
  <2>5. Goes(z.k, z.b, u.k, z.b, z.may)
    BY <2>1, GoesSelf DEF K
  <2>6. Enter(z, u)
    BY <1>1, <2>1, <2>5, EnterMade
  <2>7. Sub(G2[<<c, 0>>], u)
    <3>1. Sub(x0, u)
      BY <1>1, <2>4, SubMade DEF K
    <3> QED
      BY <1>13, <3>1
  <2>8. <<c, 0>> \in Vars(c + 1) /\ G2[<<c, 0>>].lands = "next"
    BY <1>13, <1>14, <2>4
  <2>9. Leg(ToNext(<<c, 0>>), z, u, G2, c + 1, m)
    <3>1. u.n <= z.n /\ z.waits \subseteq u.waits \cup {<<c, 0>>}
      BY <1>1, <2>1, <2>2
    <3> DEFINE x == <<c, 0>>
    <3>2. x \in Vars(c + 1) /\ G2[x].lands = "next" /\ Sub(G2[x], u)
          /\ z.waits \subseteq u.waits \cup {x}
      BY <2>7, <2>8, <3>1
    <3> HIDE DEF x
    <3>3. Leg(ToNext(x), z, u, G2, c + 1, m)
      BY <1>0, <1>1, <2>1, <2>3, <2>6, <3>1, <3>2, NextLeg
    <3> QED
      BY <3>3 DEF x
  <2>10. Leads(<<ToNext(<<c, 0>>)>>, z, u, G2, c + 1, m)
    BY <2>9, EndOfWay
  <2> QED
    BY <2>10 DEF z
<1> DEFINE A == <<newStatment, n.value>>
           E == <<ToNext(<<c, 0>>)>>
<1>30. IsSeq(A) /\ IsSeq(E)
  BY ShortSeqs
<1>31. /\ Leads(A, t, T(1), G2, c + 1, m)
       /\ Leads(E, Z(L + 1), u, G2, c + 1, m)
       /\ ast2asm(n, c) = A \o ltests \o lcases \o E
  BY <1>12, <1>22, <1>29
<1> HIDE DEF A, E, ltests, lcases, T, Z
<1>32. Leads(A \o ltests, t, T(L + 1), G2, c + 1, m) /\ IsSeq(A \o ltests)
  BY <1>0, <1>23, <1>24, <1>30, <1>31, Compose, Joined
<1>33. Leads(A \o ltests \o lcases, t, Z(L + 1), G2, c + 1, m) /\ IsSeq(A \o ltests \o lcases)
  BY <1>0, <1>23, <1>28, <1>32, Compose, Joined
<1>34. Leads(A \o ltests \o lcases \o E, t, u, G2, c + 1, m)
       /\ IsSeq(A \o ltests \o lcases \o E)
  BY <1>0, <1>30, <1>31, <1>33, Compose, Joined
<1> QED
  BY <1>13, <1>31, <1>34 DEF Compiles

-----------------------------------------------------------------------------
(* The steps of the compiler.                                                *)

\* What the compiler does without a call.
Things == {"statement", "insert", "jump", "start", "back", "next", "here"}

\* Whatever the compiler is called for, the call gives code that leads where
\* it is to.
LEMMA CompilesAll ==
    ASSUME NEW x, NEW t, NEW u, NEW G, NEW c \in Nat, NEW m, EntryOK(t, c), EntryOK(u, c),
           Fits(x, t, u, G, c, m), x.kind \notin Things, ~HasError(x)
    PROVE  Compiles(x, t, u, G, c, m)
<1>1. CASE x.kind = "inside"
  <2> DEFINE e == x.of
  <2>1. InsideFits(e, t, u, m)
    BY <1>1 DEF Fits, Expressions
  <2>2. e.kind \in Expressions
    BY <2>1 DEF InsideFits
  <2>3. Compiles(Inside(e), t, u, G, c, m)
    <3>1. CASE e.kind = "value"
      BY <2>1, <3>1, CompilesValue
    <3>2. CASE e.kind = "operator"
      BY <2>1, <3>2, CompilesOperator
    <3>3. CASE e.kind = "ternary"
      BY <2>1, <3>3, CompilesTernary
    <3> QED
      BY <2>2, <3>1, <3>2, <3>3 DEF Expressions
  <2>4. ast2asm(x, c) = gacExpression(e, c) /\ ast2asm(Inside(e), c) = gacExpression(e, c)
    BY <1>1 DEF ast2asm, Inside, Expressions
  <2> QED
    BY <2>3, <2>4 DEF Compiles
<1>2. CASE x.kind = "tests"
  <2>1. x.var \in Vars(c) /\ TestsFit(x.labels, x.var, t, u, G)
    BY <1>2 DEF Fits, Expressions
  <2> QED
    BY <1>2, <2>1, CompilesTests
<1>3. CASE x.kind = "case"
  <2>1. x.var \in Vars(c) /\ (~x.last => x.end \in Vars(c)) /\ CaseFits(x, t, u, G, m)
    BY <1>3 DEF Fits, Expressions
  <2> QED
    BY <1>3, <2>1, CompilesCase
<1>4. CASE x.kind \notin {"inside", "tests", "case"}
  <2>1. x.kind \in NodeKinds /\ NodeFits(x, t, u, m)
    BY <1>4 DEF Fits, Things, NodeKinds
  <2>2. CASE x.kind \in Expressions
    BY <2>1, <2>2, CompilesExpression
  <2>3. CASE x.kind = "body"
    BY <2>1, <2>3, CompilesBody
  <2>4. CASE x.kind = "if"
    BY <2>1, <2>4, CompilesIf
  <2>5. CASE x.kind = "while"
    BY <2>1, <2>5, CompilesWhile
  <2>6. CASE x.kind = "do"
    BY <2>1, <2>6, CompilesDo
  <2>7. CASE x.kind = "for"
    BY <2>1, <2>7, CompilesFor
  <2>8. CASE x.kind = "switch"
    BY <2>1, <2>8, CompilesSwitch
  <2>9. CASE x.kind = "return"
    BY <2>1, <2>9, CompilesReturn
  <2> QED
    BY <2>1, <2>2, <2>3, <2>4, <2>5, <2>6, <2>7, <2>8, <2>9 DEF NodeKinds
<1> QED
  BY <1>1, <1>2, <1>3, <1>4

\* Where the work ends.
Over(f) == f.k = <<>> /\ f.b = <<>> /\ f.waits = {} /\ f.inner = {}

\* The code so far fits a plan whose first point is q, and the work leads on
\* from its end to the end of the program.
Compiling(q) ==
    /\ calls \in Nat /\ IsSeq(work)
    /\ \E p, G, t, f : /\ Static(code, marks, calls, p, G, q, t, main)
                       /\ Leads(work, t, f, G, calls, main)
                       /\ Over(f)

\* The machine stands before the first statement, at q.
AtStart(q) == pc = <<1, 1>> /\ AtPoint(q, operands, scopes, todo, blocks, value, main)

\* The first thing to do, and what follows it.
Doable(q, p, G, t, u, f) ==
    /\ Static(code, marks, calls, p, G, q, t, main)
    /\ EntryOK(t, calls) /\ EntryOK(u, calls)
    /\ Fits(Head(work), t, u, G, calls, main)
    /\ Leads(Tail(work), u, f, G, calls, main)
    /\ Over(f)

\* What is to do begins with a thing that fits where the compiler has come
\* to.
LEMMA FirstIsDoable ==
    ASSUME NEW q, Compiling(q), work # <<>>
    PROVE  IsSeq(Tail(work)) /\ \E p, G, t, u, f : Doable(q, p, G, t, u, f)
<1>1. PICK p, G, t, f : /\ Static(code, marks, calls, p, G, q, t, main)
                        /\ Leads(work, t, f, G, calls, main)
                        /\ Over(f)
  BY DEF Compiling
<1>2. IsSeq(work) /\ calls \in Nat
  BY DEF Compiling
<1>3. PICK u, w : /\ EntryOK(u, calls) /\ EntryOK(w, calls) /\ Weaker(t, u)
                  /\ Fits(Head(work), u, w, G, calls, main)
                  /\ Leads(Tail(work), w, f, G, calls, main) /\ IsSeq(Tail(work))
  BY <1>1, <1>2, Uncons
<1>4. PICK p2 : Static(code, marks, calls, p2, G, q, u, main)
  BY <1>1, <1>3, Weaken
<1>5. Doable(q, p2, G, u, w, f)
  BY <1>1, <1>3, <1>4 DEF Doable
<1> QED
  BY <1>3, <1>5

\* A thing done.
LEMMA OneDone ==
    ASSUME NEW q, Compiling(q), IsSeq(Tail(work)), Done, UNCHANGED <<calls, main>>,
           NEW p, NEW G, NEW t, NEW u, NEW f, Doable(q, p, G, t, u, f),
           \E p2 : Static(code', marks', calls, p2, G, q, u, main)
    PROVE  Compiling(q)'
<1>1. work' = Tail(work) /\ calls' = calls /\ main' = main
  BY DEF Done
<1>2. Leads(Tail(work), u, f, G, calls, main) /\ Over(f)
  BY DEF Doable
<1>3. \E p2 : Static(code', marks', calls', p2, G, q, u, main')
  BY <1>1
<1>4. calls' \in Nat /\ IsSeq(work')
  BY <1>1 DEF Compiling
<1>5. Leads(work', u, f, G, calls', main')
  BY <1>1, <1>2
<1> QED
  BY <1>2, <1>3, <1>4, <1>5 DEF Compiling

\* Which condition a thing fits by.
LEMMA ThingFits ==
    ASSUME NEW x, NEW t, NEW u, NEW G, NEW c, NEW m, Fits(x, t, u, G, c, m)
    PROVE  /\ x.kind = "statement" => BeginFits(t, u)
           /\ x.kind = "insert" => InsertFits(x.ins, t, u, m)
           /\ x.kind = "jump" => WaitFits(x.op, x.var, t, u, G)
           /\ x.kind = "start" => StartFits(x.var, t, u, G)
           /\ x.kind = "back" => BackFits(x.op, x.var, t, u, G)
           /\ x.kind = "next" => NextFits(x.var, t, u, G)
           /\ x.kind = "here" => HereFits(x.var, t, u, G)
BY DEF Fits, Expressions

\* A call replaces a node by what it compiles to.
LEMMA CallStep ==
    ASSUME NEW q, Compiling(q), Call
    PROVE  Compiling(q)'
<1>1. /\ work # <<>> /\ Head(work).kind \notin Things /\ ~HasError(Head(work))
      /\ work' = ast2asm(Head(work), calls) \o Tail(work) /\ calls' = calls + 1
      /\ code' = code /\ marks' = marks /\ main' = main
  BY DEF Call, First, Things
<1>2. IsSeq(Tail(work)) /\ calls \in Nat
  BY <1>1, FirstIsDoable DEF Compiling
<1>3. PICK p, G, t, u, f : Doable(q, p, G, t, u, f)
  BY <1>1, FirstIsDoable
<1>4. Compiles(Head(work), t, u, G, calls, main)
  BY <1>1, <1>2, <1>3, CompilesAll DEF Doable
<1> DEFINE A == ast2asm(Head(work), calls)
           B == Tail(work)
<1> HIDE DEF A, B
<1>5. PICK G2 : Extends(G, G2, calls) /\ IsSeq(A) /\ Leads(A, t, u, G2, calls + 1, main)
  BY <1>4 DEF Compiles, A
<1>6. Leads(B, u, f, G2, calls + 1, main)
  BY <1>2, <1>3, <1>5, LeadsGrows DEF Doable, B
<1>7. Static(code, marks, calls + 1, p, G2, q, t, main)
  BY <1>2, <1>3, <1>5, StaticGrows DEF Doable
<1>8. EntryOK(t, calls + 1)
  BY <1>2, <1>3, EntryGrows DEF Doable
<1>9. Leads(A \o B, t, f, G2, calls + 1, main) /\ IsSeq(A \o B)
  BY <1>2, <1>5, <1>6, <1>8, Compose, Joined DEF B
<1>10. work' = A \o B
  BY <1>1 DEF A, B
<1>11. Static(code', marks', calls', p, G2, q, t, main') /\ Leads(work', t, f, G2, calls', main')
  BY <1>1, <1>7, <1>9, <1>10
<1>12. calls' \in Nat /\ IsSeq(work') /\ Over(f)
  <2>1. calls' = calls + 1 /\ calls \in Nat
    BY <1>1, <1>2
  <2>2. IsSeq(work')
    BY <1>9, <1>10
  <2>3. Over(f)
    BY <1>3 DEF Doable
  <2> QED
    BY <2>1, <2>2, <2>3
<1> QED
  BY <1>11, <1>12 DEF Compiling

\* A new statement keeps the code fitting.
LEMMA NewStatementStep ==
    ASSUME NEW q, Compiling(q), NewStatement
    PROVE  Compiling(q)'
<1>1. /\ work # <<>> /\ Head(work).kind = "statement"
      /\ code' = Append(code, <<>>) /\ marks' = marks /\ Done /\ UNCHANGED <<calls, main>>
  BY DEF NewStatement, Doing, First, Unchanged
<1>2. IsSeq(Tail(work))
  BY <1>1, FirstIsDoable
<1>3. PICK p, G, t, u, f : Doable(q, p, G, t, u, f)
  BY <1>1, FirstIsDoable
<1>4. BeginFits(t, u)
  BY <1>1, <1>3, ThingFits DEF Doable
<1>5. \E p2 : Static(code', marks', calls, p2, G, q, u, main)
  BY <1>1, <1>3, <1>4, StaticStatement DEF Doable
<1> QED
  BY <1>1, <1>2, <1>3, <1>5, OneDone

\* So does an instruction.
LEMMA InsertStep ==
    ASSUME NEW q, Compiling(q), InsertInstruction
    PROVE  Compiling(q)'
<1>1. /\ work # <<>> /\ Head(work).kind = "insert"
      /\ code' = Added(code, Head(work).ins)
      /\ marks' = marks /\ Done /\ UNCHANGED <<calls, main>>
  BY DEF InsertInstruction, Add, Added, Doing, First, Unchanged
<1>2. IsSeq(Tail(work))
  BY <1>1, FirstIsDoable
<1>3. PICK p, G, t, u, f : Doable(q, p, G, t, u, f)
  BY <1>1, FirstIsDoable
<1>4. InsertFits(Head(work).ins, t, u, main)
  BY <1>1, <1>3, ThingFits DEF Doable
<1>5. \E p2 : Static(code', marks', calls, p2, G, q, u, main)
  BY <1>1, <1>3, <1>4, StaticInsert DEF Doable
<1> QED
  BY <1>1, <1>2, <1>3, <1>5, OneDone

\* So does a jump whose target is open.
LEMMA InsertJumpStep ==
    ASSUME NEW q, Compiling(q), InsertJump
    PROVE  Compiling(q)'
<1> DEFINE x == Head(work)
<1>1. /\ work # <<>> /\ x.kind = "jump"
      /\ code' = Added(code, JumpIns(x.op))
      /\ marks' = marks \cup {[var |-> x.var, at |-> <<Len(code), Len(code[Len(code)]) + 1>>]}
      /\ Done /\ UNCHANGED <<calls, main>>
  BY DEF InsertJump, Add, Added, Doing, First, Unchanged
<1>2. IsSeq(Tail(work))
  BY <1>1, FirstIsDoable
<1>3. PICK p, G, t, u, f : Doable(q, p, G, t, u, f)
  BY <1>1, FirstIsDoable
<1>4. WaitFits(x.op, x.var, t, u, G)
  BY <1>1, <1>3, ThingFits DEF Doable
<1>5. \E p2 : Static(code', marks', calls, p2, G, q, u, main)
  BY <1>1, <1>3, <1>4, StaticJump DEF Doable
<1> QED
  BY <1>1, <1>2, <1>3, <1>5, OneDone

\* So does the start of a loop.
LEMMA StartLoopStep ==
    ASSUME NEW q, Compiling(q), StartLoop
    PROVE  Compiling(q)'
<1> DEFINE x == Head(work)
<1>1. /\ work # <<>> /\ x.kind = "start" /\ code' = code
      /\ marks' = marks \cup {[var |-> x.var, at |-> <<Len(code) + 1, 0>>]}
      /\ Done /\ UNCHANGED <<calls, main>>
  BY DEF StartLoop, Doing, First, Unchanged
<1>2. IsSeq(Tail(work))
  BY <1>1, FirstIsDoable
<1>3. PICK p, G, t, u, f : Doable(q, p, G, t, u, f)
  BY <1>1, FirstIsDoable
<1>4. StartFits(x.var, t, u, G)
  BY <1>1, <1>3, ThingFits DEF Doable
<1>5. \E p2 : Static(code', marks', calls, p2, G, q, u, main)
  BY <1>1, <1>3, <1>4, StaticStart DEF Doable
<1> QED
  BY <1>1, <1>2, <1>3, <1>5, OneDone

\* So does a jump back to it.
LEMMA JumpBackStep ==
    ASSUME NEW q, Compiling(q), JumpBack
    PROVE  Compiling(q)'
<1> DEFINE x == Head(work)
<1>1. /\ work # <<>> /\ x.kind = "back"
      /\ \E k \in marks :
            /\ k.var = x.var
            /\ code' = Added(code, [JumpIns(x.op) EXCEPT !.op2 = k.at[1]])
            /\ marks' = marks \ {k}
      /\ Done /\ UNCHANGED <<calls, main>>
  BY DEF JumpBack, Add, Added, Doing, First, Unchanged
<1>2. IsSeq(Tail(work))
  BY <1>1, FirstIsDoable
<1>3. PICK p, G, t, u, f : Doable(q, p, G, t, u, f)
  BY <1>1, FirstIsDoable
<1>4. BackFits(x.op, x.var, t, u, G)
  BY <1>1, <1>3, ThingFits DEF Doable
<1>5. \E p2 : Static(code', marks', calls, p2, G, q, u, main)
  <2>1. PICK k \in marks :
            /\ k.var = x.var
            /\ code' = Added(code, [JumpIns(x.op) EXCEPT !.op2 = k.at[1]])
            /\ marks' = marks \ {k}
    BY <1>1
  <2>2. Static(code, marks, calls, p, G, q, t, main) /\ EntryOK(u, calls)
    BY <1>3 DEF Doable
  <2> HIDE DEF x
  <2>3. \E p2 : Static(Added(code, [JumpIns(x.op) EXCEPT !.op2 = k.at[1]]), marks \ {k},
                       calls, p2, G, q, u, main)
    BY <1>4, <2>1, <2>2, StaticBack
  <2> QED
    BY <2>1, <2>3
<1> QED
  BY <1>1, <1>2, <1>3, <1>5, OneDone

\* So do jumps that get their target.
LEMMA LeadStep ==
    ASSUME NEW q, Compiling(q), LeadToNext \/ LeadHere
    PROVE  Compiling(q)'
<1> DEFINE x == Head(work)
<1>1. /\ work # <<>> /\ x.kind \in {"next", "here"}
      /\ marks' = Freed(marks, x.var)
      /\ x.kind = "next" => code' = Led(code, marks, x.var, Undefined, Len(code) + 1)
      /\ x.kind = "here" => code' = Led(code, marks, x.var, Len(code[Len(code)]), Len(code))
      /\ Done /\ UNCHANGED <<calls, main>>
  BY DEF LeadToNext, LeadHere, Lead, Led, Freed, Doing, First, Unchanged
<1>2. IsSeq(Tail(work))
  BY <1>1, FirstIsDoable
<1>3. PICK p, G, t, u, f : Doable(q, p, G, t, u, f)
  BY <1>1, FirstIsDoable
<1>4. \E p2 : Static(code', marks', calls, p2, G, q, u, main)
  <2>1. CASE x.kind = "next"
    <3>1. NextFits(x.var, t, u, G)
      BY <1>3, <2>1, ThingFits DEF Doable
    <3>2. Static(code, marks, calls, p, G, q, t, main) /\ EntryOK(u, calls)
      BY <1>3 DEF Doable
    <3> HIDE DEF x
    <3>3. code' = Led(code, marks, x.var, Undefined, Len(code) + 1)
      BY <1>1, <2>1
    <3> QED
      BY <1>1, <3>1, <3>2, <3>3, StaticNext
  <2>2. CASE x.kind = "here"
    <3>1. HereFits(x.var, t, u, G)
      BY <1>3, <2>2, ThingFits DEF Doable
    <3>2. Static(code, marks, calls, p, G, q, t, main) /\ EntryOK(u, calls)
      BY <1>3 DEF Doable
    <3> HIDE DEF x
    <3>3. code' = Led(code, marks, x.var, Len(code[Len(code)]), Len(code))
      BY <1>1, <2>2
    <3> QED
      BY <1>1, <3>1, <3>2, <3>3, StaticHere
  <2> QED
    BY <1>1, <2>1, <2>2
<1> QED
  BY <1>1, <1>2, <1>3, <1>4, OneDone

\* With nothing left to compile, the code is that of the whole program.
LEMMA Compiled ==
    ASSUME NEW q, Compiling(q), AtStart(q), work = <<>>
    PROVE  \E p : RunsBy(p)
<1>1. PICK p, G, t, f : /\ Static(code, marks, calls, p, G, q, t, main)
                        /\ Leads(<<>>, t, f, G, calls, main)
                        /\ Over(f)
  BY DEF Compiling
<1>2. Weaker(t, f) /\ EntryOK(f, calls)
  <2>1. Len(<<>>) = 0
    OBVIOUS
  <2> QED
    BY <1>1, <2>1 DEF Leads
<1>3. PICK p2 : Static(code, marks, calls, p2, G, q, f, main)
  BY <1>1, <1>2, Weaken
<1>4. PICK p3 : Program(code, p3, main) /\ Sub(q, p3[<<1, 1>>])
  BY <1>1, <1>3, StaticProgram DEF Over
<1>5. AtPoint(p3[<<1, 1>>], operands, scopes, todo, blocks, value, main)
  <2>1. /\ value \in q.may /\ Same(<<todo, blocks>>, <<q.k, q.b>>, value)
        /\ IsSeq(operands) /\ Len(operands) = q.h /\ Shaped(operands, q.s, value)
        /\ IsSeq(q.b) /\ scopes = Scopes0(main) \o q.b
    BY DEF AtStart, AtPoint
  <2>2. Hit(q, value, q.b, q.h, q.s, p3[<<1, 1>>])
    BY <1>4, <2>1 DEF Sub
  <2> QED
    BY <2>1, <2>2, Lands
<1>6. Place(code, <<1, 1>>)
  <2>1. Len(code) \in Nat /\ \A s \in 1..Len(code) : Len(code[s]) \in Nat
    BY <1>4, ListFacts DEF Program
  <2>2. CASE Len(code) = 0
    BY <2>2 DEF Place
  <2>3. CASE Len(code) # 0
    <3>1. 1 \in 1..Len(code)
      BY <2>1, <2>3
    <3>2. 1 \in 1..(Len(code[1]) + 1)
      BY <2>1, <3>1
    <3> QED
      BY <3>1, <3>2 DEF Place
  <2> QED
    BY <2>2, <2>3
<1>7. RunsBy(p3)
  BY <1>4, <1>5, <1>6 DEF RunsBy, AtStart
<1> QED
  BY <1>7

-----------------------------------------------------------------------------
(* The invariant, and what follows from it.                                  *)

\* The code the compiler makes fits, and so does the machine that runs it.
CompilingFits == \E q : Compiling(q) /\ AtStart(q)
MachineFits     == \E p : RunsBy(p)

\* What every state satisfies.
Inv ==
    /\ status \in {"ready", "running", "ended", "refused"}
    /\ beat \in {0, 1} /\ main \in BOOLEAN
    /\ status = "ready" => CompilingFits
    /\ status = "running" => MachineFits
    /\ status = "ended" => scopes = <<>>

\* Any of the programs, before its compilation, is work that leads to its
\* end.
LEMMA InitIsCompiling ==
    ASSUME Init
    PROVE  CompilingFits
<1> DEFINE t == Entry(work, <<>>, 0, Free, Int, FALSE, 0, {}, {})
           p == [y \in Nat \X Nat |-> t]
           G == <<>>
           S == IF main THEN QuietNodes \cup {n \in Nodes : n.kind = "return"} ELSE Nodes
<1>1. /\ main \in BOOLEAN /\ todo = work /\ scopes = Scopes0(main)
      /\ work \in Seq(S)
      /\ code = <<>> /\ marks = {} /\ calls = 0 /\ pc = <<1, 1>> /\ operands = <<>>
      /\ value = 0 /\ blocks = <<>>
  <2>1. PICK x \in ({TRUE} \X MainPrograms) \cup ({FALSE} \X FunctionPrograms) :
            main = x[1] /\ work = x[2] /\ todo = x[2] /\ scopes = Scopes0(x[1])
    BY DEF Init
  <2>2. CASE x[1] = TRUE
    BY <2>1, <2>2, ProgramsAssumption DEF Init
  <2>3. CASE x[1] = FALSE
    BY <2>1, <2>3, ProgramsAssumption DEF Init
  <2> QED
    BY <2>1, <2>2, <2>3
<1>2. IsSeq(work)
  BY <1>1, SeqIs
<1>3. AllGood(S, <<>>, main)
  <2> SUFFICES ASSUME NEW n \in S PROVE Good(n, <<>>, main)
    BY DEF AllGood
  <2>1. QuietNodes \subseteq Nodes
    BY NodesAre
  <2> QED
    BY <1>1, <2>1 DEF Good
<1> HIDE DEF S
<1>4. EntryOK(t, 0)
  BY <1>2, ShortSeqs DEF EntryOK, Entry
<1>5. /\ t.k = work /\ t.b = <<>> /\ t.h = 0 /\ t.s = Free /\ t.may = Int /\ ~t.open
      /\ t.n = 0 /\ t.waits = {} /\ t.inner = {}
  BY DEF Entry
<1> HIDE DEF t
<1>6. Static(<<>>, {}, 0, p, G, t, t, main)
  <2>1. Len(<<>>) = 0 /\ Lists(<<>>)
    BY ShortSeqs DEF Lists
  <2>2. LastTo(<<>>, t) = 1 /\ Spot(<<>>, t) = <<1, 1>>
    BY <1>5, <2>1 DEF LastTo, Spot
  <2>3. p[<<1, 1>>] = t
    OBVIOUS
  <2>4. CodeFits(<<>>, {}, p, G, LastTo(<<>>, t), main) /\ Ends(<<>>, p, LastTo(<<>>, t))
    BY <2>1 DEF CodeFits, Ends
  <2>5. MarksFit({}, <<>>, p, G, t)
    BY DEF MarksFit
  <2>6. Sub(t, p[<<1, 1>>])
    BY <2>3, SubSelf
  <2> HIDE DEF p, G
  <2> QED
    BY <1>4, <1>5, <2>1, <2>2, <2>3, <2>4, <2>5, <2>6 DEF Static
<1>7. PICK u : /\ Leads(work, t, u, G, 0, main) /\ EntryOK(u, 0)
               /\ Goes(u.k, <<>>, <<>>, <<>>, u.may) /\ u.b = <<>>
               /\ u.waits = {} /\ u.inner = {}
  <2>1. IsSeq(<<>>)
    BY ShortSeqs
  <2>2. Goes(t.k, t.b, work \o <<>>, t.b, t.may)
    BY <1>2, <1>5, Empty, GoesSelf
  <2>3. LeadsOn(work, t, <<>>, G, 0, main)
    BY <1>1, <1>3, <1>4, <1>5, <2>1, <2>2, Statements
  <2> QED
    BY <1>5, <2>3 DEF LeadsOn
<1> DEFINE f == Entry(<<>>, <<>>, u.h, u.s, u.may, u.open, u.n, {}, {})
<1>8. EntryOK(f, 0) /\ Over(f) /\ Weaker(u, f)
  <2>1. /\ f.k = <<>> /\ f.b = <<>> /\ f.h = u.h /\ f.s = u.s /\ f.may = u.may
        /\ f.open = u.open /\ f.n = u.n /\ f.waits = {} /\ f.inner = {}
    BY DEF Entry
  <2> HIDE DEF f
  <2>2. EntryOK(f, 0)
    BY <1>7, <2>1, ShortSeqs DEF EntryOK
  <2>3. Sub(u, f)
    BY <1>7, <2>1 DEF Sub, Hit, Goes
  <2>4. u.n <= u.n
    BY <1>7 DEF EntryOK
  <2> QED
    BY <1>7, <2>1, <2>2, <2>3, <2>4 DEF Over, Weaker, Keeps
<1> HIDE DEF f, G, p
<1>9. Leads(<<>>, u, f, G, 0, main)
  BY <1>8, Nothing
<1>10. Leads(work \o <<>>, t, f, G, 0, main)
  BY <1>2, <1>4, <1>7, <1>9, ShortSeqs, Compose
<1>11. Leads(work, t, f, G, 0, main)
  BY <1>2, <1>10, Empty
<1>12. Compiling(t)
  <2>1. Static(code, marks, calls, p, G, t, t, main) /\ Leads(work, t, f, G, calls, main)
    BY <1>1, <1>6, <1>11
  <2> QED
    BY <1>1, <1>2, <1>8, <2>1 DEF Compiling
<1>13. AtStart(t)
  <2>1. Same(<<todo, blocks>>, <<t.k, t.b>>, value)
    BY <1>1, <1>5, SameIsEquivalence
  <2>2. IsSeq(operands) /\ Len(operands) = 0 /\ Shaped(operands, t.s, value)
    BY <1>1, <1>5, ShortSeqs DEF Shaped, Free
  <2>3. scopes = Scopes0(main) \o <<>>
    <3>1. IsSeq(Scopes0(main))
      BY ShortSeqs DEF Scopes0
    <3> QED
      BY <1>1, <3>1, Empty
  <2> QED
    BY <1>1, <1>5, <2>1, <2>2, <2>3, ShortSeqs DEF AtStart, AtPoint
<1> QED
  BY <1>12, <1>13 DEF CompilingFits

\* The invariant holds initially.
LEMMA InitInv == Init => Inv
<1> SUFFICES ASSUME Init PROVE Inv
  OBVIOUS
<1>1. status = "ready" /\ beat = 0 /\ main \in BOOLEAN
  BY DEF Init
<1> QED
  BY <1>1, InitIsCompiling DEF Inv

\* Only a running machine executes.
LEMMA ExecuteRuns == Execute => status = "running"
BY DEF Execute, Unfold, Meaning!Unfold, NextStatement, Part, Load, Operator, LoadCase,
       EqualCase, JumpAlways, JumpIf, OpenScope, CloseScope, ExitFunction, At, Running

\* A step of the compiler but the last.
LEMMA CompilerStep ==
    ASSUME CompilingFits,
           \/ Call \/ NewStatement \/ InsertInstruction \/ InsertJump
           \/ StartLoop \/ JumpBack \/ LeadToNext \/ LeadHere
    PROVE  /\ status = "ready" /\ UNCHANGED <<programVars, main>>
           /\ CompilingFits'
<1>1. PICK q : Compiling(q) /\ AtStart(q)
  BY DEF CompilingFits
<1>2. status = "ready" /\ UNCHANGED machineVars /\ UNCHANGED programVars /\ UNCHANGED main
  BY DEF Call, NewStatement, InsertInstruction, InsertJump, StartLoop, JumpBack,
         LeadToNext, LeadHere, Doing, Unchanged
<1>3. Compiling(q)'
  BY <1>1, CallStep, NewStatementStep, InsertStep, InsertJumpStep, StartLoopStep,
     JumpBackStep, LeadStep
<1>4. AtStart(q)'
  BY <1>1, <1>2 DEF AtStart, machineVars, programVars
<1> QED
  BY <1>2, <1>3, <1>4 DEF CompilingFits

\* When the code is complete, the run begins where the program's meaning
\* begins.
LEMMA BeginStep ==
    ASSUME CompilingFits, Begin
    PROVE  Meaning!Begin /\ MachineFits' /\ UNCHANGED <<main, beat>>
<1>1. PICK q : Compiling(q) /\ AtStart(q)
  BY DEF CompilingFits
<1>2. /\ work = <<>> /\ Meaning!Begin
      /\ UNCHANGED <<code, main, pc, operands, scopes, todo, value, blocks, beat>>
  BY DEF Begin, Meaning!Begin, compilerVars, machineVars
<1>3. PICK p : RunsBy(p)
  BY <1>1, <1>2, Compiled
<1>4. RunsBy(p)'
  BY <1>2, <1>3 DEF RunsBy
<1> QED
  BY <1>2, <1>4 DEF MachineFits

\* What a step is for the program's meaning, and for the invariant.
LEMMA StepInv ==
    ASSUME Inv, StatementsAreShort, [Next]_vars
    PROVE  Inv' /\ [Meaning!Next]_programVars
<1>1. CASE Call \/ NewStatement \/ InsertInstruction \/ InsertJump
            \/ StartLoop \/ JumpBack \/ LeadToNext \/ LeadHere
  <2>1. status = "ready"
    BY <1>1 DEF Call, NewStatement, InsertInstruction, InsertJump, StartLoop, JumpBack,
                LeadToNext, LeadHere, Doing
  <2>2. UNCHANGED <<programVars, main>> /\ CompilingFits'
    BY <1>1, <2>1, CompilerStep DEF Inv
  <2> QED
    BY <2>1, <2>2 DEF Inv, programVars
<1>2. CASE Fail
  <2>1. /\ status = "ready" /\ status' = "refused"
        /\ UNCHANGED <<main, scopes, todo, value, blocks, beat>>
    BY <1>2 DEF Fail, machineVars
  <2>2. Meaning!Next
    BY <2>1 DEF Meaning!Next, Meaning!Refuse
  <2> QED
    BY <2>1, <2>2 DEF Inv
<1>3. CASE Begin
  <2>1. status = "ready" /\ status' = "running"
    BY <1>3 DEF Begin, Meaning!Begin
  <2>2. Meaning!Begin /\ MachineFits' /\ UNCHANGED <<main, beat>>
    BY <1>3, <2>1, BeginStep DEF Inv
  <2> QED
    BY <2>1, <2>2 DEF Inv, Meaning!Next
<1>4. CASE Execute
  <2>1. status = "running"
    BY <1>4, ExecuteRuns
  <2>2. PICK p : RunsBy(p)
    BY <2>1 DEF Inv, MachineFits
  <2>3. /\ Meaning!Next \/ UNCHANGED programVars
        /\ \/ status' = "running" /\ RunsBy(p)'
           \/ status' = "ended" /\ scopes' = <<>>
    BY <1>4, <2>2, MachineStep
  <2>4. main' = main
    BY <1>4 DEF Execute, Unfold, NextStatement, Part, Load, Operator, LoadCase,
       EqualCase, JumpAlways, JumpIf, OpenScope, CloseScope, ExitFunction
  <2>5. beat' \in {0, 1}
    <3>1. beat' = beat \/ beat' = 1 - beat
      BY <2>3 DEF programVars, Meaning!Next, Meaning!Begin, Meaning!Refuse, Meaning!Unfold,
                  Meaning!Evaluate, Meaning!End
    <3> QED
      BY <3>1 DEF Inv
  <2>6. status' = "running" => MachineFits'
    BY <2>3 DEF MachineFits
  <2> QED
    BY <2>3, <2>4, <2>5, <2>6 DEF Inv
<1>5. CASE UNCHANGED vars
  <2>1. /\ UNCHANGED <<code, work, marks, calls, main, pc, operands, scopes>>
        /\ UNCHANGED <<todo, value, blocks, beat, status>>
    BY <1>5 DEF vars, compilerVars, machineVars, programVars
  <2>2. CompilingFits => CompilingFits'
    BY <2>1 DEF CompilingFits, Compiling, AtStart
  <2>3. MachineFits => MachineFits'
    BY <2>1 DEF MachineFits, RunsBy
  <2> QED
    BY <2>1, <2>2, <2>3 DEF Inv, programVars
<1> QED
  BY <1>1, <1>2, <1>3, <1>4, <1>5 DEF Next, Compile

\* The code that the compiler makes of any program fits a plan, all the time it
\* makes it, and the machine runs by such a plan until it ends.
THEOREM InvHolds == Spec /\ []StatementsAreShort => []Inv
<1>1. Inv /\ StatementsAreShort /\ [Next]_vars => Inv'
  BY StepInv
<1> QED
  BY <1>1, InitInv, PTL DEF Spec

\* Every jump of execute_internal lands within the function, and within its own
\* statement if it is to stay there, and no instruction pops an operand that is
\* not there: for every program, of any size and depth.
THEOREM TypeCorrect == Spec /\ []StatementsAreShort => []TypeOK
<1>1. Inv => TypeOK
  <2> SUFFICES ASSUME Inv PROVE TypeOK
    OBVIOUS
  <2>1. ASSUME Running
        PROVE  /\ pc[1] \in 1..(Len(code) + 1)
               /\ AtNull \/ pc[2] \in 1..(Len(code[pc[1]]) + 1)
    <3>1. PICK p : RunsBy(p)
      BY <2>1 DEF Inv, MachineFits, Running
    <3>2. Place(code, pc) /\ Len(code) \in Nat
      BY <3>1, ListFacts DEF RunsBy, Program
    <3>3. CASE pc = <<Len(code) + 1, 1>>
      BY <3>2, <3>3 DEF AtNull
    <3>4. CASE \E s \in 1..Len(code) : \E i \in 1..(Len(code[s]) + 1) : pc = <<s, i>>
      BY <3>2, <3>4
    <3> QED
      BY <3>2, <3>3, <3>4 DEF Place
  <2>2. ASSUME At({"APPLY", "EQU", "JT", "JNT", "RET"})
        PROVE  /\ Instruction.op \in {"APPLY", "EQU"} => Len(operands) >= 2
               /\ Instruction.op \in {"JT", "JNT", "RET"} => operands # <<>>
    <3>1. status = "running" /\ ~AtNull /\ ~AtEnd
      BY <2>2 DEF At, Running
    <3>2. PICK p : RunsBy(p)
      BY <3>1 DEF Inv, MachineFits
    <3>3. Len(operands) = p[pc].h /\ p[pc].h \in Nat
      BY <3>2, PointNow
    <3>4. Instruction.op \in {"APPLY", "EQU"} => p[pc].h >= 2
      BY <3>1, <3>2, OpsOf DEF PlainOps, PlainHit
    <3>5. Instruction.op = "RET" => p[pc].h >= 1
      BY <3>1, <3>2, OpsOf DEF PlainOps, PlainHit
    <3>6. Instruction.op \in {"JT", "JNT"} => p[pc].h >= 1
      BY <3>1, <3>2, OpsOf DEF JumpOps, JumpHit
    <3>7. operands = <<>> => Len(operands) = 0
      OBVIOUS
    <3> QED
      BY <3>3, <3>4, <3>5, <3>6, <3>7
  <2>3. At({"APPLY", "EQU"}) => Len(operands) >= 2
    BY <2>2 DEF At
  <2>4. At({"JT", "JNT", "RET"}) => operands # <<>>
    BY <2>2 DEF At
  <2> QED
    BY <2>1, <2>3, <2>4 DEF TypeOK, Inv
<1> QED
  BY <1>1, InvHolds, PTL

\* Compiler and virtual machine together implement the structured program: the
\* evaluations of a run are those of the program, in their order, whatever
\* values they yield, and the run ends when the program does.
THEOREM ProgramIsFollowed == Spec /\ []StatementsAreShort => FollowsProgram
<1>1. Inv /\ StatementsAreShort /\ [Next]_vars => [Meaning!Next]_programVars
  BY StepInv
<1>2. [Meaning!Next]_programVars <=> [Meaning!Next]_(Meaning!vars)
  BY DEF programVars, Meaning!vars
<1> QED
  BY <1>1, <1>2, InvHolds, PTL DEF Spec, FollowsProgram, Meaning!Run

\* At every evaluation scope_info has the blocks around it and no other, by
\* whatever jumps the machine came there, and a run leaves no scope behind.
THEOREM ScopesAreFollowed == Spec /\ []StatementsAreShort => []ScopesFollowBlocks
<1>1. Inv => ScopesFollowBlocks
  <2> SUFFICES ASSUME Inv PROVE ScopesFollowBlocks
    OBVIOUS
  <2>1. ASSUME At({"LOAD", "APPLY"}) PROVE scopes = Scopes0(main) \o blocks
    <3>1. Running /\ status = "running" /\ ~AtNull /\ ~AtEnd /\ Instruction.op \in {"LOAD", "APPLY"}
      BY <2>1 DEF At, Running
    <3>2. PICK p : RunsBy(p)
      BY <3>1 DEF Inv, MachineFits
    <3>3. scopes = Scopes0(main) \o p[pc].b
      BY <3>2, PointNow
    <3>4. \E h, u : Yields(Instruction, p[pc], value, h, u)
      BY <3>1, <3>2, OpsOf DEF PlainOps, PlainHit
    <3>5. blocks = p[pc].b
      BY <3>1, <3>2, <3>4, Agrees
    <3> QED
      BY <3>3, <3>5
  <2> QED
    BY <2>1 DEF ScopesFollowBlocks, Inv
<1> QED
  BY <1>1, InvHolds, PTL
=============================================================================
