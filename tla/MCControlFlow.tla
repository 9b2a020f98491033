--------------------------- MODULE MCControlFlow ---------------------------
(* ControlFlow on programs of one control structure within another, with    *)
(* bodies that are empty, work or return, alone or before more work.        *)
EXTENDS ControlFlow

Value(k, yields) == [kind |-> "value", id |-> k, yields |-> yields, size |-> 1]
Work(k)  == Value(k, {0})
Cond(k)  == Value(k, {0, 1})
Long(k, size) == [Work(k) EXCEPT !.size = size]
Return(k) == [kind |-> "return", value |-> Work(k)]

Body(k, stmts) == [kind |-> "body", scope |-> k, stmts |-> stmts]
If(k, body, else) ==
    [kind |-> "if", branches |-> <<[cond |-> Cond(k), body |-> body]>>, else |-> else]
ElseIf(k, body, second, else) ==
    [kind |-> "if", else |-> else,
     branches |-> <<[cond |-> Cond(k), body |-> body], [cond |-> Cond(k+1), body |-> second]>>]
While(k, body) == [kind |-> "while", cond |-> Cond(k), body |-> body]
Do(k, body)    == [kind |-> "do", cond |-> Cond(k), body |-> body]
For(k, body)   == [kind |-> "for", scope |-> k, init |-> Work(k+1), cond |-> Cond(k+2),
                   post |-> Work(k+3), body |-> body]
Switch(k, yields, groups) == [kind |-> "switch", value |-> Value(k, yields), groups |-> groups]
Group(labels, body) == [labels |-> labels, body |-> body]

Ternary(cond, then, else) ==
    [kind |-> "ternary", cond |-> cond, then |-> then, else |-> else]
Operation(k, yields, left, right) ==
    [kind |-> "operator", id |-> k, yields |-> yields, left |-> left, right |-> right]

\* Switches with a default at either end, alone or with a label, and switches
\* without one whose value always has a label.
Switches(k, a, b, c) ==
    { Switch(k, {1, 2, 3}, <<Group(<<1>>, a), Group(<<2>>, b), Group(<<Default>>, c)>>),
      Switch(k, {1, 2, 3}, <<Group(<<Default>>, a), Group(<<1, 2>>, b)>>),
      Switch(k, {1, 2, 3}, <<Group(<<Default, 1>>, a), Group(<<2>>, b), Group(<<3>>, c)>>),
      Switch(k, {1, 2}, <<Group(<<1>>, a), Group(<<2>>, b)>>) }

\* Expressions with a choice inside: as an operand, as a condition, in one
\* another, and with operands that reach towards the 8 bits of a jump.
Choices(k) ==
    { Ternary(Cond(k), Work(k+1), Work(k+2)),
      Operation(k, {0}, Work(k+1), Ternary(Cond(k+2), Work(k+3), Work(k+4))),
      Operation(k, {0}, Ternary(Cond(k+1), Work(k+2), Ternary(Cond(k+3), Work(k+4), Work(k+5))),
                        Work(k+6)),
      Ternary(Ternary(Cond(k), Cond(k+1), Cond(k+2)), Work(k+3), Work(k+4)),
      Ternary(Cond(k), Long(k+1, 120), Long(k+2, 120)) }

\* Every structure with the body b; the other bodies work.
Around(k, b) ==
    LET a == Body(k+8, <<Work(k+9)>>)
        c == Body(k+10, <<Work(k+11)>>)
    IN  { If(k, b, <<>>), If(k, b, <<a>>), If(k, a, <<b>>), ElseIf(k, b, a, <<>>),
          ElseIf(k, a, b, <<c>>), While(k, b), Do(k, b), For(k, b), b,
          [If(k, b, <<a>>) EXCEPT !.branches[1].cond =
              Ternary(Cond(k), Cond(k+2), Cond(k+3))] }
        \cup Switches(k, a, b, c) \cup Switches(k, b, a, c)

Bodies(k)       == {Body(k, <<>>), Body(k, <<Work(k+1)>>), Body(k, <<Return(k+1)>>)}
QuietBodies(k)  == {Body(k, <<>>), Body(k, <<Work(k+1)>>)}

Programs(bodies) ==
    LET simple == UNION {Around(20, b) : b \in bodies} \cup Choices(20)
        alone  == UNION {Around(40, Body(60, <<s>>)) : s \in simple}
        before == UNION {Around(40, Body(60, <<s, Work(61)>>)) : s \in simple}
    IN  {<<s>> : s \in simple \cup before} \cup {<<s, Work(90)>> : s \in simple \cup alone}

\* Programs with an error: two defaults, a label that is repeated, a default
\* after another label.
Errors(k) ==
    LET a == Body(k+8, <<Work(k+9)>>)
    IN  { Switch(k, {1, 2}, <<Group(<<Default>>, a), Group(<<Default>>, a)>>),
          Switch(k, {1, 2}, <<Group(<<1, 2>>, a), Group(<<Default, 2>>, a)>>),
          Switch(k, {1, 2}, <<Group(<<1, Default>>, a), Group(<<2>>, a)>>) }

\* Repeated labels that pass, as each is the first of its group or comes
\* after one that is.
Repeats(k) ==
    LET a == Body(k+8, <<Work(k+9)>>)
        b == Body(k+10, <<Work(k+11)>>)
        c == Body(k+12, <<Work(k+13)>>)
    IN  { Switch(k, {1, 2}, <<Group(<<1>>, a), Group(<<1>>, b), Group(<<2>>, c)>>),
          Switch(k, {1, 2, 3}, <<Group(<<1>>, a), Group(<<Default, 1>>, b), Group(<<2, 2>>, c)>>),
          Switch(k, {1, 2, 3}, <<Group(<<1>>, a), Group(<<Default, 1>>, b), Group(<<2>>, c)>>) }

Wrong    == {<<Work(1), s, Work(2)>> : s \in UNION {Around(40, Body(60, <<e>>)) : e \in Errors(20)}}
Repeated == {<<s, Work(2)>> : s \in Repeats(20)}

InFunction == Programs(Bodies(30)) \cup Wrong \cup Repeated
InMain     == Programs(QuietBodies(30)) \cup {<<Work(1), Return(2), Work(3)>>} \cup Wrong \cup Repeated

\* A node with the nodes that are compiled for it.
RECURSIVE NodesOf(_)
NodesOf(n) ==
    {n} \cup
    CASE n.kind = "value"    -> {}
      [] n.kind = "operator" -> NodesOf(n.left) \cup NodesOf(n.right)
      [] n.kind = "ternary"  -> NodesOf(n.cond) \cup NodesOf(n.then) \cup NodesOf(n.else)
      [] n.kind = "body"     -> UNION {NodesOf(n.stmts[i]) : i \in DOMAIN n.stmts}
      [] n.kind = "if"       ->
            NodesOf(n.branches[1].cond) \cup NodesOf(n.branches[1].body)
              \cup (IF Len(n.branches) = 1 THEN UNION {NodesOf(n.else[i]) : i \in DOMAIN n.else}
                    ELSE NodesOf([n EXCEPT !.branches = Tail(@)]))
      [] n.kind \in {"while", "do"} -> NodesOf(n.cond) \cup NodesOf(n.body)
      [] n.kind = "for"      ->
            UNION {NodesOf(m) : m \in {n.init, n.cond, n.post, n.body}}
      [] n.kind = "switch"   ->
            NodesOf(n.value) \cup UNION {NodesOf(n.groups[g].body) : g \in DOMAIN n.groups}
      [] n.kind = "return"   -> NodesOf(n.value)

AllNodes  == UNION {UNION {NodesOf(p[i]) : i \in DOMAIN p} : p \in InFunction \cup InMain}
MainNodes == UNION {UNION {NodesOf(p[i]) : i \in DOMAIN p} : p \in InMain}
             \ {Return(2)}

\* A value without a label in a switch that has no default.
NoLabel == { <<Switch(1, {1, 2, 3}, <<Group(<<1>>, Body(10, <<Work(11)>>)),
                                      Group(<<2>>, Body(20, <<Work(21)>>))>>), Work(90)>> }
             \* and the same with one label alone, in blocks of several kinds
             \cup {<<s>> : s \in Around(40, Body(60,
                     <<Switch(1, {1, 2}, <<Group(<<1>>, Body(10, <<Work(11)>>))>>)>>))}

None == {}

\* Programs outside the claims of the passing run, for experiments.
TooLong    == {<<Ternary(Cond(1), Long(2, 200), Long(3, 100))>>}
LeavesMain == {<<If(1, Body(10, <<Return(11)>>), <<>>)>>}
=============================================================================
