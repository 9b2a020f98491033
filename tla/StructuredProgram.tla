------------------------- MODULE StructuredProgram -------------------------
(***************************************************************************)
(* What the control structures of a script mean, with no statement list    *)
(* and no jump: the specification that compiler and virtual machine        *)
(* implement together (ControlFlow).  README.md, sections Scope,           *)
(* Conditionals and Loops, is what it states.                              *)
(*                                                                         *)
(* A program is a tree of records, the shape of the nodes CASTNode builds: *)
(*   expressions  value     id, yields, size                               *)
(*                operator  id, yields, left, right                        *)
(*                ternary   cond, then, else                               *)
(*   statements   an expression, or                                        *)
(*                body      scope, stmts                                   *)
(*                if        branches (cond, body), else (none or one body) *)
(*                while     cond, body                                     *)
(*                do        body, cond                                     *)
(*                for       scope, init, cond, post, body                  *)
(*                switch    value, groups (labels, body)                   *)
(*                return    value                                          *)
(* The ids name the evaluations; what an evaluation yields is one of       *)
(* "yields", any of them each time: 0 counts as false.                     *)
(*                                                                         *)
(* The rest of a run is a sequence of such trees and of the remainders     *)
(* below, which wait for the value of the evaluation before them.          *)
(***************************************************************************)
EXTENDS Integers, Sequences

VARIABLES
    todo,      \* what is left to do
    value,     \* what the last evaluation yielded
    blocks,    \* the scopes of the blocks that are open, the innermost last
    beat,      \* turns over with every evaluation: a loop may come back to the
               \* same rest
    status     \* "ready", then "running" and "ended", or "refused"

vars == <<todo, value, blocks, beat, status>>

Default == -1     \* the label that is no value

Branch(then, else) == [kind |-> "branch", then |-> then, else |-> else]
Select(groups)     == [kind |-> "select", groups |-> groups]
Close(scope)       == [kind |-> "close", scope |-> scope]
Exit               == [kind |-> "exit"]
Apply(e)           == [kind |-> "apply", id |-> e.id, yields |-> e.yields]

\* The body of the groups that have a label, as a sequence of at most one.
BodyOf(groups, label) ==
    LET having == {g \in DOMAIN groups : label \in {groups[g].labels[j] :
                                             j \in DOMAIN groups[g].labels}}
    IN  IF having = {} THEN <<>>
        ELSE <<groups[CHOOSE g \in having : \A h \in having : g <= h].body>>

\* The first of the rest taken apart, once; v is the last value.
Expand(first, v) ==
    CASE first.kind = "operator" -> <<first.left, first.right, Apply(first)>>
      [] first.kind = "ternary"  -> <<first.cond, Branch(<<first.then>>, <<first.else>>)>>
      [] first.kind = "branch"   -> IF v # 0 THEN first.then ELSE first.else
      [] first.kind = "body"     -> Append(first.stmts, Close(first.scope))
      [] first.kind = "close"    -> <<>>
      [] first.kind = "if"       ->
            LET branch == Head(first.branches)
                others == IF Len(first.branches) = 1 THEN first.else
                          ELSE <<[first EXCEPT !.branches = Tail(@)]>>
            IN  <<branch.cond, Branch(<<branch.body>>, others)>>
      [] first.kind = "while"    -> <<first.cond, Branch(<<first.body, first>>, <<>>)>>
      [] first.kind = "do"       -> <<first.body, first.cond, Branch(<<first>>, <<>>)>>
      [] first.kind = "for"      ->
            <<first.init, [kind |-> "turn", cond |-> first.cond, body |-> first.body,
                           post |-> first.post], Close(first.scope)>>
      [] first.kind = "turn"     ->
            <<first.cond, Branch(<<first.body, first.post, first>>, <<>>)>>
      [] first.kind = "switch"   -> <<first.value, Select(first.groups)>>
      [] first.kind = "select"   ->
            IF BodyOf(first.groups, v) # <<>> THEN BodyOf(first.groups, v)
            ELSE BodyOf(first.groups, Default)
      [] first.kind = "return"   -> <<first.value, Exit>>

\* The rest with its first taken apart; nothing follows a return.
Unfolded(rest, v) ==
    IF Head(rest).kind = "exit" THEN <<>> ELSE Expand(Head(rest), v) \o Tail(rest)

\* The blocks that are open then.
BlocksAt(first, open) ==
    CASE first.kind \in {"body", "for"} -> Append(open, first.scope)
      [] first.kind = "close"           -> SubSeq(open, 1, Len(open) - 1)
      [] OTHER                          -> open

\* An evaluation comes next, or nothing.
Settled(rest) == rest # <<>> => Head(rest).kind \in {"value", "apply"}

-----------------------------------------------------------------------------
\* A program is run, or it has an error and is not.
Begin  == status = "ready" /\ status' = "running" /\ UNCHANGED <<todo, value, blocks, beat>>
Refuse == status = "ready" /\ status' = "refused" /\ UNCHANGED <<todo, value, blocks, beat>>

Unfold ==
    /\ status = "running" /\ ~Settled(todo)
    /\ todo' = Unfolded(todo, value)
    /\ blocks' = BlocksAt(Head(todo), blocks)
    /\ UNCHANGED <<value, beat, status>>

Evaluate ==
    /\ status = "running" /\ todo # <<>> /\ Settled(todo)
    /\ value' \in Head(todo).yields
    /\ todo' = Tail(todo)
    /\ beat' = 1 - beat
    /\ UNCHANGED <<blocks, status>>

\* A program ends when nothing is left to do, and only then.
End ==
    /\ status = "running" /\ todo = <<>>
    /\ status' = "ended"
    /\ UNCHANGED <<todo, value, blocks, beat>>

Next == Begin \/ Refuse \/ Unfold \/ Evaluate \/ End

\* At first todo is the program, a sequence of statements.
Run == [][Next]_vars
============================================================================
