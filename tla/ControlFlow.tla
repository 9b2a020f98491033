---------------------------- MODULE ControlFlow ----------------------------
(***************************************************************************)
(* Control structures: how the compiler (core/CCompiler.cpp) lays a        *)
(* function out as a list of statements with jumps between and inside      *)
(* them, and how the virtual machine (core/vm/CVirtualMachine.cpp) walks   *)
(* that list, keeping the scopes that are open and the operands of the     *)
(* statement.  What the walk has to amount to is StructuredProgram: its    *)
(* variables are history variables here, which follow the program's        *)
(* meaning with the values the machine's evaluations yield, and            *)
(* FollowsProgram says that every evaluation is the one that comes next.   *)
(*                                                                         *)
(* The functions of the compiler call each other down the tree.  Here one  *)
(* of them gives the list of what it does, calls included, and `work` is   *)
(* what the active ones have left to do.  A jump whose target they do not  *)
(* know yet, and the first statement of a loop, are in local variables of  *)
(* theirs, which `marks` has by name.                                      *)
(*                                                                         *)
(* Statements are numbered from 1; number Len(code)+1 is the NULL that     *)
(* popFunction leaves at the end of the list.                              *)
(***************************************************************************)
EXTENDS Integers, Sequences

CONSTANTS
    MainPrograms,      \* programs that run as the main function,
    FunctionPrograms,  \* and as another one: sequences of statements
    Nodes,             \* the nodes they are made of, and among them those
    QuietNodes         \* that have no return in them

VARIABLES
    code,      \* the function's statements, sequences of instructions
    work,      \* what is left to compile
    marks,     \* variables that hold the place of a jump or, at 0, of a statement
    calls,     \* calls of the compiler's functions so far, to tell variables apart
    main,      \* the function is the main function
    pc,        \* statement and instruction that comes next
    operands,  \* the values on the stack above ptrStartOp
    scopes,    \* what the function has in scope_info, the innermost last
    todo, value, blocks, beat, status

compilerVars == <<code, work, marks, calls>>
machineVars  == <<pc, operands, scopes>>
programVars  == <<todo, value, blocks, beat, status>>

vars == <<compilerVars, main, machineVars, programVars>>

Meaning == INSTANCE StructuredProgram

Default   == Meaning!Default
Undefined == -1     \* ZS_UNDEFINED_IDX
Width     == 256    \* index_op1 of tInfoAsmOp has 8 bits

-----------------------------------------------------------------------------
(* The compiler.  What there is to do: nodes, and these.                    *)

newStatment     == [kind |-> "statement"]
Insert(ins)     == [kind |-> "insert", ins |-> ins]
Inside(e)       == [kind |-> "inside", of |-> e]     \* an expression in a statement
Jump(op, var)   == [kind |-> "jump", op |-> op, var |-> var]
Start(var)      == [kind |-> "start", var |-> var]   \* of the statement that follows
Back(op, var)   == [kind |-> "back", op |-> op, var |-> var]
ToNext(var)     == [kind |-> "next", var |-> var]    \* jumps lead to the next statement
ToHere(var)     == [kind |-> "here", var |-> var]    \* and to the next instruction

Tests(labels, var) == [kind |-> "tests", labels |-> labels, var |-> var]
Case(body, var, end, last) ==
    [kind |-> "case", body |-> body, var |-> var, end |-> end, last |-> last]

PushScope(n) == Insert([op |-> "PUSH_SCOPE", scope |-> n.scope])
PopScope     == Insert([op |-> "POP_SCOPE"])

\* Mutant of gacInlineIf: the jump over the else operand leads to it.
InlineIfRunsBoth(e, a) ==
    <<Inside(e.cond), Jump("JNT", <<a, 1>>), Inside(e.then), Jump("JMP", <<a, 2>>),
      ToHere(<<a, 1>>), ToHere(<<a, 2>>), Inside(e.else)>>

\* a is the number of the call.
gacInlineIf(e, a) ==
    <<Inside(e.cond), Jump("JNT", <<a, 1>>), Inside(e.then), Jump("JMP", <<a, 2>>),
      ToHere(<<a, 1>>), Inside(e.else), ToHere(<<a, 2>>)>>

\* An evaluation of size n stands for n instructions, the last of which yields.
gacExpression(e, a) ==
    CASE e.kind = "value" /\ e.size = 1 ->
            <<Insert([op |-> "LOAD", id |-> e.id, yields |-> e.yields])>>
      [] e.kind = "value" /\ e.size > 1 ->
            <<Insert([op |-> "PART"]), Inside([e EXCEPT !.size = @ - 1])>>
      [] e.kind = "operator" ->
            <<Inside(e.left), Inside(e.right),
              Insert([op |-> "APPLY", id |-> e.id, yields |-> e.yields])>>
      [] e.kind = "ternary" -> gacInlineIf(e, a)

gacBody(n) ==
    <<newStatment, PushScope(n)>>
        \o (IF n.stmts = <<>> THEN <<newStatment>> ELSE n.stmts)
        \o <<newStatment, PopScope>>

\* Mutant of gacFor: the jump out of the loop skips the statement that pops.
ForSkipsPop(n, a) ==
    <<newStatment, PushScope(n), n.init, Start(<<a, 1>>), n.cond, Jump("JNT", <<a, 2>>),
      n.body, n.post, Back("JMP", <<a, 1>>), newStatment, PopScope, ToNext(<<a, 2>>)>>

gacFor(n, a) ==
    <<newStatment, PushScope(n), n.init, Start(<<a, 1>>), n.cond, Jump("JNT", <<a, 2>>),
      n.body, n.post, Back("JMP", <<a, 1>>), ToNext(<<a, 2>>), newStatment, PopScope>>

\* Mutant of gacWhile: the jump back meets the body, not the condition.
WhileSkipsTest(n, a) ==
    <<n.cond, Jump("JNT", <<a, 2>>), Start(<<a, 1>>), n.body, Back("JMP", <<a, 1>>),
      ToNext(<<a, 2>>)>>

\* index_ini_while is the statement of the condition, which has one.
gacWhile(n, a) ==
    <<Start(<<a, 1>>), n.cond, Jump("JNT", <<a, 2>>), n.body, Back("JMP", <<a, 1>>),
      ToNext(<<a, 2>>)>>

gacDoWhile(n, a) == <<Start(<<a, 1>>), n.body, n.cond, Back("JT", <<a, 1>>)>>

gacReturn(n) == <<n.value, Insert([op |-> "RET"])>>

\* The jumps at the ends of the branches are kept until the else body is there.
gacIf(n, a) ==
    <<n.branches[1].cond, Jump("JNT", <<a, 1>>), n.branches[1].body,
      Jump("JMP", <<a, 2>>), ToNext(<<a, 1>>)>>
        \o (IF Len(n.branches) = 1 THEN n.else ELSE <<[n EXCEPT !.branches = Tail(@)]>>)
        \o <<ToNext(<<a, 2>>)>>

-----------------------------------------------------------------------------
(* switch: the parser orders the groups, the compiler lays out all the      *)
(* tests and then all the bodies.                                           *)

\* parseSwitch compares a label with the labels before it, except the first
\* of each group.
LabelIsRepeated(groups) ==
    \E g, h \in DOMAIN groups :
        \E j \in DOMAIN groups[g].labels, k \in DOMAIN groups[h].labels :
            /\ g < h \/ (g = h /\ j < k)
            /\ j > 1
            /\ groups[g].labels[j] = groups[h].labels[k]

\* "case already defined!": gacSwitch meets a second default.
DefaultIsRepeated(groups) ==
    \E g, h \in DOMAIN groups :
        \E j \in DOMAIN groups[g].labels, k \in DOMAIN groups[h].labels :
            /\ <<g, j>> # <<h, k>>
            /\ groups[g].labels[j] = Default /\ groups[h].labels[k] = Default

\* The group with the default goes to the end.  It is taken from its place
\* only if the default is the first of its labels.  (The loop that means to
\* erase the labels joined with a default looks at the nodes 0, 1, 2... of the
\* whole file, which are none of this group while it has few labels.)  A group
\* whose default comes after another label is in the result twice.
DefaultLast(groups) ==
    LET with == {g \in DOMAIN groups : \E j \in DOMAIN groups[g].labels :
                                          groups[g].labels[j] = Default}
        head == {g \in DOMAIN groups : groups[g].labels[1] = Default}
        first == CHOOSE g \in head : \A h \in head : g <= h
        kept == IF head = {} THEN groups
                ELSE SubSeq(groups, 1, first - 1) \o SubSeq(groups, first + 1, Len(groups))
    IN  IF with = {} THEN groups
        ELSE Append(kept, groups[CHOOSE g \in with : \A h \in with : h <= g])

\* The tests of a group, one label after the other.
gacTests(labels, var) ==
    IF labels = <<>> THEN <<>>
    ELSE (IF Head(labels) = Default THEN <<Jump("JMP", var)>>
          ELSE <<Insert([op |-> "CASE", label |-> Head(labels)]), Insert([op |-> "EQU"]),
                 Jump("JT", var)>>)
         \o <<Tests(Tail(labels), var)>>

\* The body of a group, and the jump over the others.
gacCase(case) ==
    <<ToNext(case.var), case.body>> \o (IF case.last THEN <<>> ELSE <<Jump("JMP", case.end)>>)

gacSwitch(n, a) ==
    LET groups == DefaultLast(n.groups)
    IN  <<newStatment, n.value>>
          \o [g \in 1..Len(groups) |-> Tests(groups[g].labels, <<a, g>>)]
          \o [g \in 1..Len(groups) |-> Case(groups[g].body, <<a, g>>, <<a, 0>>, g = Len(groups))]
          \o <<ToNext(<<a, 0>>)>>

Expressions == {"value", "operator", "ternary"}

\* What the function for a node does.
ast2asm(n, a) ==
    CASE n.kind \in Expressions -> <<newStatment, Inside(n)>>
      [] n.kind = "inside" -> gacExpression(n.of, a)
      [] n.kind = "body"   -> gacBody(n)
      [] n.kind = "if"     -> gacIf(n, a)
      [] n.kind = "while"  -> gacWhile(n, a)
      [] n.kind = "do"     -> gacDoWhile(n, a)
      [] n.kind = "for"    -> gacFor(n, a)
      [] n.kind = "switch" -> gacSwitch(n, a)
      [] n.kind = "tests"  -> gacTests(n.labels, n.var)
      [] n.kind = "case"   -> gacCase(n)
      [] n.kind = "return" -> gacReturn(n)

-----------------------------------------------------------------------------
(* The programs: what CASTNode makes of a script.                           *)

HasError(n) ==
    /\ n.kind = "switch"
    /\ LabelIsRepeated(n.groups) \/ DefaultIsRepeated(DefaultLast(n.groups))

IsExpression(e, S) == e \in S /\ e.kind \in Expressions
IsBlock(n, S)      == n \in S /\ n.kind = "body"

Labels(group) == {group.labels[j] : j \in DOMAIN group.labels}

\* Without a default the value has always one of the labels.
ValueHasGroup(n) ==
    LET labels == UNION {Labels(n.groups[g]) : g \in DOMAIN n.groups}
    IN  Default \notin labels =>
            n.value.kind \in {"value", "operator"} /\ n.value.yields \subseteq labels

\* A node whose parts are of S: conditions are expressions, and the bodies of
\* control structures are blocks, as the parser asks for their braces.
WellFormed(n, S) ==
    \/ /\ n.kind = "value"
       /\ n = [kind |-> n.kind, id |-> n.id, yields |-> n.yields, size |-> n.size]
       /\ n.yields \subseteq Int /\ n.size \in Nat \ {0}
    \/ /\ n.kind = "operator"
       /\ n = [kind |-> n.kind, id |-> n.id, yields |-> n.yields,
               left |-> n.left, right |-> n.right]
       /\ n.yields \subseteq Int
       /\ IsExpression(n.left, S) /\ IsExpression(n.right, S)
    \/ /\ n.kind = "ternary"
       /\ n = [kind |-> n.kind, cond |-> n.cond, then |-> n.then, else |-> n.else]
       /\ IsExpression(n.cond, S) /\ IsExpression(n.then, S) /\ IsExpression(n.else, S)
    \/ /\ n.kind = "body"
       /\ n = [kind |-> n.kind, scope |-> n.scope, stmts |-> n.stmts]
       /\ n.stmts \in Seq(S)
    \/ /\ n.kind = "if"
       /\ n = [kind |-> n.kind, branches |-> n.branches, else |-> n.else]
       /\ n.branches \in Seq([cond : S, body : S]) /\ n.branches # <<>>
       /\ n.else \in Seq(S)
       /\ \A i \in DOMAIN n.branches :
             IsExpression(n.branches[i].cond, S) /\ IsBlock(n.branches[i].body, S)
       /\ Len(n.branches) > 1 => [n EXCEPT !.branches = Tail(@)] \in S
    \/ /\ n.kind = "while"
       /\ n = [kind |-> n.kind, cond |-> n.cond, body |-> n.body]
       /\ IsExpression(n.cond, S) /\ IsBlock(n.body, S)
    \/ /\ n.kind = "do"
       /\ n = [kind |-> n.kind, cond |-> n.cond, body |-> n.body]
       /\ IsExpression(n.cond, S) /\ IsBlock(n.body, S)
    \/ /\ n.kind = "for"
       /\ n = [kind |-> n.kind, scope |-> n.scope, init |-> n.init, cond |-> n.cond,
               post |-> n.post, body |-> n.body]
       /\ IsExpression(n.init, S) /\ IsExpression(n.cond, S) /\ IsExpression(n.post, S)
       /\ IsBlock(n.body, S)
    \/ /\ n.kind = "switch"
       /\ n = [kind |-> n.kind, value |-> n.value, groups |-> n.groups]
       /\ IsExpression(n.value, S)
       /\ n.groups \in Seq([labels : Seq(Int), body : S]) /\ n.groups # <<>>
       /\ \A g \in DOMAIN n.groups :
             IsBlock(n.groups[g].body, S) /\ n.groups[g].labels # <<>>
       /\ ~HasError(n) => ValueHasGroup(n)
    \/ /\ n.kind = "return"
       /\ n = [kind |-> n.kind, value |-> n.value]
       /\ IsExpression(n.value, S)

\* A return of main is not within a block: lbl_exit_function pops nothing there.
ASSUME ProgramsAssumption ==
    /\ QuietNodes \subseteq Nodes
    /\ \A S \in {Nodes, QuietNodes} : \A n \in S : WellFormed(n, S)
    /\ \A n \in QuietNodes : n.kind # "return"
    /\ FunctionPrograms \subseteq Seq(Nodes)
    /\ MainPrograms \subseteq Seq(QuietNodes \cup {n \in Nodes : n.kind = "return"})

-----------------------------------------------------------------------------
(* The steps of the compiler.                                               *)

FunctionScope == 0     \* the scope of the function's own block
Scopes0(isMain) == IF isMain THEN <<>> ELSE <<FunctionScope>>

Init ==
    /\ \E p \in ({TRUE} \X MainPrograms) \cup ({FALSE} \X FunctionPrograms) :
          /\ main = p[1] /\ work = p[2] /\ todo = p[2]
          /\ scopes = Scopes0(p[1])
    /\ code = <<>> /\ marks = {} /\ calls = 0
    /\ pc = <<1, 1>> /\ operands = <<>>
    /\ value = 0 /\ blocks = <<>> /\ beat = 0 /\ status = "ready"

First == Head(work)
Doing(kind) == status = "ready" /\ work # <<>> /\ First.kind = kind

JumpIns(op) == [op |-> op, op1 |-> Undefined, op2 |-> Undefined]
Add(ins)    == code' = [code EXCEPT ![Len(code)] = Append(@, ins)]

\* The jumps that a variable holds get a target.
Lead(var, op1, op2) ==
    /\ code' = [s \in DOMAIN code |-> [i \in DOMAIN code[s] |->
                   IF [var |-> var, at |-> <<s, i>>] \in marks
                   THEN [code[s][i] EXCEPT !.op1 = op1, !.op2 = op2]
                   ELSE code[s][i]]]
    /\ marks' = {m \in marks : m.var # var}

Done      == work' = Tail(work)
Unchanged == UNCHANGED <<calls, main, machineVars, programVars>>

Call ==
    /\ status = "ready" /\ work # <<>>
    /\ First.kind \notin {"statement", "insert", "jump", "start", "back", "next", "here"}
    /\ ~HasError(First)
    /\ work' = ast2asm(First, calls) \o Tail(work)
    /\ calls' = calls + 1
    /\ UNCHANGED <<code, marks, main, machineVars, programVars>>

\* A program with an error is not run.
Fail ==
    /\ status = "ready" /\ work # <<>> /\ HasError(First)
    /\ status' = "refused"
    /\ UNCHANGED <<compilerVars, main, machineVars, todo, value, blocks, beat>>

NewStatement ==
    /\ Doing("statement")
    /\ code' = Append(code, <<>>)
    /\ Done /\ UNCHANGED marks /\ Unchanged

InsertInstruction ==
    /\ Doing("insert")
    /\ Add(First.ins)
    /\ Done /\ UNCHANGED marks /\ Unchanged

InsertJump ==
    /\ Doing("jump")
    /\ Add(JumpIns(First.op))
    /\ marks' = marks \cup {[var |-> First.var, at |-> <<Len(code), Len(code[Len(code)]) + 1>>]}
    /\ Done /\ Unchanged

StartLoop ==
    /\ Doing("start")
    /\ marks' = marks \cup {[var |-> First.var, at |-> <<Len(code) + 1, 0>>]}
    /\ Done /\ UNCHANGED code /\ Unchanged

JumpBack ==
    /\ Doing("back")
    /\ \E m \in marks :
          /\ m.var = First.var
          /\ Add([JumpIns(First.op) EXCEPT !.op2 = m.at[1]])
          /\ marks' = marks \ {m}
    /\ Done /\ Unchanged

LeadToNext ==
    /\ Doing("next")
    /\ Lead(First.var, Undefined, Len(code) + 1)
    /\ Done /\ Unchanged

LeadHere ==
    /\ Doing("here")
    /\ Lead(First.var, Len(code[Len(code)]), Len(code))
    /\ Done /\ Unchanged

\* execute_internal starts with the code that popFunction has stored.
Begin ==
    /\ work = <<>> /\ Meaning!Begin
    /\ UNCHANGED <<compilerVars, main, machineVars>>

Compile ==
    \/ Call \/ Fail \/ NewStatement \/ InsertInstruction \/ InsertJump
    \/ StartLoop \/ JumpBack \/ LeadToNext \/ LeadHere \/ Begin

-----------------------------------------------------------------------------
(* The virtual machine: execute_internal.  It waits while the history       *)
(* variables take the program apart.                                        *)

Unfold == Meaning!Unfold /\ UNCHANGED <<compilerVars, main, machineVars>>

Running     == status = "running" /\ Meaning!Settled(todo)
AtNull      == pc[1] > Len(code)
AtEnd       == ~AtNull /\ pc[2] > Len(code[pc[1]])     \* END_STATMENT
Instruction == code[pc[1]][pc[2]]
At(ops)     == Running /\ ~AtNull /\ ~AtEnd /\ Instruction.op \in ops

Top       == operands[Len(operands)]
Drop(n)   == SubSeq(operands, 1, Len(operands) - n)
Advance   == pc' = <<pc[1], pc[2] + 1>>

\* A statement starts with an empty stack of operands.
GoTo(statement) == pc' = <<statement, 1>> /\ operands' = <<>>

\* Where the program's meaning has nothing, or something else, to evaluate.
Lost == <<[kind |-> "value", id |-> Undefined, yields |-> {}, size |-> 1]>>

\* The history variables follow the evaluation of `id` with value v.
Follow(id, v) ==
    /\ todo' = IF todo # <<>> /\ Head(todo).id = id THEN Tail(todo) ELSE Lost
    /\ value' = v
    /\ beat' = 1 - beat
    /\ UNCHANGED <<blocks, status>>

\* Mutant of CHK_JMP: within a statement the jump lands one too far.
JumpOneTooFar(ins, left) ==
    IF ins.op2 # Undefined /\ ins.op2 # pc[1]
    THEN GoTo(ins.op2)
    ELSE /\ pc' = <<pc[1], IF ins.op2 # Undefined /\ ins.op1 % Width # Undefined % Width
                           THEN (ins.op1 % Width) + 2 ELSE pc[2] + 1>>
         /\ operands' = left

\* To another statement; or within this one, unless the 8 bits of the target
\* look like ZS_UNDEFINED_IDX; `left` are the operands the test leaves.
CHK_JMP(ins, left) ==
    IF ins.op2 # Undefined /\ ins.op2 # pc[1]
    THEN GoTo(ins.op2)
    ELSE /\ pc' = <<pc[1], IF ins.op2 # Undefined /\ ins.op1 % Width # Undefined % Width
                           THEN (ins.op1 % Width) + 1 ELSE pc[2] + 1>>
         /\ operands' = left

NextStatement ==
    /\ Running /\ AtEnd
    /\ GoTo(pc[1] + 1)
    /\ UNCHANGED <<compilerVars, main, scopes, programVars>>

Part ==
    /\ At({"PART"})
    /\ Advance
    /\ UNCHANGED <<compilerVars, main, operands, scopes, programVars>>

Load ==
    /\ At({"LOAD"})
    /\ \E v \in Instruction.yields :
          /\ operands' = Append(operands, v)
          /\ Follow(Instruction.id, v)
    /\ Advance
    /\ UNCHANGED <<compilerVars, main, scopes>>

Operator ==
    /\ At({"APPLY"}) /\ Len(operands) >= 2
    /\ \E v \in Instruction.yields :
          /\ operands' = Append(Drop(2), v)
          /\ Follow(Instruction.id, v)
    /\ Advance
    /\ UNCHANGED <<compilerVars, main, scopes>>

LoadCase ==
    /\ At({"CASE"})
    /\ operands' = Append(operands, Instruction.label)
    /\ Advance
    /\ UNCHANGED <<compilerVars, main, scopes, programVars>>

\* READ_TWO_POP_ONE: the value of the switch stays for the next label.
EqualCase ==
    /\ At({"EQU"}) /\ Len(operands) >= 2
    /\ operands' = Append(Drop(1), IF Top = operands[Len(operands) - 1] THEN 1 ELSE 0)
    /\ Advance
    /\ UNCHANGED <<compilerVars, main, scopes, programVars>>

JumpAlways ==
    /\ At({"JMP"})
    /\ CHK_JMP(Instruction, operands)
    /\ UNCHANGED <<compilerVars, main, scopes, programVars>>

JumpIf ==
    /\ At({"JT", "JNT"}) /\ operands # <<>>
    /\ IF (Instruction.op = "JT") <=> (Top # 0)
       THEN CHK_JMP(Instruction, Drop(1))
       ELSE Advance /\ operands' = Drop(1)
    /\ UNCHANGED <<compilerVars, main, scopes, programVars>>

OpenScope ==
    /\ At({"PUSH_SCOPE"})
    /\ scopes' = Append(scopes, Instruction.scope)
    /\ Advance
    /\ UNCHANGED <<compilerVars, main, operands, programVars>>

\* POP_SCOPE does nothing when no scope is left.
CloseScope ==
    /\ At({"POP_SCOPE"})
    /\ scopes' = IF scopes = <<>> THEN <<>> ELSE SubSeq(scopes, 1, Len(scopes) - 1)
    /\ Advance
    /\ UNCHANGED <<compilerVars, main, operands, programVars>>

\* lbl_exit_function, at the NULL or after RET: a function pops its scopes,
\* the main function does not.
ExitFunction ==
    /\ Running /\ (AtNull \/ At({"RET"}))
    /\ status' = "ended"
    /\ scopes' = IF main THEN scopes ELSE <<>>
    /\ UNCHANGED <<compilerVars, main, pc, operands, todo, value, blocks, beat>>

Execute ==
    \/ Unfold \/ NextStatement \/ Part \/ Load \/ Operator \/ LoadCase \/ EqualCase
    \/ JumpAlways \/ JumpIf \/ OpenScope \/ CloseScope \/ ExitFunction

Next == Compile \/ Execute

\* Both run on the calling thread: while it can step, it does.
Spec == Init /\ [][Next]_vars /\ WF_vars(Next)

-----------------------------------------------------------------------------
(* Properties                                                                *)

\* Every jump of execute_internal lands on a statement of the function, on the
\* NULL after them, or on an instruction or the end of its own statement, and
\* instructions find the operands they pop.
TypeOK ==
    /\ status \in {"ready", "running", "ended", "refused"}
    /\ beat \in {0, 1} /\ main \in BOOLEAN
    /\ Running =>
          /\ pc[1] \in 1..(Len(code) + 1)
          /\ AtNull \/ pc[2] \in 1..(Len(code[pc[1]]) + 1)
    /\ At({"APPLY", "EQU"}) => Len(operands) >= 2
    /\ At({"JT", "JNT", "RET"}) => operands # <<>>

\* What gacFor, gacWhile, gacDoWhile, gacIf, gacSwitch, gacInlineIf, gacReturn
\* and CHK_JMP amount to together: the evaluations of a run, in their order and
\* with whatever values they yield, are those of the structured program, and the
\* run ends exactly when that program is over.
FollowsProgram == Meaning!Run

\* Whatever jumps led to an evaluation, scope_info holds the blocks around it,
\* so that PUSH_SCOPE and POP_SCOPE release each block's variables on its exit
\* and no sooner, and a run leaves nothing there, that of main included, which
\* pops nothing at lbl_exit_function: README.md:90, "Local vars are destroyed
\* when it exits from block".
ScopesFollowBlocks ==
    /\ At({"LOAD", "APPLY"}) => scopes = Scopes0(main) \o blocks
    /\ status = "ended" => scopes = <<>>

\* The compiler comes to an end, and the machine does not go round between two
\* evaluations: the jumps alone make no loop.
NeverSpins == \A b \in {0, 1} : beat = b ~> (beat # b \/ status \in {"ended", "refused"})
=============================================================================
