--------------------------- MODULE ExpressionCode ---------------------------
(***************************************************************************)
(* The compiler of expressions (src/core/CCompiler.cpp): from the tree of  *)
(* an expression to the instructions of one statement.                     *)
(*                                                                         *)
(* Instructions are written from the left to the right, operands before    *)
(* operators.  Beside them the compiler carries index_instruction, its own *)
(* idea of how many there are; it is what decides whether the left side of *)
(* an assignment is a variable, and it does not count every instruction.   *)
(* The members of an object under construction ("this", "super") and       *)
(* anonymous functions are left out.                                       *)
(***************************************************************************)
EXTENDS Expressions, SequencesExt

CONSTANTS
  Constants,       \* the words that ParseInteger, ParseFloat ... accept
  Globals,         \* the registered variables
  FunctionNames,   \* the registered functions
  ClassNames       \* the classes and the names of the basic types

Post == {"post++", "post--"}

\* The properties of an instruction: how a LOAD finds its value, its ++ or
\* --, whether it leaves its first operand, and the index of another
\* instruction of the statement (counted from 0).
Ins(op) == [op |-> op, name |-> "", load |-> "none", info |-> "none", keep |-> FALSE, to |-> 0]
Named(op, n) == [Ins(op) EXCEPT !.name = n]
Keep(op)     == [Ins(op) EXCEPT !.keep = TRUE]

\* What compiling a node yields: the instructions written so far, what
\* index_instruction is then, and the index returned for the node.
Written(code, index, r) == [ok |-> TRUE, code |-> code, index |-> index, r |-> r]
NotWritten              == [ok |-> FALSE, code |-> <<>>, index |-> 0, r |-> 0]

getCurrentInstructionIndex(code) == Len(code) - 1

(***************************************************************************)
(* Operands.  ctx is the list of the operators above a node, the nearest   *)
(* first, each with the side the node is on; a call or an index stands     *)
(* where its object stands.  An expression of its own starts a new list.   *)
(***************************************************************************)
Above(op, side) == [op |-> op, side |-> side]
OperatorAbove(ctx, k) == IF Len(ctx) >= k THEN ctx[k].op ELSE "none"

RECURSIVE checkAccessObjectMember(_)
checkAccessObjectMember(ctx) ==
  /\ OperatorAbove(ctx, 1) = "."
  /\ \/ Len(ctx) = 1 /\ ctx[1].side = 2
     \/ Len(ctx) > 1 /\ \/ checkAccessObjectMember(SubSeq(ctx, 3, Len(ctx)))
                        \/ ctx[1].side = 2
                        \/ ctx[2].op = "."

\* How the linker will find the value of a word.
LoadType(name, ctx) ==
  CASE OperatorAbove(ctx, 1) = "instanceof" /\ ctx[1].side = 2 -> "class"
    [] name \in Constants                                      -> "constant"
    [] checkAccessObjectMember(ctx)                            -> "member"
    [] name \in Globals                                        -> "variable"
    [] name \in FunctionNames                                  -> "function"
    [] OTHER                                                   -> "unknown"

insertLoadValueInstruction(name, info, ctx, code) ==
  LET load == LoadType(name, ctx)
      post == IF info \in Post /\ load # "class" THEN info ELSE "none"
  IN  IF \/ load = "unknown"
         \/ load = "class" /\ name \notin ClassNames
         \/ load = "constant" /\ post # "none"
      THEN NotWritten
      ELSE Written(Append(code, [Named("LOAD", name) EXCEPT !.load = load, !.info = post]),
                   Len(code) + 1, Len(code))

(***************************************************************************)
(* Operators.                                                              *)
(***************************************************************************)
puntuator2instruction ==
  [o \in {"-", "+", "*", "/", "%", "=", "^", "&", "|", "<<", ">>", "&&", "||",
          "==", "!=", ">", "<", ">=", "<=", "!", "instanceof"} |->
     CASE o = "-"  -> "NEG"   [] o = "+"  -> "ADD" [] o = "*"  -> "MUL" [] o = "/"  -> "DIV"
       [] o = "%"  -> "MOD"   [] o = "="  -> "STORE" [] o = "^"  -> "XOR" [] o = "&"  -> "AND"
       [] o = "|"  -> "OR"    [] o = "<<" -> "SHL" [] o = ">>" -> "SHR"
       [] o = "&&" -> "LOGIC_AND" [] o = "||" -> "LOGIC_OR"
       [] o = "==" -> "EQU"   [] o = "!=" -> "NOT_EQU" [] o = ">" -> "GT" [] o = "<" -> "LT"
       [] o = ">=" -> "GTE"   [] o = "<=" -> "LTE" [] o = "!" -> "NOT"
       [] o = "instanceof" -> "INSTANCEOF"]

\* Mutant: the left side is not kept for the assignment.
ComputedOnly(op) ==
  CASE op = "+=" -> <<Ins("ADD")>>             [] op = "*=" -> <<Ins("MUL")>>
    [] op = "-=" -> <<Ins("NEG"), Ins("ADD")>> [] op = "/=" -> <<Ins("DIV")>>
    [] op = "%=" -> <<Ins("MOD")>>             [] OTHER -> <<>>

\* What an assignment with an operator computes before it stores.
Computed(op) ==
  CASE op = "+=" -> <<Keep("ADD")>>            [] op = "*=" -> <<Keep("MUL")>>
    [] op = "-=" -> <<Ins("NEG"), Keep("ADD")>> [] op = "/=" -> <<Keep("DIV")>>
    [] op = "%=" -> <<Keep("MOD")>>            [] OTHER -> <<>>

\* The instruction at an index may be assigned to; one past the end is not
\* an instruction of this statement.
IsVariable(code, i) ==
  /\ i + 1 \in DOMAIN code
  /\ LET ins == code[i + 1] IN
     \/ ins.op = "LOAD" /\ ins.load \notin {"constant", "class", "string"}
     \/ ins.op \in {"VGET", "DECL_VEC"}

\* The l-value check reads the instruction at index left after the operator
\* of a compound assignment is written.
insertOperatorInstruction(op, left, code) ==
  LET all    == code \o Computed(op)
      asm_op == IF op \in parsePunctuatorGroup0 THEN "STORE"
                ELSE IF op \in DOMAIN puntuator2instruction THEN puntuator2instruction[op]
                ELSE "none"
  IN  IF op = "." THEN Written(code, 0, 0)
      ELSE IF asm_op = "none" \/ (asm_op = "STORE" /\ ~IsVariable(code, left)) THEN NotWritten
      ELSE Written(Append(all, Ins(asm_op)), 0, 0)

\* What the sign in front of a node adds to the instructions: ++ and -- go to
\* the instruction written last, whatever it is.
Signed(info, code) ==
  CASE info = "!" -> Append(code, Ins("NOT"))
    [] info = "-" -> Append(code, Ins("NEG"))
    [] info \in {"++", "--"} -> [code EXCEPT ![Len(code)].info = info]
    [] OTHER -> code

RECURSIVE gacExpression_Recursive(_, _, _, _), gacExpression_FunctionOrArrayAccess(_, _, _)

\* An expression of its own inside the statement: an argument, an index ...
gacExpression(node, code) == gacExpression_Recursive(node, <<>>, code, Len(code))

\* Each node of a list as an expression of its own, followed by some more
\* instructions.
EachThen(nodes, after, code) ==
  FoldLeft(LAMBDA w, n :
             LET e == gacExpression(n, w.code)
             IN  IF ~w.ok \/ ~e.ok THEN NotWritten ELSE Written(e.code \o after, 0, 0),
           Written(code, 0, 0), nodes)

gacExpression_ArrayObject(nodes, code) ==
  EachThen(nodes, <<Ins("VPUSH")>>, Append(code, Ins("DECL_VEC")))

(***************************************************************************)
(* Calls and indexes.  The call of a member makes its load the load of a   *)
(* function (the linker does it, CScriptClass.cpp).                        *)
(***************************************************************************)
AsFunction(code, i) ==
  IF code[i + 1].op = "LOAD" /\ code[i + 1].load = "member"
  THEN [code EXCEPT ![i + 1].load = "method"] ELSE code

gacExpression_FunctionOrArrayAccess(node, ctx, code) ==
  LET literal == node.name = "["
      kids    == IF literal THEN Tail(node.kids) ELSE node.kids
      object  == IF literal THEN gacExpression_ArrayObject(node.kids[1].kids, code)
                 ELSE IF node.name = "--" THEN Written(code, 0, 0)
                 ELSE insertLoadValueInstruction(node.name, "none", ctx, code)
      call_index == getCurrentInstructionIndex(object.code)
      list    == EachThen(kids[1].kids, IF node.kind = "index" THEN <<Ins("VGET")>> ELSE <<>>,
                          object.code)
      post    == IF node.info \in Post THEN node.info ELSE "none"
      done    == IF node.kind = "index" THEN [list.code EXCEPT ![Len(list.code)].info = post]
                 ELSE Append(AsFunction(list.code, call_index), [Ins("CALL") EXCEPT !.to = call_index])
  IN  IF ~object.ok \/ ~list.ok THEN NotWritten
      ELSE IF Len(kids) = 2 THEN gacExpression_FunctionOrArrayAccess(kids[2], ctx, done)
      ELSE Written(done, 0, getCurrentInstructionIndex(done))

(***************************************************************************)
(* new Class(arguments) and {name: expression, ...}.                       *)
(***************************************************************************)
gacNew(node, code) ==
  LET object == code \o <<Named("NEW", node.name),
                          [Named("LOAD", node.name) EXCEPT !.load = "constructor"]>>
      list   == EachThen(node.kids[1].kids, <<>>, object)
      done   == Append(list.code, [Ins("CALL") EXCEPT !.to = getCurrentInstructionIndex(object)])
  IN  IF node.name \notin ClassNames \/ ~list.ok THEN NotWritten
      ELSE Written(done, 0, getCurrentInstructionIndex(done))

gacExpression_Struct(node, code) ==
  LET object == Append(code, Ins("DECL_STRUCT"))
      list   == FoldLeft(LAMBDA w, a :
                           LET e == gacExpression(a.kids[1], w.code)
                           IN  IF ~w.ok \/ ~e.ok THEN NotWritten
                               ELSE Written(e.code \o
                                      <<[Named("LOAD", a.name) EXCEPT !.load = "string"],
                                        Ins("PUSH_ATTR")>>, 0, 0),
                         Written(object, 0, 0), node.kids)
  IN  IF ~list.ok THEN NotWritten
      ELSE Written(list.code, 0, getCurrentInstructionIndex(object))

(***************************************************************************)
(* condition ? first : second.  The two jumps of index_instruction are     *)
(* meant for the jump instructions; together they are one too many.        *)
(***************************************************************************)
gacInlineIf(node, code, index) ==
  LET choices == node.kids[2].kids
      test == gacExpression_Recursive(node.kids[1], <<Above("?", 1)>>, code, index)
      jnt  == Len(test.code)
      body == gacExpression_Recursive(choices[1], <<Above(":", 1)>>,
                                      Append(test.code, Ins("JNT")), test.r + 2)
      jmp  == Len(body.code)
      other == gacExpression_Recursive(choices[2], <<Above(":", 2)>>,
                                       Append(body.code, Ins("JMP")), body.r + 3)
      done == [other.code EXCEPT ![jnt + 1].to = jmp + 1, ![jmp + 1].to = Len(other.code)]
  IN  IF Len(choices) # 2 \/ ~test.ok \/ ~body.ok \/ ~other.ok THEN NotWritten
      ELSE Written(done, other.r + 1, other.r)

(***************************************************************************)
(* One node.                                                               *)
(***************************************************************************)
Terminal(node, ctx, code, index) ==
  CASE node.kind = "symbol" ->
         LET w == insertLoadValueInstruction(node.name, node.info, ctx, code)
         IN  [w EXCEPT !.r = index]
    [] node.kind \in {"call", "index"} -> gacExpression_FunctionOrArrayAccess(node, ctx, code)
    [] node.kind = "new"    -> gacNew(node, code)
    [] node.kind = "struct" -> gacExpression_Struct(node, code)

gacExpression_Recursive(node, ctx, code, index) ==
  IF node.kind = "vector" THEN
    [gacExpression_ArrayObject(node.kids, code) EXCEPT !.index = index, !.r = index]
  ELSE IF node.kind # "operator" THEN
    LET w == Terminal(node, ctx, code, index)
    IN  IF ~w.ok THEN NotWritten ELSE Written(Signed(node.info, w.code), w.r + 1, w.r)
  ELSE IF node.op = "?" THEN
    IF Len(node.kids) = 2 /\ node.kids[2].op = ":" THEN gacInlineIf(node, code, index)
    ELSE NotWritten
  ELSE
    LET isField == node.op = "."
        left  == gacExpression_Recursive(node.kids[1], <<Above(node.op, 1)>> \o ctx, code, index)
        right == IF Len(node.kids) = 1 THEN left
                 ELSE gacExpression_Recursive(node.kids[2], <<Above(node.op, 2)>> \o ctx,
                                              left.code, left.index)
        whole == insertOperatorInstruction(node.op, left.r, right.code)
    IN  IF ~left.ok \/ ~right.ok \/ ~whole.ok THEN NotWritten
        ELSE Written(Signed(node.info, whole.code),
                     IF isField THEN right.index ELSE right.index + 1,
                     IF isField THEN right.index - 1 ELSE right.index)

(***************************************************************************)
(* The statement of a text: its tree and its instructions.                 *)
(***************************************************************************)
Compiled(text) ==
  LET p == parseExpression(text)
      w == IF ~p.ok \/ p.rest # <<>> THEN NotWritten ELSE gacExpression(p.node, <<>>)
  IN  [ok |-> w.ok, code |-> w.code, tree |-> p.node]
=============================================================================
