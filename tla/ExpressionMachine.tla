------------------------- MODULE ExpressionMachine -------------------------
(***************************************************************************)
(* The machine that runs one statement made of an expression               *)
(* (src/core/vm/CVirtualMachine.cpp, the instruction loop of               *)
(* execute_internal): a stack of operands, the cells of the script's       *)
(* variables, vectors and structs, and the local variables of the loop     *)
(* that keep their values from one instruction to the next.                *)
(*                                                                         *)
(* Strings, variables of C++ and operators that classes define are left    *)
(* out; what a called function does is given (Body).                       *)
(***************************************************************************)
EXTENDS ExpressionCode, CppExpressions

CONSTANTS
  Compile(_),      \* the compiler: the instructions of a text, and its tree
  Source,          \* the expressions, as trees
  ValueOf,         \* the value of every constant
  Variables,       \* the value of every cell at the start
  Objects,         \* the vectors and structs at the start, with their cells
  NewNames         \* names for objects and cells made on the way

VARIABLES
  source,                  \* the expression that is run
  code,                    \* its instructions
  pc,                      \* the index of the next one, from 0
  stack,                   \* the operands
  cells,                   \* the values of the cells
  objects,                 \* the vectors and structs: class, names and cells
  unused,                  \* the names not taken yet
  instruction_properties,  \* the ++ or -- of the last variable or function loaded
  var_object,              \* the last object VGET found in a variable; "none" at first
  status

vars == <<source, code, pc, stack, cells, objects, unused,
          instruction_properties, var_object, status>>

(***************************************************************************)
(* Values and operands.  The value of an object or a function is its name. *)
(* An operand that stands for a variable has its cell in ref.              *)
(***************************************************************************)
Object(k)   == [t |-> "object", v |-> k]
Function(f) == [t |-> "function", v |-> f]
Nothing     == [t |-> "undefined", v |-> 0]

OperandOf(val, ref) == [val |-> val, ref |-> ref]
Plainly(val)       == OperandOf(val, "none")

\* POP_ONE and POP_TWO
Top(k) == stack[Len(stack) - k]
Popped(k) == SubSeq(stack, 1, Len(stack) - k)

\* The bits of a number with decimals, read as an integer (LOAD_INT_OP).
FloatBits(n) ==
  IF n = 0 THEN 0
  ELSE LET e == CHOOSE k \in 0 .. 30 : 2 ^ k <= Magnitude(n) /\ Magnitude(n) < 2 ^ (k + 1)
           bits == (127 + e) * 2 ^ 23 + (Magnitude(n) - 2 ^ e) * 2 ^ (23 - e)
       IN  IF n > 0 THEN bits ELSE bits - 2147483647 - 1

LOAD_INT_OP(x) == CASE x.t = "number" -> FloatBits(x.v)
                    [] x.t \in {"integer", "boolean"} -> x.v
                    [] OTHER -> 0

(***************************************************************************)
(* The operators.  The result is a sequence with the value, or empty: an   *)
(* error, unless the integers are divided by zero, which is a trap.        *)
(***************************************************************************)
Operators == [ADD |-> "+", MUL |-> "*", DIV |-> "/", MOD |-> "%",
              EQU |-> "==", NOT_EQU |-> "!=", LT |-> "<", GT |-> ">", LTE |-> "<=", GTE |-> ">=",
              SHL |-> "<<", SHR |-> ">>", AND |-> "&", OR |-> "|", XOR |-> "^"]

PROCESS_ARITHMETIC_OPERATION(op, x, y) ==
  CASE {x.t, y.t} = {"integer"} -> <<Int32(Calculate(op, x.v, y.v))>>
    [] {x.t, y.t} \in {{"number"}, Numeric} -> <<Number(Calculate(op, x.v, y.v))>>
    [] OTHER -> <<>>

\* One integer is enough for both operands to be compared as integers.
PROCESS_COMPARE_OPERATION(op, x, y) ==
  CASE "integer" \in {x.t, y.t} -> <<Bool(Compare(op, LOAD_INT_OP(x), LOAD_INT_OP(y)))>>
    [] {x.t, y.t} \in {{"boolean"}, {"number"}} -> <<Bool(Compare(op, x.v, y.v))>>
    [] OTHER -> <<>>

PROCESS_BINARY_OPERATION(op, x, y) ==
  IF {x.t, y.t} = {"integer"} THEN <<Int32(OnBits(op, x.v, y.v))>> ELSE <<>>

PROCESS_LOGIC_OPERATION(op, x, y) ==
  IF {x.t, y.t} # {"boolean"} THEN <<>>
  ELSE <<Bool(IF op = "LOGIC_AND" THEN x.v = 1 /\ y.v = 1 ELSE x.v = 1 \/ y.v = 1)>>

IsInstance(x, class) ==
  CASE x.t = "integer"  -> class = "int"  [] x.t = "number"   -> class = "number"
    [] x.t = "boolean"  -> class = "bool" [] x.t = "function" -> class = "function"
    [] x.t = "object"   -> class = objects[x.v].class
    [] OTHER            -> FALSE

Trapped(op, x, y) == op \in {"DIV", "MOD"} /\ {x.t, y.t} = {"integer"} /\ y.v = 0

ResultOf(op, x, y) ==
  IF op \in {"LOGIC_AND", "LOGIC_OR"} THEN PROCESS_LOGIC_OPERATION(op, x, y)
  ELSE IF Operators[op] \in Comparison THEN PROCESS_COMPARE_OPERATION(Operators[op], x, y)
  ELSE IF Operators[op] \in BitOps THEN PROCESS_BINARY_OPERATION(Operators[op], x, y)
  ELSE PROCESS_ARITHMETIC_OPERATION(Operators[op], x, y)

(***************************************************************************)
(* Steps.                                                                  *)
(***************************************************************************)
Current == code[pc + 1]

OnStack(t) == {k \in DOMAIN stack : stack[k].val.t = t}

\* CALL looks for the function from the top of the operands down.
Callee == CHOOSE k \in OnStack("function") : \A l \in OnStack("function") : l <= k

\* The operands an instruction reads.
Enough ==
  CASE Current.op \in {"JMP", "NEW", "DECL_VEC", "DECL_STRUCT"} -> TRUE
    [] Current.op = "LOAD" -> Current.load \in {"member", "method", "constructor"} => stack # <<>>
    [] Current.op \in {"NOT", "NEG", "JNT"} -> stack # <<>>
    [] Current.op = "CALL"      -> OnStack("function") # {}
    [] Current.op = "PUSH_ATTR" -> Len(stack) >= 3
    [] OTHER                    -> Len(stack) >= 2

At(ops) == /\ status = "running" /\ pc < Len(code) /\ Enough
           /\ Current.op \in ops
AtLoad(loads) == At({"LOAD"}) /\ Current.load \in loads

Goes(operands) == /\ stack' = operands
                  /\ pc' = pc + 1
                  /\ UNCHANGED <<source, code, status>>
Stops(s) == /\ status' = s
            /\ UNCHANGED <<source, code, pc, stack>>

UnchangedMemory == UNCHANGED <<cells, objects, unused>>
UnchangedLocals == UNCHANGED <<instruction_properties, var_object>>

\* A variable, an element or an attribute becomes an operand.  ++ and -- change
\* it and leave a copy, to which nothing can be assigned.
PushCell(c, operands, info) ==
  LET new == [cells[c] EXCEPT !.v = IF info \in {"++", "post++"} THEN @ + 1 ELSE @ - 1]
  IN  /\ UNCHANGED <<objects, unused>>
      /\ \/ /\ info = "none"
            /\ Goes(Append(operands, OperandOf(cells[c], c)))
            /\ UNCHANGED cells
         \/ /\ info # "none" /\ cells[c].t \in Numeric
            /\ cells' = [cells EXCEPT ![c] = new]
            /\ Goes(Append(operands, Plainly(IF info \in Post THEN cells[c] ELSE new)))
         \/ /\ info # "none" /\ cells[c].t \notin Numeric
            /\ Stops("failed") /\ UNCHANGED cells

LoadConstant ==
  /\ AtLoad({"constant", "class", "string"})
  /\ Goes(Append(stack, Plainly(IF Current.load = "constant" THEN ValueOf[Current.name]
                                ELSE [t |-> "string", v |-> Current.name])))
  /\ UnchangedMemory /\ UnchangedLocals

LoadVariable ==
  /\ AtLoad({"variable"})
  /\ PushCell(Current.name, stack, Current.info)
  /\ instruction_properties' = Current.info
  /\ UNCHANGED var_object

\* The object an operand stands for: what its variable holds now.
ObjectOf(x) == IF x.ref # "none" THEN cells[x.ref] ELSE x.val

PositionOf(o, name) == {k \in DOMAIN objects[o].names : objects[o].names[k] = name}

LoadMember ==
  /\ AtLoad({"member"})
  /\ LET o == ObjectOf(Top(0)) IN
     IF o.t = "object" /\ PositionOf(o.v, Current.name) # {}
     THEN PushCell(objects[o.v].cells[CHOOSE k \in PositionOf(o.v, Current.name) : TRUE],
                   Popped(1), Current.info)
     ELSE Stops("failed") /\ UnchangedMemory
  /\ instruction_properties' = Current.info
  /\ UNCHANGED var_object

\* The function to be called; a method takes its object from the operands,
\* a constructor leaves it there.
LoadFunction ==
  /\ AtLoad({"function", "method", "constructor"})
  /\ IF Current.load = "function" \/ ObjectOf(Top(0)).t = "object"
     THEN Goes(Append(Popped(IF Current.load = "method" THEN 1 ELSE 0),
                      Plainly(Function(Current.name))))
     ELSE Stops("failed")
  /\ instruction_properties' = Current.info
  /\ UNCHANGED var_object /\ UnchangedMemory

\* An index.  The ++ or -- is the one of the last variable loaded, and an object
\* that is no variable leaves the object of the VGET before.
VGet ==
  /\ At({"VGET"})
  /\ LET fromVariable == Top(1).val.t = "object" /\ Top(1).ref # "none"
         o == IF fromVariable THEN ObjectOf(Top(1)).v ELSE var_object
         i == Top(0).val
     IN  /\ var_object' = o
         /\ IF /\ o # "none" /\ objects[o].class = "vector"
               /\ i.t = "integer" /\ i.v + 1 \in DOMAIN objects[o].cells
            THEN PushCell(objects[o].cells[i.v + 1], Popped(2), instruction_properties)
            ELSE Stops("failed") /\ UnchangedMemory
  /\ UNCHANGED instruction_properties

Operator ==
  /\ At(DOMAIN Operators \union {"LOGIC_AND", "LOGIC_OR"})
  /\ LET x == Top(1).val
         y == Top(0).val
     IN  IF Trapped(Current.op, x, y) THEN Stops("trapped")
         ELSE LET r == ResultOf(Current.op, x, y) IN
              IF r = <<>> THEN Stops("failed")
              ELSE Goes(Append(Popped(IF Current.keep THEN 1 ELSE 2), Plainly(r[1])))
  /\ UnchangedMemory /\ UnchangedLocals

InstanceOf ==
  /\ At({"INSTANCEOF"})
  /\ Goes(Append(Popped(2), Plainly(Bool(IsInstance(ObjectOf(Top(1)), Top(0).val.v)))))
  /\ UnchangedMemory /\ UnchangedLocals

NotOrNeg ==
  /\ At({"NOT", "NEG"})
  /\ LET x == Top(0).val IN
     IF Current.op = "NOT" /\ x.t = "boolean" THEN Goes(Append(Popped(1), Plainly(Bool(x.v = 0))))
     ELSE IF Current.op = "NEG" /\ x.t \in Numeric
          THEN Goes(Append(Popped(1), Plainly([x EXCEPT !.v = -@])))
          ELSE Stops("failed")
  /\ UnchangedMemory /\ UnchangedLocals

\* An assignment takes the present value of a variable on its right side and
\* leaves it as its own value, to which nothing can be assigned.
Store ==
  /\ At({"STORE"})
  /\ LET val == ObjectOf(Top(0)) IN
     IF Top(1).ref = "none" THEN Stops("failed") /\ UNCHANGED cells
     ELSE /\ cells' = [cells EXCEPT ![Top(1).ref] = val]
          /\ Goes(Append(Popped(2), Plainly(val)))
  /\ UNCHANGED <<objects, unused>> /\ UnchangedLocals

\* An element of a vector or an attribute of a struct under construction.  The
\* operand is not followed to its variable: an object in a variable is taken
\* for what lies at the variable's place.
Push ==
  /\ At({"VPUSH", "PUSH_ATTR"})
  /\ LET isAttr == Current.op = "PUSH_ATTR"
         x      == IF isAttr THEN Top(1) ELSE Top(0)
         name   == IF isAttr THEN Top(0).val.v ELSE ""
         rest   == Popped(IF isAttr THEN 2 ELSE 1)
         o      == rest[Len(rest)].val
     IN  IF \/ o.t # "object"
            \/ objects[o.v].class # (IF isAttr THEN "struct" ELSE "vector")
            \/ isAttr /\ PositionOf(o.v, name) # {}
         THEN Stops("failed") /\ UnchangedMemory
         ELSE IF x.val.t = "object" /\ x.ref # "none" THEN Stops("undefined") /\ UnchangedMemory
         ELSE /\ unused # <<>>
              /\ cells' = (Head(unused) :> x.val) @@ cells
              /\ objects' = [objects EXCEPT ![o.v].names = Append(@, name),
                                            ![o.v].cells = Append(@, Head(unused))]
              /\ unused' = Tail(unused)
              /\ Goes(rest)
  /\ UnchangedLocals

Create ==
  /\ At({"DECL_VEC", "DECL_STRUCT", "NEW"})
  /\ unused # <<>>
  /\ LET class == CASE Current.op = "DECL_VEC" -> "vector" [] Current.op = "DECL_STRUCT" -> "struct"
                    [] OTHER -> Current.name
     IN  objects' = (Head(unused) :> [class |-> class, names |-> <<>>, cells |-> <<>>]) @@ objects
  /\ unused' = Tail(unused)
  /\ Goes(Append(stack, Plainly(Object(Head(unused)))))
  /\ UNCHANGED cells /\ UnchangedLocals

\* A call gives the operands above the function as arguments.
Call ==
  /\ At({"CALL"})
  /\ LET args == SubSeq(stack, Callee + 1, Len(stack))
         f    == stack[Callee].val.v
         rest == SubSeq(stack, 1, Callee - 1)
     IN  Goes(IF f \in ClassNames THEN rest
              ELSE Append(rest, Plainly(Body(f, IF args = <<>> THEN Nothing ELSE args[1].val))))
  /\ UnchangedMemory /\ UnchangedLocals

\* JNT looks at the bits of its operand, of whatever type.
Zero(x) == x.t \notin {"function", "string"} /\ (x.t \in Numeric \union {"boolean"} => x.v = 0)

Jump ==
  /\ At({"JMP", "JNT"})
  /\ LET jumps == Current.op = "JNT" => Zero(Top(0).val) IN
     pc' = IF jumps THEN Current.to ELSE pc + 1
  /\ stack' = IF Current.op = "JNT" THEN Popped(1) ELSE stack
  /\ UNCHANGED <<source, code, status>> /\ UnchangedMemory /\ UnchangedLocals

Underflow ==
  /\ status = "running" /\ pc < Len(code) /\ ~Enough
  /\ Stops("underflow") /\ UnchangedMemory /\ UnchangedLocals

EndStatement ==
  /\ status = "running" /\ pc = Len(code)
  /\ Stops("done") /\ UnchangedMemory /\ UnchangedLocals

(***************************************************************************)
(* The specification.                                                      *)
(***************************************************************************)
Init ==
  /\ source \in Source
  /\ LET c == Compile(TextOf(source))
     IN  code = c.code /\ status = IF c.ok THEN "running" ELSE "refused"
  /\ pc = 0 /\ stack = <<>>
  /\ cells = Variables /\ objects = Objects /\ unused = NewNames
  /\ instruction_properties = "none" /\ var_object = "none"

Next == LoadConstant \/ LoadVariable \/ LoadMember \/ LoadFunction \/ VGet \/ Operator
          \/ InstanceOf \/ NotOrNeg \/ Store \/ Push \/ Create \/ Call \/ Jump
          \/ Underflow \/ EndStatement

Spec == Init /\ [][Next]_vars /\ WF_vars(Next)

(***************************************************************************)
(* Properties.                                                             *)
(***************************************************************************)
Reference == Eval(source, Variables @@ ValueOf)
SameValue(x, y) == x.t = y.t /\ x.v = y.v

AsCpp == /\ status = "done"
         /\ SameValue(Top(0).val, Reference.val)
         /\ \A c \in DOMAIN Variables : SameValue(cells[c], Reference.m[c])

\* A plain expression with a value in C++ comes to the same value in the script
\* and leaves the same values in its variables: what TEST_ARITHMETIC_INT_EXPR
\* and its like (zs_test.cpp) test for some expressions.
PlainRunsAsCpp == Plain(source) /\ status # "running" /\ Reference.ok => AsCpp

\* Every expression with a value in C++ comes to it in the script: what those
\* tests say of the expressions given to them, without exception.
RunsAsCpp == status # "running" /\ Reference.ok => AsCpp

RECURSIVE Yield(_)
\* The tokens of a tree from the left to the right, without parentheses.
Yield(n) ==
  LET Kids(first) == FlattenSeq([k \in 1 .. Len(n.kids) - first + 1 |-> Yield(n.kids[k + first - 1])])
      text == CASE n.kind = "operator" ->
                     IF Len(n.kids) = 1 THEN <<n.op>> \o Yield(n.kids[1])
                     ELSE Yield(n.kids[1]) \o <<n.op>> \o Yield(n.kids[2])
                [] n.kind = "new"                -> <<"new", n.name>> \o Kids(1)
                [] n.kind \in {"call", "index"}  ->
                     (IF n.name \in {"--", "["} THEN <<>> ELSE <<n.name>>) \o Kids(1)
                [] n.kind \in {"symbol", "attribute"} -> <<n.name>> \o Kids(1)
                [] OTHER -> Kids(1)
  IN  CASE n.info = "none"   -> text
        [] n.info = "post++" -> text \o <<"++">>
        [] n.info = "post--" -> text \o <<"--">>
        [] OTHER             -> <<n.info>> \o text

\* A subtraction stands in the tree as the addition of a negative.
Spelled(text) ==
  FlattenSeq([k \in DOMAIN text |->
    IF text[k] \in {"(", ")", "[", "]", "{", "}", ",", ":"} THEN <<>>
    ELSE IF text[k] = "-" /\ k > 1 /\ (IsWord(text[k - 1]) \/ text[k - 1] \in {")", "]", "++", "--"})
         THEN <<"+", "-">> ELSE <<text[k]>>])

\* An operator without its right side, a plus before a parenthesis and the call
\* of what is no function are accepted but cannot run; a function given as an
\* argument is called instead.
Unbalanced(e) ==
  LET text == TextOf(e) IN
  \/ text[Len(text)] \in OperatorTokens \ {"++", "--"}
  \/ text[1] = "+"
  \/ \E k \in 2 .. Len(text) : text[k] = "(" /\ text[k - 1] \in {")", "]"} \union Globals
  \/ \E k \in DOMAIN text : /\ text[k] \in FunctionNames
                            /\ k > 1 /\ text[k - 1] \in {"(", ",", "["}
                            /\ text[k + 1] \notin {"("}

LosesTokens(e) == \E x \in Parts(e) : SignedTwice(x) \/ CutAfterAccess(x) \/ SignBefore(x)

\* The tree of an accepted text has every operand and operator of it once and in
\* order, however the parser cut it, save for the texts above and three forms: a
\* sign before a packed right side, a packed text that begins with an access, a
\* sign before ++ or --.
TreeKeepsTokens ==
  pc = 0 /\ status = "running" /\ ~LosesTokens(source) /\ ~Unbalanced(source) =>
    SelectSeq(Yield(Compile(TextOf(source)).tree), LAMBDA w : w # ":") = Spelled(TextOf(source))

\* The instructions of every other accepted text, plain or not, never miss an
\* operand and leave exactly one: the value of the statement.
OneValueLeft ==
  ~Unbalanced(source) => /\ status # "underflow"
                         /\ status = "done" => Len(stack) = 1

\* Of two operators that begin alike the parser reads the longer one, as C++
\* does: the order of its table and the tests of the next character agree.
LongestIsRead ==
  pc = 0 =>
    \A k \in DOMAIN TextOf(source) :
      LET o == TextOf(source)[k]
          next == IF k < Len(TextOf(source)) THEN TextOf(source)[k + 1] ELSE "end"
          d == IF o \notin OperatorTokens \/ Characters[o][2] # "" THEN ""
               ELSE IF next \in OperatorTokens THEN Characters[next][1] ELSE ""
      IN  o \in OperatorTokens =>
            isOperatorPunctuator(Characters[o][1], IF d = "" THEN Characters[o][2] ELSE d) =
              (IF \E p \in OperatorTokens : Characters[p] = <<Characters[o][1], d>> /\ d # ""
               THEN CHOOSE p \in OperatorTokens : Characters[p] = <<Characters[o][1], d>>
               ELSE o)
=============================================================================
