--------------------------- MODULE CppExpressions ---------------------------
(***************************************************************************)
(* What the tests of the repository compare with (src/test/zs_test.cpp):   *)
(* the text of an expression is given to the C++ compiler and to the       *)
(* script, and both must come to the same value.  An expression is a tree; *)
(* this module writes it as C++ reads it, with the parentheses it needs,   *)
(* and evaluates it, operands from the left to the right.                  *)
(***************************************************************************)
EXTENDS Integers, Sequences, TLC, Bitwise

CONSTANTS
  Vectors,     \* the variables that hold a vector, with its cells
  Structs,     \* the variables that hold a struct, with its cells by name
  Body(_, _)   \* what a function returns for its argument

\* A value has a type and a number; numbers with decimals are whole here.
Int32(n)  == [t |-> "integer", v |-> n]
Number(n) == [t |-> "number", v |-> n]
Bool(b)   == [t |-> "boolean", v |-> IF b THEN 1 ELSE 0]

Numeric == {"integer", "number"}

\* A division of C++ rounds towards zero and its rest has the sign of the
\* dividend; \div of TLA+ rounds down.
Magnitude(n)   == IF n < 0 THEN -n ELSE n
SignOf(n)      == IF n < 0 THEN -1 ELSE 1
Quotient(m, n) == SignOf(m) * SignOf(n) * (Magnitude(m) \div Magnitude(n))
Rest(m, n)     == SignOf(m) * (Magnitude(m) % Magnitude(n))

Arithmetic == {"+", "-", "*", "/", "%"}
Comparison == {"<", ">", "<=", ">=", "==", "!="}
BitOps     == {"<<", ">>", "&", "|", "^"}
Logic      == {"&&", "||"}
Assign     == {"=", "+=", "-=", "*="}
Operation  == [o \in Assign \ {"="} |-> CASE o = "+=" -> "+" [] o = "-=" -> "-" [] o = "*=" -> "*"]

\* The operators on bits, for integers of Width bits: enough for those here.
Width     == 20
Bits(n)   == n % 2 ^ Width
FromBits(n) == IF n < 2 ^ (Width - 1) THEN n ELSE n - 2 ^ Width
OnBits(op, m, n) ==
  CASE op = "<<" -> m * 2 ^ n [] op = ">>" -> m \div 2 ^ n
    [] op = "&"  -> FromBits(Bits(m) & Bits(n)) [] op = "|" -> FromBits(Bits(m) | Bits(n))
    [] op = "^"  -> FromBits(Bits(m) ^^ Bits(n))

Calculate(op, m, n) ==
  CASE op = "+" -> m + n [] op = "-" -> m - n [] op = "*" -> m * n
    [] op = "/" -> Quotient(m, n) [] op = "%" -> Rest(m, n)

Compare(op, m, n) ==
  CASE op = "<"  -> m < n  [] op = ">"  -> m > n [] op = "<=" -> m <= n
    [] op = ">=" -> m >= n [] op = "==" -> m = n [] op = "!=" -> m # n

(***************************************************************************)
(* Trees.  The operators of one operand are "neg", "not", and ++ and --    *)
(* before or after a cell: a variable, an element or an attribute.  A text *)
(* that only the script has is given by its tokens.                        *)
(***************************************************************************)
Expr(op, name, kids) == [op |-> op, name |-> name, kids |-> kids]
Word(name)           == Expr("word", name, <<>>)
Script(tokens)       == Expr("text", tokens, <<>>)
Unary(op, e)         == Expr(op, "", <<e>>)
Binary(op, l, r)     == Expr(op, "", <<l, r>>)

Prefix  == [o \in {"neg", "not", "pre++", "pre--"} |->
              CASE o = "neg" -> "-" [] o = "not" -> "!" [] o = "pre++" -> "++" [] o = "pre--" -> "--"]
Postfix == [o \in {"post++", "post--"} |-> IF o = "post++" THEN "++" ELSE "--"]

Precedence(op) ==
  CASE op \in Assign                   -> 1
    [] op = "?:"                       -> 2
    [] op = "||"                       -> 3
    [] op = "&&"                       -> 4
    [] op = "|"                        -> 5
    [] op = "^"                        -> 6
    [] op = "&"                        -> 7
    [] op \in {"==", "!="}             -> 8
    [] op \in {"<", ">", "<=", ">="}   -> 9
    [] op \in {"<<", ">>"}             -> 10
    [] op \in {"+", "-"}               -> 11
    [] op \in {"*", "/", "%"}          -> 12
    [] op \in DOMAIN Prefix            -> 13
    [] OTHER                           -> 14

\* The tokens of an expression where at least the given precedence is wanted.
RECURSIVE TextFrom(_, _)
TextFrom(e, least) ==
  LET p == Precedence(e.op)
      Kid(k, level) == TextFrom(e.kids[k], level)
      text ==
        CASE e.op = "word"            -> <<e.name>>
          [] e.op = "text"            -> e.name
          [] e.op = "call"            -> <<e.name, "(">> \o Kid(1, 1) \o <<")">>
          [] e.op = "index"           -> <<e.name, "[">> \o Kid(1, 1) \o <<"]">>
          [] e.op = "member"          -> Kid(1, 14) \o <<".", e.name>>
          [] e.op \in DOMAIN Prefix   -> <<Prefix[e.op]>> \o Kid(1, 13)
          [] e.op \in DOMAIN Postfix  -> Kid(1, 14) \o <<Postfix[e.op]>>
          [] e.op = "?:"              -> Kid(1, 3) \o <<"?">> \o Kid(2, 3) \o <<":">> \o Kid(3, 3)
          [] e.op \in Assign          -> Kid(1, 13) \o <<e.op>> \o Kid(2, 1)
          [] OTHER                    -> Kid(1, p) \o <<e.op>> \o Kid(2, p + 1)
  IN  IF p < least THEN <<"(">> \o text \o <<")">> ELSE text

TextOf(e) == TextFrom(e, 1)

(***************************************************************************)
(* Values.  m gives the value of every cell and of every constant.         *)
(***************************************************************************)
Got(val, m) == [ok |-> TRUE, val |-> val, m |-> m]
Undefined   == [ok |-> FALSE, val |-> Int32(0), m |-> <<>>]

ApplyBinary(op, x, y) ==
  LET both == {x.t, y.t}
      Typed(n) == IF both = {"integer"} THEN Int32(n) ELSE Number(n)
  IN  CASE op \in Arithmetic /\ both \subseteq Numeric /\ (op \in {"/", "%"} => y.v # 0) ->
             <<Typed(Calculate(op, x.v, y.v))>>
        [] op \in BitOps /\ both = {"integer"} /\ (op \in {"<<", ">>"} => y.v \in 0 .. 31) ->
             <<Int32(OnBits(op, x.v, y.v))>>
        [] op \in Comparison /\ (both \subseteq Numeric \/ both = {"boolean"}) ->
             <<Bool(Compare(op, x.v, y.v))>>
        [] OTHER -> <<>>

RECURSIVE Eval(_, _), CellOf(_, _)

\* The cell an expression names, or "none".
CellOf(e, m) ==
  CASE e.op = "word"   -> [cell |-> IF e.name \in DOMAIN m THEN e.name ELSE "none", m |-> m]
    [] e.op = "member" -> [cell |-> Structs[e.kids[1].name][e.name], m |-> m]
    [] e.op = "index"  ->
         LET i == Eval(e.kids[1], m)
         IN  IF i.ok /\ i.val.t = "integer" /\ i.val.v + 1 \in DOMAIN Vectors[e.name]
             THEN [cell |-> Vectors[e.name][i.val.v + 1], m |-> i.m]
             ELSE [cell |-> "none", m |-> m]
    [] OTHER           -> [cell |-> "none", m |-> m]

Changed(e, m) ==
  LET c   == CellOf(e.kids[1], m)
      old == c.m[c.cell]
      new == [old EXCEPT !.v = IF e.op \in {"pre++", "post++"} THEN @ + 1 ELSE @ - 1]
  IN  IF c.cell = "none" \/ old.t \notin Numeric THEN Undefined
      ELSE Got(IF e.op \in DOMAIN Postfix THEN old ELSE new, [c.m EXCEPT ![c.cell] = new])

Assigned(e, m) ==
  LET c == CellOf(e.kids[1], m)
      r == Eval(e.kids[2], c.m)
      new == IF e.op = "=" THEN <<r.val>>
             ELSE ApplyBinary(Operation[e.op], c.m[c.cell], r.val)
  IN  IF c.cell = "none" \/ ~r.ok \/ new = <<>> THEN Undefined
      ELSE Got(new[1], [r.m EXCEPT ![c.cell] = new[1]])

Eval(e, m) ==
  CASE e.op = "text" -> Undefined
    [] e.op \in {"word", "index", "member"} ->
         LET c == CellOf(e, m) IN IF c.cell = "none" THEN Undefined ELSE Got(c.m[c.cell], c.m)
    [] e.op = "call" ->
         LET x == Eval(e.kids[1], m) IN IF x.ok THEN Got(Body(e.name, x.val), x.m) ELSE Undefined
    [] e.op \in {"neg", "not"} ->
         LET x == Eval(e.kids[1], m)
         IN  IF ~x.ok THEN Undefined
             ELSE IF e.op = "neg" /\ x.val.t \in Numeric THEN Got([x.val EXCEPT !.v = -@], x.m)
             ELSE IF e.op = "not" /\ x.val.t = "boolean" THEN Got(Bool(x.val.v = 0), x.m)
             ELSE Undefined
    [] e.op \in {"pre++", "pre--", "post++", "post--"} -> Changed(e, m)
    [] e.op \in Assign -> Assigned(e, m)
    [] e.op = "?:" ->
         LET c == Eval(e.kids[1], m)
         IN  IF ~c.ok \/ c.val.t # "boolean" THEN Undefined
             ELSE Eval(e.kids[IF c.val.v = 1 THEN 2 ELSE 3], c.m)
    [] e.op \in Logic ->
         LET x == Eval(e.kids[1], m)
             y == Eval(e.kids[2], x.m)
         IN  IF ~x.ok \/ x.val.t # "boolean" THEN Undefined
             ELSE IF x.val = Bool(e.op = "||") THEN x
             ELSE IF ~y.ok \/ y.val.t # "boolean" THEN Undefined ELSE y
    [] OTHER ->
         LET x == Eval(e.kids[1], m)
             y == Eval(e.kids[2], x.m)
             r == ApplyBinary(e.op, x.val, y.val)
         IN  IF ~x.ok \/ ~y.ok \/ r = <<>> THEN Undefined ELSE Got(r[1], y.m)

(***************************************************************************)
(* Where the two languages agree.  An expression is Plain if none of its   *)
(* parts is of a form that the script is known to read otherwise than C++; *)
(* every form has a name.  A kid is Packed if it is written in             *)
(* parentheses; what is outside parentheses is one text for the parser.    *)
(***************************************************************************)
Level(e, k) ==
  CASE e.op \in {"call", "index"}    -> 1
    [] e.op = "member"               -> 14
    [] e.op \in DOMAIN Prefix        -> 13
    [] e.op \in DOMAIN Postfix       -> 14
    [] e.op = "?:"                   -> 3
    [] e.op \in Assign               -> IF k = 1 THEN 13 ELSE 1
    [] OTHER                         -> Precedence(e.op) + k - 1

Packed(e, k) == Precedence(e.kids[k].op) < Level(e, k)
Inner(e)     == IF e.op \in {"text", "word", "call", "index"} THEN {} ELSE DOMAIN e.kids
Open(e)      == {e.kids[k] : k \in {j \in Inner(e) : ~Packed(e, j)}}

RECURSIVE Parts(_), Text(_), LastIsSigned(_), FirstIsAccess(_)

\* All the parts of e, and those in the same text as e.
Parts(e) == {e} \union UNION {Parts(e.kids[k]) : k \in DOMAIN e.kids}
Text(e)  == {e} \union UNION {Text(x) : x \in Open(e)}

Effects == Assign \union {"pre++", "pre--", "post++", "post--"}
Changes(e) == \E x \in Parts(e) : x.op \in Effects

\* The text of e ends with an operand after a minus; begins with an access.
LastIsSigned(e) ==
  LET n == Len(e.kids) IN
  /\ Inner(e) # {} /\ ~Packed(e, n) /\ e.op \notin DOMAIN Postfix \union {"member"}
  /\ \/ e.op \in {"neg", "-"} /\ Open(e.kids[n]) = {}
     \/ LastIsSigned(e.kids[n])
FirstIsAccess(e) ==
  \/ e.op \in {"call", "index"}
  \/ Inner(e) # {} /\ e.op \notin DOMAIN Prefix /\ ~Packed(e, 1) /\ FirstIsAccess(e.kids[1])

Factor == {"*", "/", "%"}

\* A subtraction splits its text before any operator but an assignment does.
MinusFirst(e) == /\ e.op \in Comparison \union BitOps \union Logic \union {"?:"}
                 /\ \E x \in Text(e) : x.op = "-"
\* "!=" binds tighter than "+".
UnequalFirst(e) == \/ e.op = "!=" /\ \E x \in Open(e) : Precedence(x.op) < 12
                   \/ e.op \in Comparison /\ \E x \in Open(e) : x.op = "!="
\* The operators of a group associate to the right.
ToTheRight(e) ==
  \/ e.op \in Factor /\ \E x \in Open(e) : x.op \in Factor /\ {e.op, x.op} # {"*"}
  \/ e.op \in Comparison /\ \E x \in Open(e) : x.op \in Comparison
\* The operators on bits are in the group of the sum.
MixedBits(e) == /\ e.op \in BitOps \union Comparison \union {"+", "-"}
                /\ \E x \in Open(e) \union {e} : x.op \in BitOps
                /\ \E x \in Open(e) : x.op \in BitOps \union Comparison \union {"+", "-"}
\* && and || are in the same group.
MixedLogic(e) == e.op \in Logic /\ \E x \in Open(e) : x.op \in Logic \ {e.op}
\* After a sign a packed right side gets a sign, too.
SignedTwice(e) == Len(e.kids) = 2 /\ Packed(e, 2) /\ ~Packed(e, 1) /\ LastIsSigned(e.kids[1])
\* Nothing is read after an access at the beginning of a packed text.
CutAfterAccess(e) == \E k \in Inner(e) : /\ Packed(e, k) /\ FirstIsAccess(e.kids[k])
\* A sign takes the place of a ++ or -- of its operand, and excludes another.
SignBefore(e) ==
  \/ e.op \in {"neg", "not"} /\ e.kids[1].op \in DOMAIN Prefix \union DOMAIN Postfix
  \/ e.op \in Arithmetic /\ ~Packed(e, 2) /\ e.op = "-"
       /\ \E x \in Text(e.kids[2]) : x.op \in DOMAIN Prefix \union DOMAIN Postfix
\* An index takes the ++ of the variable loaded last, never its own.
StaleIndex(e) == \/ e.op = "index" /\ Changes(e.kids[1])
                 \/ e.op \in Effects \ Assign /\ e.kids[1].op = "index"
\* Both sides of && and || are evaluated.
BothSides(e) == e.op \in Logic /\ Changes(e.kids[2])

Plain(e) ==
  e.op # "text" /\ \A x \in Parts(e) :
    ~(\/ MinusFirst(x) \/ UnequalFirst(x) \/ ToTheRight(x) \/ MixedBits(x) \/ MixedLogic(x)
      \/ SignedTwice(x) \/ CutAfterAccess(x) \/ SignBefore(x) \/ StaleIndex(x) \/ BothSides(x))
=============================================================================
