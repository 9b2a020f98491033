---------------------------- MODULE Expressions ----------------------------
(***************************************************************************)
(* The parser of expressions (src/core/CASTNode.cpp): how the text of an   *)
(* expression becomes a tree.  The parser has no grammar: it scans the     *)
(* text for the first operator of the weakest group, cuts the text there,  *)
(* parses both sides again from the same group on, and tries the next      *)
(* group when no operator of this one is there.                            *)
(*                                                                         *)
(* A text is a sequence of tokens, separated by blanks.  A word (a name or *)
(* a constant) is a token; how its characters are read is left out.  The   *)
(* operators are also given with their characters, because which operator  *)
(* the parser sees depends on the order in which it tries them.            *)
(***************************************************************************)
EXTENDS Integers, Sequences, FiniteSets

(***************************************************************************)
(* The operators, in the order of the enumeration PUNCTUATOR_TYPE, which   *)
(* is the order isOperatorPunctuator tries them in.                        *)
(***************************************************************************)
PunctuatorOrder ==
  << "<<", ">>", "&&", "||", "==", "!=", ">=", "<=", "instanceof", "++", "--",
     "+", "-", "*", "/", "%", ".", "=", "+=", "-=", "*=", "/=", "%=",
     "^", "&", "|", ">", "<", "!", "?", ":" >>

OperatorTokens == {PunctuatorOrder[k] : k \in DOMAIN PunctuatorOrder}

\* The first two characters of an operator's text ("" when it has only one).
Characters ==
  [o \in OperatorTokens |->
     CASE o = "<<" -> <<"<", "<">>   [] o = ">>" -> <<">", ">">>
       [] o = "&&" -> <<"&", "&">>   [] o = "||" -> <<"|", "|">>
       [] o = "==" -> <<"=", "=">>   [] o = "!=" -> <<"!", "=">>
       [] o = ">=" -> <<">", "=">>   [] o = "<=" -> <<"<", "=">>
       [] o = "++" -> <<"+", "+">>   [] o = "--" -> <<"-", "-">>
       [] o = "+=" -> <<"+", "=">>   [] o = "-=" -> <<"-", "=">>
       [] o = "*=" -> <<"*", "=">>   [] o = "/=" -> <<"/", "=">>
       [] o = "%=" -> <<"%", "=">>   [] o = "instanceof" -> <<"i", "n">>
       [] OTHER    -> <<o, "">>]

\* Mutant: whatever follows.
OneCharacterAlways(o, c, d) == c = o

\* parsePlusPunctuator ... parseModPunctuator: one character, unless the next
\* one makes it another operator.
OneCharacter(o, c, d) ==
  /\ c = o
  /\ d \notin (CASE o \in {"+", "-", "&", "|"}            -> {o, "="}
                 [] o \in {"*", "/", "%", "^", "=", "!"}  -> {"="}
                 [] o \in {"<", ">"}                      -> {o}
                 [] OTHER                                 -> {})

\* The operators of two characters (parseAddAssignPunctuator, ...).
TwoCharacters(o, c, d) == <<c, d>> = Characters[o]

Recognises(o, c, d) ==
  IF Characters[o][2] = "" THEN OneCharacter(o, c, d) ELSE TwoCharacters(o, c, d)

\* The first operator of the table whose parse function accepts the text.
isOperatorPunctuator(c, d) ==
  LET found == {k \in DOMAIN PunctuatorOrder : Recognises(PunctuatorOrder[k], c, d)}
  IN  IF found = {} THEN "none"
      ELSE PunctuatorOrder[CHOOSE k \in found : \A l \in found : k <= l]

(***************************************************************************)
(* The groups, from the weakest to the strongest.                          *)
(***************************************************************************)
parsePunctuatorGroup0 == {"=", "+=", "-=", "*=", "/=", "%="}
parsePunctuatorGroup1 == {"?", ":"}
parsePunctuatorGroup2 == {"&&", "||"}
parsePunctuatorGroup3 == {"==", "<=", ">=", ">", "<", "instanceof"}
\* Mutant: a product binds like a sum.
GroupOfSumsAndProducts == {"+", "-", "*", "^", "&", "|", "<<", ">>"}
parsePunctuatorGroup4 == {"+", "-", "^", "&", "|", "<<", ">>"}
parsePunctuatorGroup5 == {"!="}
parsePunctuatorGroup6 == {"*", "/", "%"}
parsePunctuatorGroup7 == {"!"}
parsePunctuatorGroup8 == {"."}

LastGroup == 8

Group ==
  [g \in 0 .. LastGroup |->
     CASE g = 0 -> parsePunctuatorGroup0 [] g = 1 -> parsePunctuatorGroup1
       [] g = 2 -> parsePunctuatorGroup2 [] g = 3 -> parsePunctuatorGroup3
       [] g = 4 -> parsePunctuatorGroup4 [] g = 5 -> parsePunctuatorGroup5
       [] g = 6 -> parsePunctuatorGroup6 [] g = 7 -> parsePunctuatorGroup7
       [] g = 8 -> parsePunctuatorGroup8]

(***************************************************************************)
(* Tokens, texts and nodes.                                                *)
(***************************************************************************)
Special   == {"(", ")", "[", "]", "{", "}", ",", ";"}
Keywords  == {"new"}
IsWord(t) == t \notin OperatorTokens \union Special \union Keywords

First(s) == IF s = <<>> THEN "end" ELSE Head(s)

isMarkEndExpression(s) == First(s) \in {"end", ";", ",", ")", "]", "}"}

\* A node of the tree.  info is pre_post_operator_info; packed says that the
\* text of the node stood in parentheses.
Node(kind, op, name, kids) ==
  [kind |-> kind, op |-> op, name |-> name, kids |-> kids, info |-> "none", packed |-> FALSE]
NoNode == Node("none", "none", "", <<>>)

Parsed(node, rest) == [ok |-> TRUE, node |-> node, rest |-> rest]
Refused            == [ok |-> FALSE, node |-> NoNode, rest |-> <<>>]

\* The tokens of s that come before its suffix rest.
Before(s, rest) == SubSeq(s, 1, Len(s) - Len(rest))

(***************************************************************************)
(* Operators of one operand.                                               *)
(***************************************************************************)
checkPreOperatorPunctuator(s) ==
  IF First(s) \in {"++", "--", "+", "-", "!"} THEN First(s) ELSE "none"

\* ++ or -- belongs to the operand on its left only if an operator or the end
\* of a list follows; the end of a struct is not in the list.
checkPostOperatorPunctuator(s) ==
  IF /\ First(s) \in {"++", "--"}
     /\ First(Tail(s)) \in OperatorTokens \union {"end", ",", ";", ")", "]"}
  THEN "post" \o First(s) ELSE "none"

RECURSIVE parseExpression_Recursive(_, _), parseArgs(_, _, _), MoreArgs(_, _, _)
RECURSIVE functionArrayAccess_Recursive(_), Indexes(_, _), Attributes(_, _), Scan(_, _, _, _)

\* The text of an argument, of an index or of an attribute: it must not be
\* empty, and what follows it is the caller's business.
parseExpression(s) ==
  IF s = <<>> THEN Refused ELSE parseExpression_Recursive(s, 0)

(***************************************************************************)
(* Lists: the arguments of a call, the elements of a vector, an index.     *)
(***************************************************************************)
MoreArgs(close, s, done) ==
  LET e == parseExpression(s) IN
  IF ~e.ok \/ e.node = NoNode THEN Refused
  ELSE LET all == Append(done, e.node) IN
       IF First(e.rest) = "," THEN
         LET next == Tail(e.rest) IN
         IF First(next) \in {close, "end"} THEN Parsed(Node("list", "none", "", all), next)
         ELSE MoreArgs(close, next, all)
       ELSE IF First(e.rest) = close THEN Parsed(Node("list", "none", "", all), e.rest)
       ELSE Refused

parseArgs(open, close, s) ==
  IF First(s) # open THEN Refused
  ELSE IF First(Tail(s)) = "," THEN Refused
  ELSE LET list == IF First(Tail(s)) = close THEN Parsed(Node("list", "none", "", <<>>), Tail(s))
                   ELSE MoreArgs(close, Tail(s), <<>>)
       IN  IF ~list.ok \/ list.rest = <<>> THEN Refused
           ELSE Parsed(list.node, Tail(list.rest))

(***************************************************************************)
(* f(x), v[i], v[i][j], f(x)[i](y): a node "access" with the object        *)
(* reached (its name is filled in by deduceExpression, "--" when it is the *)
(* result of another access and "[" when it is a vector written on the     *)
(* spot, which is then the first child), the arguments or the indexes, and *)
(* the next access, if there is one.                                       *)
(***************************************************************************)
\* Mutant: an index replaces the one before it.
IndexesKeepLast(s, done) ==
  LET e == parseArgs("[", "]", s) IN
  IF ~e.ok THEN (IF done = <<>> THEN Refused ELSE Parsed(Node("list", "none", "", done), s))
  ELSE IF Len(e.node.kids) # 1 THEN Refused
  ELSE Indexes(e.rest, <<e.node.kids[1]>>)

Indexes(s, done) ==
  LET e == parseArgs("[", "]", s) IN
  IF ~e.ok THEN (IF done = <<>> THEN Refused ELSE Parsed(Node("list", "none", "", done), s))
  ELSE IF Len(e.node.kids) # 1 THEN Refused
  ELSE Indexes(e.rest, Append(done, e.node.kids[1]))

functionArrayAccess_Recursive(s) ==
  IF First(s) \notin {"(", "["} THEN Parsed(NoNode, s)
  ELSE LET args == IF First(s) = "(" THEN parseArgs("(", ")", s) ELSE Indexes(s, <<>>)
           ref  == IF First(s) = "(" THEN "call" ELSE "index"
       IN  IF ~args.ok THEN Refused
           ELSE LET next == functionArrayAccess_Recursive(args.rest) IN
                IF ~next.ok THEN Refused
                ELSE Parsed(Node(ref, "none", "--",
                                 IF next.node = NoNode THEN <<args.node>>
                                 ELSE <<args.node, next.node>>),
                            next.rest)

(***************************************************************************)
(* {name: expression, ...} and new Class(arguments).                       *)
(***************************************************************************)
Attributes(s, done) ==
  IF First(s) = "}" THEN Parsed(Node("struct", "none", "", done), Tail(s))
  ELSE IF First(s) = "end" \/ ~IsWord(First(s)) \/ First(Tail(s)) # ":" THEN Refused
  ELSE LET e == parseExpression(SubSeq(s, 3, Len(s))) IN
       IF ~e.ok \/ e.node = NoNode THEN Refused
       ELSE LET all == Append(done, Node("attribute", "none", Head(s), <<e.node>>)) IN
            IF First(e.rest) = "," THEN Attributes(Tail(e.rest), all)
            ELSE IF First(e.rest) = "}" THEN Attributes(e.rest, all)
            ELSE Refused

parseStruct(s) == Attributes(Tail(s), <<>>)

parseNew(s) ==
  IF Len(s) < 3 \/ ~IsWord(s[2]) \/ s[3] # "(" THEN Refused
  ELSE LET args == parseArgs("(", ")", SubSeq(s, 3, Len(s))) IN
       IF ~args.ok THEN Refused ELSE Parsed(Node("new", "none", s[2], <<args.node>>), args.rest)

(***************************************************************************)
(* getSymbolValue: the text of the operand at the start of s, its trailing *)
(* ++ or --, and what follows.  A trivial operand is a word by itself; any *)
(* other one is parsed a second time by deduceExpression.                  *)
(***************************************************************************)
Operand(text, post, trivial, rest) ==
  [ok |-> TRUE, text |-> text, post |-> post, trivial |-> trivial, rest |-> rest]
NoOperand == [ok |-> FALSE, text |-> <<>>, post |-> "none", trivial |-> FALSE, rest |-> <<>>]

PackedOperand(s, pre) ==
  LET e == parseExpression_Recursive(Tail(s), 0) IN
  IF pre \in {"++", "--"} \/ ~e.ok \/ First(e.rest) # ")" \/ e.rest = Tail(s) THEN NoOperand
  ELSE Operand(Before(Tail(s), e.rest), "none", FALSE, Tail(e.rest))

\* The first part of an operand that is not packed, with its ++ or --.
Start(s) ==
  IF First(s) = "[" THEN
    LET e == parseArgs("[", "]", s)
    IN  IF e.ok THEN Operand(Before(s, e.rest), "none", FALSE, e.rest) ELSE NoOperand
  ELSE LET isNew == First(s) = "new"
           word  == IF isNew THEN Tail(s) ELSE s
       IN  IF First(word) = "end" \/ ~IsWord(First(word)) THEN NoOperand
           ELSE LET post == checkPostOperatorPunctuator(Tail(word)) IN
                Operand(Before(s, Tail(word)), post, ~isNew,
                        IF post = "none" THEN Tail(word) ELSE Tail(Tail(word)))

getSymbolValue(s, pre) ==
  IF First(s) = "(" THEN PackedOperand(s, pre)
  ELSE LET start == Start(s) IN
       IF ~start.ok \/ First(start.rest) \notin {"(", "["} THEN start
       ELSE LET e == functionArrayAccess_Recursive(start.rest)
                post == checkPostOperatorPunctuator(e.rest)
            IN  IF ~e.ok THEN NoOperand
                ELSE Operand(Before(s, e.rest), post, FALSE,
                             IF post = "none" THEN e.rest ELSE Tail(e.rest))

(***************************************************************************)
(* deduceExpression: the node of an operand that is not trivial.  A text   *)
(* that begins with an access ends with it: what follows is not parsed.    *)
(***************************************************************************)
deduceExpression(text) ==
  IF First(text) = "new" THEN parseNew(text)
  ELSE IF First(text) = "[" THEN
    LET e == parseArgs("[", "]", text) IN
    IF ~e.ok THEN Refused
    ELSE LET access == functionArrayAccess_Recursive(e.rest) IN
         IF ~access.ok THEN Refused
         ELSE IF access.node = NoNode
              THEN Parsed(Node("vector", "none", "", e.node.kids), access.rest)
              ELSE Parsed([access.node EXCEPT !.name = "[", !.kids = <<e.node>> \o @], access.rest)
  ELSE IF IsWord(First(text)) /\ First(Tail(text)) \in {"(", "["} THEN
    LET access == functionArrayAccess_Recursive(Tail(text)) IN
    IF ~access.ok THEN Refused
    ELSE Parsed([access.node EXCEPT !.name = Head(text)], access.rest)
  ELSE parseExpression_Recursive(text, 0)

(***************************************************************************)
(* The search for an operator of group g.  The result says where the text  *)
(* is cut: op is "none" if no operator of the group is there, and pre is   *)
(* the sign of the last operand read.  A minus is taken in every group; a  *)
(* ++ that belongs to no operand is a plus and the sign of what follows.   *)
(***************************************************************************)
Scan(s, g, some, packed) ==
  LET pre0  == checkPreOperatorPunctuator(s)
      after == IF pre0 = "none" THEN s ELSE Tail(s)
      isPacked == First(after) = "("
      sym   == getSymbolValue(after, pre0)
      pre   == IF isPacked THEN "none" ELSE pre0
      found == First(sym.rest)
      Result(op, p, right) ==
        [ok |-> TRUE, op |-> op, pre |-> p, packedPre |-> IF isPacked THEN pre0 ELSE "none",
         packed |-> packed \/ isPacked, some |-> some \/ op # "none", sym |-> sym,
         cut |-> sym.rest, right |-> right]
      Wrong == [Result("none", pre, <<>>) EXCEPT !.ok = FALSE]
  IN  IF ~sym.ok THEN Wrong
      ELSE IF isMarkEndExpression(sym.rest) THEN Result("none", pre, sym.rest)
      ELSE IF found \notin OperatorTokens THEN Wrong
      ELSE IF found = "++" THEN Result("+", pre, <<"+">> \o Tail(sym.rest))
      ELSE IF found = "--" THEN Result("-", "-", sym.rest)
      ELSE IF found = "-"  THEN Result("-", pre, sym.rest)
      ELSE IF found \in Group[g] THEN Result(found, pre, Tail(sym.rest))
      ELSE IF isMarkEndExpression(Tail(sym.rest))
           THEN [Result("none", pre, Tail(sym.rest)) EXCEPT !.some = TRUE]
      ELSE Scan(Tail(sym.rest), g, TRUE, packed \/ isPacked)

\* The node of a text without operators.  A sign replaces a trailing ++ or --
\* in the node, except ++ or -- in front of it, which are refused.
Value(scan) ==
  LET sym  == scan.sym
      e    == IF sym.trivial THEN Parsed(Node("symbol", "none", Head(sym.text), <<>>), <<>>)
              ELSE deduceExpression(sym.text)
      node == IF ~sym.trivial /\ scan.packed THEN [e.node EXCEPT !.packed = TRUE] ELSE e.node
      signed == IF ~sym.trivial /\ scan.packedPre # "none"
                THEN Node("operator", scan.packedPre, "", <<node>>) ELSE node
      info == IF scan.pre # "none" THEN scan.pre
              ELSE IF sym.post # "none" THEN sym.post ELSE signed.info
  IN  IF ~e.ok \/ e.node = NoNode \/ (scan.pre \in {"++", "--"} /\ sym.post # "none") THEN Refused
      ELSE Parsed([signed EXCEPT !.info = info], scan.right)

\* The node of a text cut at an operator.  The ++, -- or sign of the left side
\* of a "." belongs to the whole access.  A subtraction is the addition of what
\* stands from the minus on.  After a sign on the operand before the operator,
\* a right side in parentheses gets a sign too.
Split(s, scan, g) ==
  LET left  == parseExpression_Recursive(Before(s, scan.cut), g)
      right == parseExpression_Recursive(scan.right, g)
      isField == scan.op = "."
      leftNode == IF isField THEN [left.node EXCEPT !.info = "none"] ELSE left.node
      rightNode == IF scan.pre = "-" /\ right.node.packed
                   THEN Node("operator", "-", "", <<right.node>>) ELSE right.node
      node == Node("operator", IF scan.op = "-" THEN "+" ELSE scan.op, "",
                   IF right.node = NoNode THEN <<leftNode>> ELSE <<leftNode, rightNode>>)
  IN  IF ~left.ok \/ ~right.ok THEN Refused
      ELSE Parsed(IF isField THEN [node EXCEPT !.info = left.node.info] ELSE node, right.rest)

parseExpression_Recursive(s, g) ==
  IF isMarkEndExpression(s) THEN Parsed(NoNode, s)
  ELSE IF g > LastGroup THEN Refused
  ELSE IF First(s) = "{" THEN parseStruct(s)
  ELSE LET scan == Scan(s, g, FALSE, FALSE) IN
       IF ~scan.ok THEN Refused
       ELSE IF scan.op # "none" THEN Split(s, scan, g)
       ELSE IF ~scan.some THEN Value(scan)
       ELSE parseExpression_Recursive(s, g + 1)
=============================================================================
