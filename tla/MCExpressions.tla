--------------------------- MODULE MCExpressions ---------------------------
(* Small expressions of every kind for ExpressionMachine: two operators of   *)
(* integers around two others, and some texts that only the script has.      *)
EXTENDS ExpressionMachine

MCConstants == {"1", "2", "3", "4.0", "true"}
MCGlobals   == {"a", "b", "t", "d", "v", "s"}
MCFunctions == {"f"}
MCClasses   == {"int", "number", "vector"}

MCVectors == "v" :> <<"v0", "v1">>
MCStructs == "s" :> ("x" :> "sx")
MCBody(f, x) == IF x.t = "integer" THEN Int32(x.v + 10) ELSE x

MCValueOf == [w \in MCConstants |->
                CASE w = "true" -> Bool(TRUE) [] w = "4.0" -> Number(4)
                  [] w = "1" -> Int32(1) [] w = "2" -> Int32(2) [] w = "3" -> Int32(3)]
MCVariables == [a |-> Int32(5), b |-> Int32(-7), t |-> Bool(TRUE), d |-> Number(3),
                v |-> Object("V"), s |-> Object("S"),
                v0 |-> Int32(20), v1 |-> Int32(30), sx |-> Int32(40)]
MCObjects == [V |-> [class |-> "vector", names |-> <<"", "">>, cells |-> <<"v0", "v1">>],
              S |-> [class |-> "struct", names |-> <<"x">>, cells |-> <<"sx">>]]
MCNewNames == <<"n1", "n2", "n3", "n4", "n5">>

a == Word("a")
b == Word("b")
t == Word("t")
One == Word("1")
Two == Word("2")
Atoms    == {a, b, Two}
Element  == Expr("index", "v", <<One>>)
Field    == Expr("member", "x", <<Word("s")>>)
Accesses == {Element, Field, Expr("call", "f", <<a>>)}
IntOps   == {"+", "-", "*", "/"}
Steps    == {"pre++", "post++", "pre--", "post--"}

Sums    == {Binary(o, x, y) : o \in IntOps, x \in {a, b}, y \in {Two, b}}
Signs   == {Unary("neg", x) : x \in {a, Two}} \union {Unary(o, a) : o \in Steps}
Ints1   == Accesses \union Signs \union Sums
Bools1  == {t, Unary("not", t)}
           \union {Binary(o, x, y) : o \in {"<", "==", "!="}, x \in {a, Two}, y \in {b, Two}}
Ints2   == {Binary(o, x, y) : o \in IntOps, x \in Ints1, y \in Atoms \union Ints1}
           \union {Binary(o, x, y) : o \in IntOps \union {"%"}, x \in Atoms, y \in Ints1}
           \union {Unary("neg", e) : e \in Ints1} \union {Unary(o, Element) : o \in Steps}
           \union {Expr("index", "v", <<e>>) : e \in Ints1}
           \union {Expr("call", "f", <<e>>) : e \in Ints1}
           \union {Expr("?:", "", <<c, x, y>>) : c \in Bools1, x \in {a, Two}, y \in Ints1}
           \union {Binary(o, x, y) : o \in Assign, x \in {a, Element, Field}, y \in Ints1}
Bools2  == {Binary(o, x, y) : o \in {"<", ">=", "==", "!="}, x \in Ints1, y \in Atoms \union Sums}
           \union {Binary(o, x, y) : o \in {"&&", "||"}, x \in Bools1,
                                     y \in Bools1 \union {Binary("&&", t, t), Binary("||", t, t)}}
           \union {Unary("not", e) : e \in Bools1}
Numbers == {Binary(o, x, y) : o \in IntOps \union {"<", "=="}, x \in {Word("d"), Word("4.0")},
                              y \in {Word("4.0"), Word("d")}}
Shifts  == {Binary(o, x, y) : o \in BitOps, x \in {a, b, Binary("+", a, Two), Binary("&", a, b)},
                              y \in {Two, Binary("*", Two, One), Binary("+", One, Two), Binary("==", a, b)}}
           \union {Binary(o, Binary(p, a, Two), x) :
                     o \in {"+", "-", "<", "=="}, p \in BitOps, x \in {a, Binary("&", b, Two)}}
Three   == {Binary(o, Binary(p, x, Two), y) :
              o \in IntOps, p \in IntOps,
              x \in {Binary(q, a, b) : q \in IntOps}, y \in {a, Binary("+", a, b)}}

Scripts == {Script(w) : w \in {
  <<"[", "a", ",", "2", "*", "b", "]">>, <<"[", "f", "(", "a", ")", ",", "[", "1", "]", "]">>,
  <<"[", "1", ",", "2", "]", "[", "1", "]">>, <<"v", "[", "0", "]", "[", "1", "]">>,
  <<"v", "[", "1", "]", "[", "2", "]">>, <<"v", "[", "1", "]", "++">>,
  <<"{", "x", ":", "a", ",", "y", ":", "[", "1", "]", "}">>, <<"{", "x", ":", "1", ",", "x", ":", "2", "}">>,
  <<"s", ".", "x", ".", "x">>, <<"s", ".", "g", "(", "a", ")">>, <<"s", ".", "x", "++">>,
  <<"new", "number", "(", "a", ")">>, <<"new", "vector", "(", ")">>, <<"new", "a", "(", ")">>,
  <<"a", "instanceof", "int">>, <<"v", "instanceof", "vector">>, <<"d", "instanceof", "int">>,
  <<"f", "(", "a", ")", "instanceof", "number">>, <<"(", "a", "instanceof", "int", ")", "&&", "t">>,
  <<"f">>, <<"f", "(", ")">>, <<"f", "(", "a", ",", "b", ")">>, <<"f", "(", "f", ")">>,
  <<"[", "v", "]">>, <<"a", "*">>, <<"+", "(", "a", ")">>, <<"a", "++", "++">>, <<"1", "++">>,
  <<"t", "++">>, <<"t", "+", "a">>, <<"-", "t">>, <<"1", "=", "a">>, <<"a", "+", "b", "=", "2">>,
  <<"t", "&", "a">>, <<"a", "(", "b", ")">>, <<"f", "(", "a", ")", "(", "b", ")">>, <<"a", "<=", "b">>, <<"a", ">", "-", "b">>, <<"a", "/", "0">>, <<"c">>}}

MCSource == Atoms \union Ints1 \union Bools1 \union Ints2 \union Bools2 \union Numbers
            \union Shifts \union Three \union Scripts

\* A sum or difference before a sum in parentheses.
MCSignedSums == {Binary(o, Binary(p, x, y), Binary(q, x, y)) :
                   o \in {"+", "-"}, p \in {"+", "-"}, q \in {"+", "-"},
                   x \in {a, Two, Element}, y \in {b, Two, Field}}
=============================================================================
