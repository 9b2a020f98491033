----------------------------- MODULE MCSession -----------------------------
(* Session with the sources that a host evaluates in the runs.              *)
EXTENDS Session

CONSTANTS a, f, g, n, v

Var(x)         == [kind |-> "variable", name |-> x, uses |-> NoName, compiles |-> TRUE]
Function(x, y) == [kind |-> "function", name |-> x, uses |-> y, compiles |-> TRUE]
Use(x)         == [kind |-> "use", name |-> NoName, uses |-> x, compiles |-> TRUE]
Bad(item)      == [item EXCEPT !.compiles = FALSE]
Error          == [kind |-> "error", name |-> NoName, uses |-> NoName, compiles |-> TRUE]
Text(items)       == [file |-> NoName, items |-> items]
File(name, items) == [file |-> name, items |-> items]

MCNames == {a, f, g, n, v}

\* Sources that declare, use before and after, clash with a C++ function or
\* variable, and fail in the parser, in the compiler and in the linker (n may be
\* a C++ function, a script function, one without code once the file that fails
\* was compiled, or nothing).  A file is parsed once, a text as often as the host
\* likes.
MCSources ==
    {Text(<<Var(a), Function(f, n)>>),
     Text(<<Function(g, v), Bad(Var(v))>>),
     File(n, <<Bad(Function(n, NoName)), Error>>),
     File(f, <<Function(n, f), Use(f)>>)}
=============================================================================
