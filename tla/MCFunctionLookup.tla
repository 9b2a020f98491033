-------------------------- MODULE MCFunctionLookup --------------------------
(* A small library for FunctionLookup: functions f, g and h, which override,  *)
(* overload and call each other, of C++ and of scripts, and a metamethod.     *)
EXTENDS FunctionLookup, TLC

Fun(name, params)    == [name |-> name, params |-> params, native |-> FALSE,
                         this |-> NoCall, super |-> NoSuper]
OfCpp(name, params)  == [Fun(name, params) EXCEPT !.native = TRUE]
CallsThis(f, name, n) == [f EXCEPT !.this = [name |-> name, args |-> n]]
CallsSuper(f, n)      == [f EXCEPT !.super = n]

any == <<"any">>

MCGlobals == <<OfCpp("f", <<"int">>), OfCpp("f", <<"float*">>)>>

MCNativeSources ==
    {MCGlobals,
     <<OfCpp("f", <<"string*">>), OfCpp("g", <<>>), OfCpp("f", <<"int*", "int*">>)>>}

MCScriptSources ==
    {<<Fun("constructor", <<>>), Fun("f", any), CallsThis(Fun("g", <<>>), "f", 1)>>,
     <<CallsSuper(Fun("constructor", any), 0), CallsSuper(Fun("f", any), 1)>>,
     <<Fun("f", <<>>), CallsSuper(Fun("f", any), 0), Fun("_add", <<"any", "any">>)>>}

MCExtensions == {CallsThis(Fun("f", <<>>), "f", 1)}

MCSite ==
    {[kind |-> "access",   callee |-> "f",           args |-> 1, position |-> 1],
     [kind |-> "access",   callee |-> "f",           args |-> 2, position |-> 1],
     [kind |-> "access",   callee |-> "constructor", args |-> 0, position |-> 1],
     [kind |-> "nested",   callee |-> "g",           args |-> 0, position |-> 1],
     [kind |-> "global",   callee |-> "f",           args |-> 1, position |-> 1],
     [kind |-> "operator", callee |-> "_add",        args |-> 0, position |-> 1]}

MCArguments == {<<>>, <<"int">>, <<"float">>, <<"text">>, <<"int", "int">>, <<"int", "text">>}

Classes == Permutations(Class \ {Main})
=============================================================================
