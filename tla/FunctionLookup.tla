--------------------------- MODULE FunctionLookup ---------------------------
(***************************************************************************)
(* Which function a call runs: the tables of the classes (CCompiler.cpp,   *)
(* CScriptClass.cpp), the linker that turns names into indexes into them,  *)
(* and the machine, which searches when a load has no index and then keeps *)
(* the index it found in the instruction (FIND_FUNCTION, CALL,             *)
(* APPLY_METAMETHOD of CVirtualMachine.cpp).                               *)
(*                                                                         *)
(* A function is as its source declares it:                                *)
(*   [name, params, native, this, super]                                   *)
(* params are the types of a C++ function's parameters, "any" for those of *)
(* a script function; this is the call this.name(args) in its body, and    *)
(* super the number of arguments of a call super(args).  The name of a     *)
(* constructor, the one of its class, is "constructor": the copy that a    *)
(* derived class gets of it has the name of that class.                    *)
(*                                                                         *)
(* `heritage`, `seen` and `last` are history.                              *)
(***************************************************************************)
EXTENDS Integers, Sequences, SequencesExt, FiniteSetsExt

CONSTANTS
    Class,          \* the classes; one of them is
    Main,           \* main, whose functions are the global ones
    Globals,        \* what C++ registers for main,
    NativeSources,  \* what it may register for a class,
    ScriptSources,  \* what a class of a script may declare: sequences of functions,
    Extensions,     \* and a function that `function C::f()' may add to it
    Site,           \* [kind, callee, args, position]: a call of a member ("access"), one
                    \* in a function within a function ("nested"), of a global function
                    \* ("global") or an operator on two objects ("operator"), and the
                    \* place of its load in its statement
    Arguments,      \* the lists of kinds of arguments that calls pass
    MaxExtended     \* bound: classes that get functions in a later source

None    == "none"
NoCall  == [name |-> None, args |-> 0]
NoSuper == -1

\* ZS_UNDEFINED_IDX, ZS_FUNCTION_NOT_FOUND_IDX.  Indexes start at 0.
Undefined == -1
NotFound  == -2

VARIABLES
    ancestors,      \* [class -> the classes from its root to itself]
    own,            \* the functions in the node of the class, extensions included
    table,          \* vec_idx_registeredFunction
    linked,         \* the linker has run since the last declaration
    object,         \* an object: its class and the length of its m_functionSymbol
    site,           \* the call in the code of a global function that is looked at
    index_op2,      \* of its load, or of the operator
    heritage,       \* the functions that a class has from each of its ancestors
    seen,           \* what the site was called with since its index was set
    last            \* the last call: what it was and what it ran

vars == <<ancestors, own, table, linked, object, site, index_op2, heritage, seen, last>>

NoFunction == [name |-> None, params |-> <<>>, native |-> FALSE, this |-> NoCall, super |-> NoSuper]
Unseen     == [class |-> None, kinds |-> <<>>]
Mixed      == [class |-> "mixed", kinds |-> <<>>]
NoObject   == [class |-> None, size |-> 0]
NotCalled  == [with |-> Unseen, result |-> None, fun |-> NoFunction]

\* What C++ registers calls nothing; a class is of C++ or of a script.
Kind         == {"int", "float", "text"}
Type         == STRING \ {None}
Function     == [name : STRING, params : Seq(Type), native : BOOLEAN,
                 this : [name : STRING, args : Nat], super : Nat \cup {NoSuper}]
IsOfC(f)     == f.native /\ f.this = NoCall /\ f.super = NoSuper

ASSUME ClassAssumption == Main \in Class /\ Class \cap {None, "mixed"} = {}
ASSUME SourceAssumption ==
    /\ \A funs \in {Globals} \cup NativeSources :
          funs \in Seq(Function) /\ \A k \in DOMAIN funs : IsOfC(funs[k])
    /\ \A funs \in ScriptSources :
          funs \in Seq(Function) /\ \A k \in DOMAIN funs : ~funs[k].native
    /\ \A fun \in Extensions : fun \in Function /\ ~fun.native
ASSUME SiteAssumption ==
    /\ \A s \in Site :
          /\ s \in [kind : {"access", "nested", "global", "operator"}, callee : STRING,
                    args : Nat, position : Nat \ {0}]
          /\ s.callee = "constructor" => s.kind = "access"
    /\ \A kinds \in Arguments : kinds \in Seq(Kind)

At(s, i) == s[i + 1]
Indexes(s) == 0..Len(s) - 1

-----------------------------------------------------------------------------
(* The tables.                                                              *)

Highest(S) == IF S = {} THEN Undefined ELSE Max(S)

Takes(fun, name, n) == fun.name = name /\ Len(fun.params) = n

\* Mutant of getIdxFunctionObject: from the first to the last.
FirstFunctionObject(t, name, n) ==
    LET S == {i \in Indexes(t) : Takes(At(t, i).fun, name, n)}
    IN  IF S = {} THEN Undefined ELSE Min(S)

\* From the last to the first, which is the one of an ancestor.
getIdxFunctionObject(t, name, n) ==
    Highest({i \in Indexes(t) : Takes(At(t, i).fun, name, n)})

\* A function object.  operator says that it is in metamethod_operator too,
\* where only registerFunctionSymbol puts it; this and super are the indexes
\* of the calls in its body.
Entry(fun, operator) ==
    [fun |-> fun, operator |-> operator, linked |-> FALSE, this |-> Undefined, super |-> Undefined]

\* getScriptFunctionObjectByClassFunctionName
LastNamed(t, name) == At(t, Highest({i \in Indexes(t) : At(t, i).fun.name = name})).fun

\* doRegisterVariableSymbolsClass: a script function is compiled anew for the
\* class that inherits it; of a C++ function it gets the last one of the name.
Inherited(c) ==
    [k \in DOMAIN own[c] |->
        Entry(IF own[c][k].native THEN LastNamed(table[c], own[c][k].name) ELSE own[c][k], TRUE)]

Registered(funs) == [k \in DOMAIN funs |-> Entry(funs[k], TRUE)]

\* Mutant of SuperIndex: the search starts at the function itself.
SuperOrSelf(t, k, n) == Highest({i \in 0..k : Takes(At(t, i).fun, At(t, k).fun.name, n)})
SuperIndex(t, k, n)  == Highest({i \in 0..k - 1 : Takes(At(t, i).fun, At(t, k).fun.name, n)})

\* A C++ function is left to be searched for, which a load with this cannot be.
ThisIndex(t, call) ==
    LET i == getIdxFunctionObject(t, call.name, call.args)
    IN  IF i # Undefined /\ At(t, i).fun.native THEN Undefined ELSE i

\* searchVarFunctionSymbol, for the functions that are not linked yet.
Linked(t) ==
    [j \in DOMAIN t |->
        IF t[j].linked THEN t[j]
        ELSE [t[j] EXCEPT !.linked = TRUE,
                          !.this   = ThisIndex(t, t[j].fun.this),
                          !.super  = SuperIndex(t, j - 1, t[j].fun.super)]]

\* What the linker refuses is the matter of Session.
Links(t) ==
    \A j \in DOMAIN t :
        /\ t[j].fun.this # NoCall =>
              getIdxFunctionObject(t, t[j].fun.this.name, t[j].fun.this.args) # Undefined
        /\ t[j].fun.super # NoSuper => SuperIndex(t, j - 1, t[j].fun.super) # Undefined

IsNative(c) == own[c] # <<>> /\ Head(own[c]).native
Exists(c)   == ancestors[c] # <<>>

-----------------------------------------------------------------------------
(* Declarations.                                                            *)

Declares(c, line, funs, t) ==
    /\ ~Exists(c)
    /\ ancestors' = [ancestors EXCEPT ![c] = Append(line, c)]
    /\ own' = [own EXCEPT ![c] = funs]
    /\ table' = [table EXCEPT ![c] = t]
    /\ heritage' = [heritage EXCEPT ![c] =
                       Append([l \in DOMAIN line |-> own[line[l]]], funs)]
    /\ linked' = FALSE
    /\ last' = NotCalled
    /\ UNCHANGED <<object, site, index_op2, seen>>

\* C++ registers before any script (checkCanRegister_C_Function).
registerNative(c, funs) ==
    /\ \A d \in Class : Exists(d) => IsNative(d)
    /\ Declares(c, <<>>, funs, Registered(funs))

\* registerClass and doRegisterVariableSymbolsClass: the ancestors, from the
\* root on, and then the functions of the class.
gacClass(c, parent, funs) ==
    LET line == IF parent = None THEN <<>> ELSE ancestors[parent]
        t    == FlattenSeq([l \in DOMAIN line |-> Inherited(line[l])]) \o Registered(funs)
    IN  /\ c # Main
        /\ parent # None => Exists(parent) /\ parent # Main
        /\ Links(t)
        /\ Declares(c, line, funs, t)

Extended == {c \in Class : \E j \in DOMAIN table[c] : ~table[c][j].operator}

\* `function C::f()' in a later source: the function goes into the node and
\* the table of the class, if nothing there has its name and its number of
\* arguments (functionSymbolExists).
Extend(c, fun) ==
    LET t == Append(table[c], Entry(fun, FALSE))
    IN  /\ Exists(c) /\ ~IsNative(c)
        /\ linked
        /\ Cardinality(Extended \cup {c}) <= MaxExtended
        /\ getIdxFunctionObject(table[c], fun.name, Len(fun.params)) = Undefined
        /\ Links(t)
        /\ own' = [own EXCEPT ![c] = Append(@, fun)]
        /\ table' = [table EXCEPT ![c] = t]
        /\ heritage' = [heritage EXCEPT ![c][Len(ancestors[c])] = Append(@, fun)]
        /\ linked' = FALSE
        /\ last' = NotCalled
        /\ UNCHANGED <<ancestors, object, site, index_op2, seen>>

\* Mutant of Relinked: what a load found stays.
NotRelinked == index_op2

\* The loads of members lose what they found, at each link.  In a nested
\* function they get the place of their load in its statement instead.
Relinked ==
    CASE site.kind = "access" -> Undefined
      [] site.kind = "nested" -> site.position - 1
      [] OTHER -> index_op2

updateReferenceSymbols ==
    /\ ~linked
    /\ table' = [c \in Class |-> Linked(table[c])]
    /\ index_op2' = Relinked
    /\ seen' = IF site.kind = "access" THEN Unseen ELSE seen
    /\ linked' = TRUE
    /\ last' = NotCalled
    /\ UNCHANGED <<ancestors, own, object, site, heritage>>

-----------------------------------------------------------------------------
(* Calls.                                                                   *)

\* createSymbols: an object gets the functions that its class has then.
createSymbols(c) ==
    /\ linked /\ Exists(c) /\ c # Main
    /\ object' = [class |-> c, size |-> Len(table[c])]
    /\ last' = NotCalled
    /\ UNCHANGED <<ancestors, own, table, linked, site, index_op2, heritage, seen>>

PointerOf(kind) == CASE kind = "int" -> "int*" [] kind = "float" -> "float*" [] OTHER -> None

\* idx_type, which only a number sets: for a text it is what is left of the
\* arguments before it.
IdxType(kinds, k) ==
    LET S == {j \in 1..k - 1 : PointerOf(kinds[j]) # None}
    IN  IF S = {} THEN None ELSE PointerOf(kinds[Max(S)])

\* FIND_FUNCTION: does the C++ function take these arguments?
MatchArgs(params, kinds) ==
    \A k \in DOMAIN kinds :
        CASE kinds[k] = "int"   -> params[k] \in {"int", "int*"}
          [] kinds[k] = "float" -> params[k] = "float*"
          [] kinds[k] = "text"  -> params[k] \in {"string*", IdxType(kinds, k)}

FIND_FUNCTION(t, name, kinds) ==
    Highest({i \in Indexes(t) :
        /\ Takes(At(t, i).fun, name, Len(kinds))
        /\ At(t, i).fun.native => MatchArgs(At(t, i).fun.params, kinds)})

\* stk2var: a text becomes whatever the parameter is.
Converts(type, kind) ==
    \/ kind = "text"
    \/ kind = "int"   /\ type \in {"int", "int*"}
    \/ kind = "float" /\ type \in {"float*", "int"}

\* An object has a C++ object if its class or the one above is of C++.
HasObject(c) ==
    \/ c = Main
    \/ \E l \in DOMAIN ancestors[c] : l >= Len(ancestors[c]) - 1 /\ IsNative(ancestors[c][l])

\* execute_internal and call_C_function.  A script function takes any number
\* of arguments.
ResultOf(fun, c, kinds) ==
    IF ~fun.native THEN "ran"
    ELSE IF Len(fun.params) # Len(kinds)
            \/ \E k \in DOMAIN kinds : ~Converts(fun.params[k], kinds[k]) THEN "error"
    ELSE IF HasObject(c) THEN "ran" ELSE "undefined"

Calls(c, kinds, result, fun, found) ==
    LET with == [class |-> c, kinds |-> kinds]
    IN  /\ last' = [with |-> with, result |-> result,
                    fun |-> IF result \in {"ran", "undefined"} THEN fun ELSE NoFunction]
        /\ seen' = IF seen \in {Unseen, with} THEN with ELSE Mixed
        /\ index_op2' = found
        /\ UNCHANGED <<ancestors, own, table, linked, object, site, heritage>>

\* The functions in which the machine searches.
m_functionSymbol(c) == IF c = Main THEN table[c] ELSE SubSeq(table[c], 1, object.size)

\* A constructor is called by the statement that has just created the object.
Callable(c, kinds) ==
    /\ linked /\ Exists(c) /\ Len(kinds) = site.args
    /\ c = IF site.kind = "global" THEN Main ELSE object.class
    /\ site.callee = "constructor" => object.size = Len(table[c])
    \* The linker refuses the call of a global function that does not exist.
    /\ c = Main => getIdxFunctionObject(table[c], site.callee, Len(kinds)) # Undefined

\* LOAD with an index takes that function of the class of the object.
CallByIndex(c, kinds) ==
    LET i == index_op2
    IN  /\ site.kind # "operator" /\ Callable(c, kinds)
        /\ i >= 0
        /\ IF i \in Indexes(table[c])
           THEN Calls(c, kinds, ResultOf(At(table[c], i).fun, c, kinds), At(table[c], i).fun, i)
           ELSE Calls(c, kinds, "error", NoFunction, i)

\* Without one CALL searches.  The constructor without arguments of a class
\* need not exist, and that of a class of C++ is not looked for.
IsImplicit(c, kinds, i) ==
    /\ site.callee = "constructor" /\ kinds = <<>>
    /\ i = Undefined \/ IsNative(c)

CallBySearch(c, kinds) ==
    LET i == FIND_FUNCTION(m_functionSymbol(c), site.callee, kinds)
    IN  /\ site.kind # "operator" /\ Callable(c, kinds)
        /\ index_op2 = Undefined
        /\ IF IsImplicit(c, kinds, i) THEN Calls(c, kinds, "skipped", NoFunction, NotFound)
           ELSE IF i = Undefined THEN Calls(c, kinds, "error", NoFunction, Undefined)
           ELSE Calls(c, kinds, ResultOf(At(table[c], i).fun, c, kinds), At(table[c], i).fun, i)

CallNotFound(c, kinds) ==
    /\ site.kind # "operator" /\ Callable(c, kinds)
    /\ index_op2 = NotFound
    /\ Calls(c, kinds, "skipped", NoFunction, NotFound)

metamethod_operator(c, name) ==
    SelectSeq(table[c], LAMBDA e : e.operator /\ e.fun.name = name)

\* Two objects of a class.  The first time the last metamethod is found, whatever
\* its number of arguments (those of C++ classes are not in the model), and its
\* place in the list is kept in index_op2, which the second time is a pointer.
APPLY_METAMETHOD(c) ==
    LET t == metamethod_operator(c, site.callee)
        i == index_op2
    IN  /\ site.kind = "operator" /\ Exists(c) /\ linked /\ c = object.class
        /\ IF i = Undefined
           THEN IF t = <<>> THEN Calls(c, <<>>, "error", NoFunction, i)
                ELSE Calls(c, <<>>, "ran", Last(t).fun, Len(t) - 1)
           ELSE Calls(c, <<>>, IF i = 0 THEN "error" ELSE "undefined", NoFunction, i)

Init ==
    /\ ancestors = [c \in Class |-> IF c = Main THEN <<c>> ELSE <<>>]
    /\ own = [c \in Class |-> IF c = Main THEN Globals ELSE <<>>]
    /\ table = [c \in Class |-> Registered(own[c])]
    /\ heritage = [c \in Class |-> IF c = Main THEN <<Globals>> ELSE <<>>]
    /\ linked = FALSE
    /\ object = NoObject
    /\ site \in Site
    /\ index_op2 = Undefined
    /\ seen = Unseen
    /\ last = NotCalled

Next ==
    \/ \E c \in Class, funs \in NativeSources : registerNative(c, funs)
    \/ \E c \in Class, parent \in Class \cup {None}, funs \in ScriptSources :
          gacClass(c, parent, funs)
    \/ \E c \in Class, fun \in Extensions : Extend(c, fun)
    \/ updateReferenceSymbols
    \/ \E c \in Class : createSymbols(c)
    \/ \E c \in Class :
          \/ APPLY_METAMETHOD(c)
          \/ \E kinds \in Arguments :
                \/ CallByIndex(c, kinds)
                \/ CallBySearch(c, kinds)
                \/ CallNotFound(c, kinds)

Spec == Init /\ [][Next]_vars

-----------------------------------------------------------------------------
(* Properties.  What a class has is told by its heritage: the functions of  *)
(* each ancestor as they were when it was declared, and its own.            *)

\* The last of the wanted functions at the nearest level below which has one:
\* how inheritance and overriding are meant.
Nearest(c, below, wanted) ==
    LET h      == heritage[c]
        level(l) == {k \in DOMAIN h[l] : h[l][k] \in wanted}
        levels == {l \in 1..below : level(l) # {}}
    IN  IF levels = {} THEN NoFunction ELSE h[Max(levels)][Max(level(Max(levels)))]

\* The functions that a class has, and those that take a call.
Functions(c)        == UNION {Range(heritage[c][l]) : l \in DOMAIN heritage[c]}
Taking(c, name, n)  == {f \in Functions(c) : Takes(f, name, n)}

\* C++ functions of one name that the class inherits: all but one are lost.
LosesOverloads(c) ==
    \E l \in 1..Len(heritage[c]) - 1 : \E j, k \in DOMAIN heritage[c][l] :
        j < k /\ heritage[c][l][j].native /\ heritage[c][l][j].name = heritage[c][l][k].name

\* A call this.f runs the most derived f of the class of the object, also in a
\* function that the class inherits, unless that one is of C++.
ThisRunsMostDerived ==
    linked => \A c \in Class : \A j \in DOMAIN table[c] :
        LET call   == table[c][j].fun.this
            wanted == Nearest(c, Len(heritage[c]), Taking(c, call.name, call.args))
        IN  call # NoCall /\ ~LosesOverloads(c) =>
                IF table[c][j].this = Undefined THEN wanted.native
                ELSE At(table[c], table[c][j].this).fun = wanted

\* The level of heritage that an index of a table stands for.
Before(c, l)  == Len(FlattenSeq(SubSeq(heritage[c], 1, l - 1)))
LevelOf(c, i) == Max({l \in DOMAIN heritage[c] : Before(c, l) <= i})

\* A call super goes up: it runs a function of the nearest ancestor that has one
\* for its arguments, and in its own class only a function declared before it.
SuperGoesUp ==
    linked => \A c \in Class : \A j \in DOMAIN table[c] :
        LET e   == table[c][j]
            up  == LevelOf(c, j - 1)
            to  == LevelOf(c, e.super)
        IN  e.fun.super # NoSuper =>
                /\ e.super < j - 1
                /\ to = up => \E k \in 1..j - 1 - Before(c, up) :
                                 Takes(heritage[c][up][k], e.fun.name, e.fun.super)
                /\ to < up /\ ~LosesOverloads(c) =>
                      At(table[c], e.super).fun =
                          Nearest(c, up - 1, Taking(c, e.fun.name, e.fun.super))

Fits(type, kind) ==
    CASE kind = "int" -> type \in {"int", "int*"} [] kind = "float" -> type = "float*"
      [] OTHER -> type = "string*"

FitsAll(fun, kinds) ==
    fun.native => \A k \in DOMAIN kinds : Fits(fun.params[k], kinds[k])

\* The calls of which SiteRunsDeclared speaks: the site has seen this class and
\* these kinds of arguments alone, is not in a nested function, the object is
\* not older than an extension of its class and has a C++ object if it needs
\* one, no C++ overload got lost, and no text follows a number.
Steady(c, kinds) ==
    /\ site.kind \in {"access", "global"}
    /\ seen = last.with
    /\ c # Main => object.size = Len(table[c])
    /\ HasObject(c) \/ ~last.fun.native
    /\ ~LosesOverloads(c)
    /\ \A j, k \in DOMAIN kinds : j < k => kinds[k] # "text"
    /\ site.callee = "constructor" /\ kinds = <<>> => ~IsNative(c)

\* Such a call runs the function that inheritance and the types of its
\* arguments say, however often it is executed and whatever was declared,
\* extended and linked in between, and fails if there is none.
SiteRunsDeclared ==
    LET c     == last.with.class
        kinds == last.with.kinds
    IN  last # NotCalled /\ Steady(c, kinds) =>
            /\ last.fun = Nearest(c, Len(heritage[c]),
                                  {f \in Taking(c, site.callee, Len(kinds)) : FitsAll(f, kinds)})
            /\ last.fun # NoFunction => last.result = "ran"

\* An operator runs the metamethod of its class each time it is executed.
OperatorRunsAgain ==
    last # NotCalled /\ site.kind = "operator"
        /\ metamethod_operator(last.with.class, site.callee) # <<>> => last.result = "ran"
=============================================================================
