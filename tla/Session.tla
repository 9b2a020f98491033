------------------------------ MODULE Session ------------------------------
(***************************************************************************)
(* A host program's session with the interpreter: parse, compile, execute  *)
(* and eval of CZetScript, calls of script functions, registration of C++  *)
(* functions and variables, and CState's saveState and setState.           *)
(*                                                                         *)
(* A session lives through many evals.  Each adds nodes, symbols, entries  *)
(* of main's tables and code, an eval that fails leaves what it had done,  *)
(* and the code of earlier evals keeps its links into those tables by      *)
(* index.  A source is a sequence of top-level items: a variable that is   *)
(* initialised, a function whose body uses at most one name, a statement   *)
(* that uses one name, or text that the parser rejects.                    *)
(***************************************************************************)
EXTENDS Integers, Sequences, FiniteSets

CONSTANTS
    Names,        \* the names that sources and the host use
    NoName,       \* a body that uses no name, a source that is not a file
    Sources,      \* what the host may evaluate
    NativeFuns,   \* the C++ functions it may register (names)
    NativeVars,   \* the C++ variables it may register (names)
    Features,     \* what the host may do besides, see below
    MaxCalls,     \* MAX_FUNCTION_CALL: one call more leaves the process
    MaxNodes,     \* bound of the model: nodes of one state
    MaxSaved      \* bound of the model: saved states

\* "saveFunctions": save a state that has script functions.
ASSUME FeatureAssumption == Features \subseteq {"saveFunctions"}

Kinds == {"variable", "function", "use", "error"}
Item  == [kind : Kinds, name : Names \cup {NoName}, uses : Names \cup {NoName},
          compiles : BOOLEAN]

ASSUME NameAssumption ==
    /\ NoName \notin Names
    /\ NativeFuns \cup NativeVars \subseteq Names
    /\ IsFiniteSet(NativeVars)
ASSUME SourceAssumption == \A s \in Sources :
    /\ s.items \in Seq(Item)
    /\ \A i \in DOMAIN s.items :
          /\ s.items[i].kind \in {"variable", "function"} => s.items[i].name # NoName
          /\ s.items[i].kind = "use" => s.items[i].uses # NoName
ASSUME BoundAssumption == MaxNodes \in Nat /\ {MaxCalls, MaxSaved} \subseteq Nat \ {0}

VARIABLES
    current,            \* the CState: nodes, symbols, tables of main, files
    vec_saved_state,    \* the saved CStates
    astNodeToCompile,   \* indexes of parsed nodes that wait for a compile
    main,               \* the code of the main function
    stack,              \* what the slots of the value stack hold
    cache,              \* the machine's copies of the vectors: their sizes
    phase,              \* what the facade is doing
    call,               \* the call of the host that it serves
    todo,               \* what is left to parse, to compile or to link
    stament,            \* the code of main under compilation
    frames              \* the running functions and their next instructions

vars == <<current, vec_saved_state, astNodeToCompile, main, stack, cache,
          phase, call, todo, stament, frames>>
stateVars == <<current, vec_saved_state, astNodeToCompile, main, stack, cache>>

-----------------------------------------------------------------------------
(* Code, tables and links.                                                  *)

Unlinked == [to |-> "nothing", at |-> 0]
NoCode   == [exists |-> FALSE, ins |-> <<>>]
Code(ins) == [exists |-> TRUE, ins |-> ins]
Instruction(node, op, name) == [node |-> node, op |-> op, name |-> name, link |-> Unlinked]

\* Slots of the stack that the model looks at: main's variables and the first
\* one above them.
Slots == 1..(MaxNodes + Cardinality(NativeVars) + 1)

LastWith(entries, name) ==
    LET at == {i \in DOMAIN entries : entries[i].name = name}
    IN  IF at = {} THEN 0 ELSE CHOOSE i \in at : \A j \in at : j <= i

FunctionLink(state, f) ==
    IF state.functions[f].native THEN [to |-> "native", at |-> 0]
                                 ELSE [to |-> "function", at |-> f]

\* searchVarFunctionSymbol over main's tables: functions before variables, the
\* last entry of that name.  A C++ function is looked up again at each call.
Find(state, name) ==
    LET function == LastWith(state.functions, name)
        variable == LastWith(state.variables, name)
    IN  IF function # 0 THEN FunctionLink(state, function)
        ELSE IF variable # 0 THEN [to |-> "variable", at |-> variable] ELSE Unlinked

\* The links of a piece of code: instruction by instruction up to the first
\* name that is not found; a link that is there already is kept.
FirstMissing(state, ins) ==
    LET bad == {i \in DOMAIN ins : ins[i].link = Unlinked /\ Find(state, ins[i].name) = Unlinked}
    IN  IF bad = {} THEN Len(ins) + 1 ELSE CHOOSE i \in bad : \A j \in bad : i <= j
Linked(state, ins) ==
    [i \in DOMAIN ins |->
        IF i < FirstMissing(state, ins) /\ ins[i].link = Unlinked
        THEN [ins[i] EXCEPT !.link = Find(state, ins[i].name)]
        ELSE ins[i]]
IsLinked(ins) == \A i \in DOMAIN ins : ins[i].link # Unlinked

\* The code of function k of main's table; function 0 is main itself.
CodeOf(k) == IF k = 0 THEN main ELSE current.functions[k].code

EmptyState == [nodes |-> <<>>, symbols |-> <<{}>>, functions |-> <<>>,
               variables |-> <<>>, files |-> {}]
NoCache == [built |-> FALSE, functions |-> 0, nodes |-> 0]

Init ==
    /\ current = EmptyState
    /\ vec_saved_state = <<EmptyState>>
    /\ astNodeToCompile = <<>>
    /\ main = NoCode
    /\ stack = [p \in Slots |-> "undefined"]
    /\ cache = NoCache
    /\ phase = "idle"
    /\ call = "none"
    /\ todo = <<>>
    /\ stament = <<>>
    /\ frames = <<>>

-----------------------------------------------------------------------------
(* Calls and returns of the facade.  eval is parse, compile and execute, each *)
(* if the one before succeeded.                                               *)

Idle == phase = "idle"

EndCall ==
    /\ phase' = "idle"
    /\ call' = "none"
    /\ todo' = <<>>

\* isFilenameAlreadyParsed and the rest of parse: the file is noted first,
\* whatever becomes of its text.
BeginParse(s, c) ==
    /\ Idle
    /\ s.file \notin current.files
    /\ Len(current.nodes) + Len(s.items) <= MaxNodes
    /\ current' = [current EXCEPT !.files = @ \cup ({s.file} \ {NoName})]
    /\ phase' = "parsing"
    /\ call' = c
    /\ todo' = s.items
    /\ UNCHANGED <<vec_saved_state, astNodeToCompile, main, stack, cache, stament, frames>>

Compiling ==
    /\ phase' = "compiling"
    /\ main' = NoCode
    /\ stament' = <<>>

\* Mutant of BeginCompile: the list is read and not cleared.
BeginCompileKeepsList ==
    /\ \/ /\ Idle
          /\ call' = "compile"
       \/ /\ phase = "parsed"
          /\ UNCHANGED call
    /\ Compiling
    /\ todo' = astNodeToCompile
    /\ UNCHANGED <<current, vec_saved_state, astNodeToCompile, stack, cache, frames>>

\* compile: takes the list of parsed nodes, clears it and the code of main.
BeginCompile ==
    /\ \/ /\ Idle
          /\ call' = "compile"
       \/ /\ phase = "parsed"
          /\ UNCHANGED call
    /\ Compiling
    /\ todo' = astNodeToCompile
    /\ astNodeToCompile' = <<>>
    /\ UNCHANGED <<current, vec_saved_state, stack, cache, frames>>

-----------------------------------------------------------------------------
(* Parser: generateAST_Recursive over the top-level items.                  *)

Symbols == UNION {current.symbols[d] : d \in DOMAIN current.symbols}
\* The scope that is open: the main scope, unless a parse failed inside a block.
OpenScope == Len(current.symbols)

Node(item) == [item |-> item, source |-> "parsing"]
WithNode(item) == [current EXCEPT !.nodes = Append(@, Node(item))]
\* How the source of a node ended is history: the code does not keep it.
SourceEnds(state, how) ==
    [state EXCEPT !.nodes = [i \in DOMAIN @ |->
        IF @[i].source = "parsing" THEN [@[i] EXCEPT !.source = how] ELSE @[i]]]

ToCompile(state) ==
    /\ current' = state
    /\ astNodeToCompile' = Append(astNodeToCompile, Len(state.nodes))
    /\ todo' = Tail(todo)
    /\ UNCHANGED <<vec_saved_state, main, stack, cache, phase, call, stament, frames>>

\* Mutant of ParseFails: it takes back the symbols of its source, not the nodes.
ParseFailsForgets(state) ==
    LET mine == {state.nodes[i].item.name : i \in
                    {j \in DOMAIN state.nodes : state.nodes[j].source = "parsing"}}
    IN  /\ current' = [SourceEnds(state, "failed") EXCEPT !.symbols =
                [d \in DOMAIN @ |-> {symbol \in @[d] : symbol[2] \notin mine}]]
        /\ EndCall
        /\ UNCHANGED <<vec_saved_state, astNodeToCompile, main, stack, cache, stament, frames>>

\* A parse that fails leaves nodes, symbols, open scopes and the list of nodes
\* to compile as they are (manageOnErrorParse is empty).
ParseFails(state) ==
    /\ current' = SourceEnds(state, "failed")
    /\ EndCall
    /\ UNCHANGED <<vec_saved_state, astNodeToCompile, main, stack, cache, stament, frames>>

NextItem(kind) == phase = "parsing" /\ todo # <<>> /\ Head(todo).kind = kind

\* parseVar: no symbol of that name, variable or function, in the open scopes.
parseVar ==
    LET item == Head(todo)
    IN  /\ NextItem("variable")
        /\ IF \E kind \in {"variable", "function"} : <<kind, item.name>> \in Symbols
           THEN ParseFails(WithNode(item))
           ELSE ToCompile([WithNode(item) EXCEPT
                    !.symbols[OpenScope] = @ \cup {<<"variable", item.name>>}])

\* parseFunction: no function of that name; the symbol goes to the main scope.
\* When there is one, the scope of its arguments stays open.
parseFunction ==
    LET item == Head(todo)
    IN  /\ NextItem("function")
        /\ IF <<"function", item.name>> \in Symbols
           THEN ParseFails([WithNode(item) EXCEPT !.symbols = Append(@, {})])
           ELSE ToCompile([WithNode(item) EXCEPT
                    !.symbols[1] = @ \cup {<<"function", item.name>>}])

parseStatement ==
    /\ NextItem("use")
    /\ ToCompile(WithNode(Head(todo)))

\* The text is wrong, at the top level or inside a block, whose scope stays
\* open: parseBlock does not pop it on an error.
parseError(inBlock) ==
    /\ NextItem("error")
    /\ ParseFails([current EXCEPT !.symbols = IF inBlock THEN Append(@, {}) ELSE @])

\* The end of the text: eval goes on with compile.
ParseEnds ==
    /\ phase = "parsing"
    /\ todo = <<>>
    /\ current' = SourceEnds(current, "parsed")
    /\ IF call = "eval" THEN phase' = "parsed" /\ UNCHANGED <<call, todo>> ELSE EndCall
    /\ UNCHANGED <<vec_saved_state, astNodeToCompile, main, stack, cache, stament, frames>>

-----------------------------------------------------------------------------
(* Compiler: one node at a time.                                            *)

Compiled(state, ins) ==
    /\ current' = state
    /\ stament' = stament \o ins
    /\ todo' = Tail(todo)
    /\ UNCHANGED <<vec_saved_state, astNodeToCompile, main, cache, phase, call, frames>>

\* compile returns at the first node that fails: main stays without code and
\* the nodes after it are never compiled.
CompileFails(state) ==
    /\ current' = state
    /\ EndCall
    /\ stament' = <<>>
    /\ UNCHANGED <<vec_saved_state, astNodeToCompile, main, cache, frames>>

NextNode(kind) ==
    /\ phase = "compiling"
    /\ todo # <<>>
    /\ current.nodes[Head(todo)].item.kind = kind

\* addLocalVarSymbol: the entry of that name, or a new one whose slot in the
\* stack starts undefined.
Exists(item) == LastWith(current.variables, item.name) # 0
WithVariable(item) ==
    IF Exists(item) THEN current
    ELSE [current EXCEPT !.variables = Append(@, [name |-> item.name, native |-> FALSE])]
\* Mutants of IniStackVar: the slot keeps what operands left in it; every slot
\* is reset.
IniStackVarNot(item) == stack
IniStackVarAll(item) ==
    IF Exists(item) THEN stack ELSE [p \in Slots |-> "undefined"]
IniStackVar(item) ==
    IF Exists(item) THEN stack
    ELSE [stack EXCEPT ![Len(current.variables) + 1] = "undefined"]

\* gacVar: the entry comes before the initialiser, which may not compile.
gacVar ==
    LET item == current.nodes[Head(todo)].item
    IN  /\ NextNode("variable")
        /\ stack' = IniStackVar(item)
        /\ IF item.compiles
           THEN Compiled(WithVariable(item), <<Instruction(Head(todo), "set", item.name)>>)
           ELSE CompileFails(WithVariable(item))

\* A function: its entry comes before its body, and has no code if the body
\* does not compile.  A C++ function of that name counts as a definition.
gacFunction ==
    LET item == current.nodes[Head(todo)].item
        body == IF item.uses = NoName THEN <<>>
                ELSE <<Instruction(Head(todo), "use", item.uses)>>
        entry == [name |-> item.name, native |-> FALSE, node |-> Head(todo),
                  code |-> IF item.compiles THEN Code(body) ELSE NoCode]
        added == [current EXCEPT !.functions = Append(@, entry)]
    IN  /\ NextNode("function")
        /\ UNCHANGED stack
        /\ IF LastWith(current.functions, item.name) # 0 THEN CompileFails(current)
           ELSE IF item.compiles THEN Compiled(added, <<>>) ELSE CompileFails(added)

gacExpression ==
    LET item == current.nodes[Head(todo)].item
    IN  /\ NextNode("use")
        /\ UNCHANGED stack
        /\ IF item.compiles
           THEN Compiled(current, <<Instruction(Head(todo), "use", item.uses)>>)
           ELSE CompileFails(current)

\* popFunction: main has its code; updateReferenceSymbols links main and then
\* every function of main's table.
popFunction ==
    /\ phase = "compiling"
    /\ todo = <<>>
    /\ main' = Code(stament)
    /\ stament' = <<>>
    /\ phase' = "linking"
    /\ todo' = [k \in 1..(Len(current.functions) + 1) |-> k - 1]
    /\ UNCHANGED <<current, vec_saved_state, astNodeToCompile, stack, cache, call, frames>>

-----------------------------------------------------------------------------
(* Linker.                                                                  *)

Relinked(k, code) ==
    IF k = 0 THEN main' = code /\ UNCHANGED current
    ELSE current' = [current EXCEPT !.functions[k].code = code] /\ UNCHANGED main

\* One function: a name that is not found ends the link, and the compile.
LinkFunction ==
    LET k == Head(todo)
        ins == Linked(current, CodeOf(k).ins)
    IN  /\ phase = "linking"
        /\ todo # <<>>
        /\ Relinked(k, [CodeOf(k) EXCEPT !.ins = ins])
        /\ IF IsLinked(ins) THEN todo' = Tail(todo) /\ UNCHANGED <<phase, call>> ELSE EndCall
        /\ UNCHANGED <<vec_saved_state, astNodeToCompile, stack, cache, stament, frames>>

\* Mutant of LinkEnds: caches that exist are not built again.
LinkEndsKeepsCache ==
    /\ phase = "linking"
    /\ todo = <<>>
    /\ stack' = [p \in Slots |->
            IF p \in DOMAIN current.variables /\ current.variables[p].native
            THEN "native" ELSE stack[p]]
    /\ cache' = IF cache.built THEN cache
                ELSE [built |-> TRUE, functions |-> Len(current.functions), nodes |-> Len(current.nodes)]
    /\ IF call = "eval" THEN phase' = "linked" /\ UNCHANGED <<call, todo>> ELSE EndCall
    /\ UNCHANGED <<current, vec_saved_state, astNodeToCompile, main, stament, frames>>

\* All is linked: the slots of C++ variables are set, the caches are built.
LinkEnds ==
    /\ phase = "linking"
    /\ todo = <<>>
    /\ stack' = [p \in Slots |->
            IF p \in DOMAIN current.variables /\ current.variables[p].native
            THEN "native" ELSE stack[p]]
    /\ cache' = [built |-> TRUE, functions |-> Len(current.functions), nodes |-> Len(current.nodes)]
    /\ IF call = "eval" THEN phase' = "linked" /\ UNCHANGED <<call, todo>> ELSE EndCall
    /\ UNCHANGED <<current, vec_saved_state, astNodeToCompile, main, stament, frames>>

-----------------------------------------------------------------------------
(* Machine.                                                                 *)

Starts(k) ==
    /\ phase' = "running"
    /\ frames' = <<[fun |-> k, pc |-> 1]>>
    /\ UNCHANGED <<stateVars, todo, stament>>

\* execute: main from its start, in an eval or by itself.  The host does not
\* execute what it did not compile: nothing was added since the last compile.
Execute ==
    /\ \/ /\ phase = "linked"
          /\ UNCHANGED call
       \/ /\ Idle
          /\ cache.built /\ cache.functions = Len(current.functions)
          /\ main.exists /\ IsLinked(main.ins)
          /\ call' = "execute"
    /\ Starts(0)

\* The host calls a script function that it got from a compile that
\* succeeded.  While main has no code the call is refused; a function without
\* code is not, and the process ends.
CallFromHost(k) ==
    /\ Idle
    /\ cache.built /\ k <= cache.functions /\ ~current.functions[k].native
    /\ main.exists
    /\ current.functions[k].code.exists
    /\ call' = "function"
    /\ Starts(k)

Top == frames[Len(frames)]
AtEnd == Top.pc > Len(CodeOf(Top.fun).ins)
Running == phase = "running" /\ ~AtEnd
Fetched == CodeOf(Top.fun).ins[Top.pc]
Advanced == [frames EXCEPT ![Len(frames)].pc = @ + 1]

\* What an instruction pushes lands above main's variables.
Pushed(st) == [p \in Slots |-> IF p > Len(current.variables) THEN "junk" ELSE st[p]]

machineFrame == <<current, vec_saved_state, astNodeToCompile, main, cache, stament>>

\* A variable is loaded; an initialiser assigns it.  A C++ variable stays bound.
RunVariable ==
    LET at == Fetched.link.at
    IN  /\ Running
        /\ Fetched.link.to = "variable"
        /\ stack' = Pushed(IF Fetched.op = "set" /\ stack[at] # "native"
                           THEN [stack EXCEPT ![at] = "set"] ELSE stack)
        /\ frames' = Advanced
        /\ UNCHANGED <<machineFrame, phase, call, todo>>

\* A script function is called.  Nothing tests that it has code: without, the
\* process ends, see RunningCodeIsReady.
RunFunction ==
    LET at == Fetched.link.at
    IN  /\ Running
        /\ Fetched.link.to = "function" /\ Fetched.op = "use"
        /\ current.functions[at].code.exists
        /\ Len(frames) < MaxCalls
        /\ stack' = Pushed(stack)
        /\ frames' = Append(Advanced, [fun |-> at, pc |-> 1])
        /\ UNCHANGED <<machineFrame, phase, call, todo>>

\* A C++ function is looked up by name and called; it changes nothing here.
RunNative ==
    /\ Running
    /\ Fetched.link.to = "native" /\ Fetched.op = "use"
    /\ stack' = Pushed(stack)
    /\ frames' = Advanced
    /\ UNCHANGED <<machineFrame, phase, call, todo>>

\* Mutant of RunFails: only the frame that failed is dropped.
RunFailsKeepsFrames ==
    /\ Running
    /\ stack' = Pushed(stack)
    /\ frames' = SubSeq(frames, 1, Len(frames) - 1)
    /\ EndCall
    /\ UNCHANGED machineFrame

\* Any instruction may fail; one that has no link or assigns a function does.
\* stackDumped drops all frames.
RunFails ==
    /\ Running
    /\ stack' = Pushed(stack)
    /\ frames' = <<>>
    /\ EndCall
    /\ UNCHANGED machineFrame

FunctionEnds ==
    /\ phase = "running"
    /\ AtEnd
    /\ frames' = SubSeq(frames, 1, Len(frames) - 1)
    /\ IF Len(frames) = 1 THEN EndCall ELSE UNCHANGED <<phase, call, todo>>
    /\ UNCHANGED <<machineFrame, stack>>

-----------------------------------------------------------------------------
(* Registration and states.                                                 *)

idleFrame == <<phase, call, todo, stament, frames>>

\* checkCanRegister_C_Function: not after a script function.
register_C_Function(name) ==
    /\ Idle
    /\ \A k \in DOMAIN current.functions :
          k = Len(current.functions) => current.functions[k].native
    /\ LastWith(current.functions, name) = 0
    /\ current' = [current EXCEPT !.functions =
            Append(@, [name |-> name, native |-> TRUE, node |-> 0, code |-> NoCode])]
    /\ UNCHANGED <<vec_saved_state, astNodeToCompile, main, stack, cache, idleFrame>>

\* The name must be free in the main scope; the slot is set by the next link.
register_C_Variable(name) ==
    /\ Idle
    /\ \A kind \in {"variable", "function"} : <<kind, name>> \notin current.symbols[1]
    /\ current' = [current EXCEPT !.symbols[1] = @ \cup {<<"variable", name>>},
                                  !.variables = Append(@, [name |-> name, native |-> TRUE])]
    /\ UNCHANGED <<vec_saved_state, astNodeToCompile, main, stack, cache, idleFrame>>

\* A copy of the state without the code of its functions.
Copy(state) == [state EXCEPT !.functions = [k \in DOMAIN @ |-> [@[k] EXCEPT !.code = NoCode]]]

saveState ==
    /\ Idle
    /\ Len(vec_saved_state) < MaxSaved
    /\ "saveFunctions" \in Features
         \/ \A k \in DOMAIN current.functions : current.functions[k].native
    /\ vec_saved_state' = Append(vec_saved_state, Copy(current))
    /\ UNCHANGED <<current, astNodeToCompile, main, stack, cache, idleFrame>>

\* Mutant of setState: main keeps its code.
setStateKeepsMain(i) ==
    /\ Idle
    /\ astNodeToCompile = <<>>
    /\ current' = Copy(vec_saved_state[i])
    /\ stack' = [p \in Slots |-> "undefined"]
    /\ cache' = NoCache
    /\ UNCHANGED <<vec_saved_state, main, astNodeToCompile, idleFrame>>

\* setState: clearGlobals, then the saved tables in place of the present ones.
\* The caches still show the old one.  The list of nodes to compile is not part
\* of a state: the host compiles what it parsed before it restores.
setState(i) ==
    /\ Idle
    /\ astNodeToCompile = <<>>
    /\ current' = Copy(vec_saved_state[i])
    /\ main' = NoCode
    /\ stack' = [p \in Slots |-> "undefined"]
    /\ cache' = NoCache
    /\ UNCHANGED <<vec_saved_state, astNodeToCompile, idleFrame>>

-----------------------------------------------------------------------------
Host ==
    \/ \E s \in Sources, c \in {"parse", "eval"} : BeginParse(s, c)
    \/ Execute
    \/ \E k \in DOMAIN current.functions : CallFromHost(k)
    \/ \E name \in NativeFuns : register_C_Function(name)
    \/ \E name \in NativeVars : register_C_Variable(name)
    \/ saveState
    \/ \E i \in DOMAIN vec_saved_state : setState(i)
    \/ BeginCompile

Parser ==
    \/ parseVar
    \/ parseFunction
    \/ parseStatement
    \/ \E inBlock \in BOOLEAN : parseError(inBlock)
    \/ ParseEnds
Compiler == gacVar \/ gacFunction \/ gacExpression \/ popFunction
Linker == LinkFunction \/ LinkEnds
Machine == RunVariable \/ RunFunction \/ RunNative \/ RunFails \/ FunctionEnds

Next == Host \/ Parser \/ Compiler \/ Linker \/ Machine

Spec == Init /\ [][Next]_vars

-----------------------------------------------------------------------------
(* Properties.                                                              *)

CodeType == [exists : BOOLEAN,
             ins : Seq([node : 1..MaxNodes, op : {"set", "use"}, name : Names,
                        link : [to : {"nothing", "variable", "function", "native"}, at : Nat]])]

StateType(state) ==
    /\ state.nodes \in Seq([item : Item, source : {"parsing", "parsed", "failed"}])
    /\ Len(state.nodes) <= MaxNodes
    /\ state.symbols \in Seq(SUBSET ({"variable", "function"} \X Names))
    /\ state.functions \in Seq([name : Names, native : BOOLEAN, node : 0..MaxNodes, code : CodeType])
    /\ state.variables \in Seq([name : Names, native : BOOLEAN])

\* Type invariant: main's variables fit in the slots of the model, the code that
\* runs and the states that are kept have their shapes.
TypeOK ==
    /\ StateType(current)
    /\ \A i \in DOMAIN vec_saved_state : StateType(vec_saved_state[i])
    /\ Len(current.variables) < Cardinality(Slots)
    /\ astNodeToCompile \in Seq(1..MaxNodes)
    /\ main \in CodeType
    /\ stack \in [Slots -> {"undefined", "set", "native", "junk"}]
    /\ cache \in [built : BOOLEAN, functions : Nat, nodes : Nat]
    /\ phase \in {"idle", "parsing", "parsed", "compiling", "linking", "linked", "running"}
    /\ call \in {"none", "eval", "parse", "compile", "execute", "function"}
    /\ frames \in Seq([fun : Nat, pc : Nat \ {0}])
    /\ phase = "running" <=> frames # <<>>
    /\ phase = "idle" <=> call = "none"

LeadsTo(entries, link, name) ==
    link.at \in DOMAIN entries /\ entries[link.at].name = name

\* Every link of any code that exists still names what its source names: the
\* index that the linker wrote (CScriptClass.cpp:641-669) leads to an entry of
\* that name in today's tables, after later evals that succeed or fail at any
\* point, registrations and restores.
LinksAreSound ==
    \A k \in {0} \cup DOMAIN current.functions : \A i \in DOMAIN CodeOf(k).ins :
        LET ins == CodeOf(k).ins[i]
        IN  CASE ins.link.to = "variable" -> LeadsTo(current.variables, ins.link, ins.name)
              [] ins.link.to = "function" -> LeadsTo(current.functions, ins.link, ins.name)
              [] ins.link.to = "native"   -> \E f \in DOMAIN current.functions :
                    current.functions[f].native /\ current.functions[f].name = ins.name
              [] OTHER -> TRUE

\* FIND_FUNCTION searches main's table from its end and reads each entry in the
\* machine's copy.
SearchStaysInCache == Len(current.functions) <= cache.functions
\* The search leaves the copy when the host calls a function after a link that
\* failed: the entries of the source that failed are in the table only.
AfterFailedLink == call = "function"

\* A function whose body did not compile stays in the table, and the linker
\* takes it for one that is there (CScriptClass.cpp:879 passes over it).
NeverCompiled(f) == ~current.nodes[current.functions[f].node].item.compiles

\* Whatever runs is ready to run: its links are resolved, a script function that
\* it calls has code, unless its body did not compile, and the machine's copies
\* of the vectors (buildCache) hold the function and its node.  That includes
\* functions of earlier evals that the host calls after a later eval failed.
RunningCodeIsReady ==
    Running =>
        /\ Top.fun <= cache.functions
        /\ Top.fun > 0 => current.functions[Top.fun].node <= cache.nodes
        /\ CASE Fetched.link.to = "function" ->
                  /\ Fetched.link.at <= cache.functions
                  /\ current.functions[Fetched.link.at].code.exists
                        \/ NeverCompiled(Fetched.link.at)
             [] Fetched.link.to = "native" -> SearchStaysInCache \/ AfterFailedLink
             [] Fetched.link.to = "variable" ->
                  /\ current.variables[Fetched.link.at].native => stack[Fetched.link.at] = "native"
             [] OTHER -> FALSE

\* No variable of a script starts with, or gets, what operands left in its slot
\* of the stack (iniStackVar in addLocalVarSymbol).
VariablesHoldNoJunk ==
    \A p \in DOMAIN current.variables :
        ~current.variables[p].native => stack[p] \in {"undefined", "set"}

\* A global variable keeps its value until the host restores a state: no later
\* eval, successful or not, takes it back (README: never destroyed when declared).
GlobalsSurvive ==
    [][\A p \in DOMAIN current.variables :
          stack[p] = "set" /\ stack'[p] # "set" => Idle /\ cache' = NoCache]_vars

\* The tables and the scopes agree: what is in a table was registered as a
\* symbol of an open scope, and no two script entries have the same name, so
\* that no failed or restored eval makes a name ambiguous or free again.
EntriesAreRegistered ==
    /\ \A k \in DOMAIN current.functions : ~current.functions[k].native =>
          /\ <<"function", current.functions[k].name>> \in Symbols
          /\ \A m \in DOMAIN current.functions :
                current.functions[m].name = current.functions[k].name => m = k
    /\ \A p \in DOMAIN current.variables :
          /\ <<"variable", current.variables[p].name>> \in Symbols
          /\ \A q \in DOMAIN current.variables :
                /\ current.variables[q].name = current.variables[p].name
                /\ current.variables[q].native = current.variables[p].native
                => q = p

\* A parsed statement is compiled once: the nodes that wait are newer than any
\* node whose code is in main or in a function.
CompiledOnce ==
    \A i \in DOMAIN astNodeToCompile :
        \A k \in {0} \cup DOMAIN current.functions :
            /\ k > 0 => current.functions[k].node < astNodeToCompile[i]
            /\ \A j \in DOMAIN CodeOf(k).ins : CodeOf(k).ins[j].node < astNodeToCompile[i]
=============================================================================
