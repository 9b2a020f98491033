# A formal model of zetscript

zetscript is an embeddable scripting language: a C++ program registers functions
and variables, evaluates sources, and calls the script functions they define. This
directory holds TLA+ modules that model how it does so, TLC configurations that check
them on small instances, and proofs that TLAPS checks for instances of any size.
Every definition follows the code; paths below are relative to the repository's
source directory.

Two questions run through the project:

* *Memory.* Objects are released by reference counts that the virtual machine keeps by
  hand, across scopes, calls, errors and the sweep of candidates. Does a script, a C++
  caller or the machine itself ever reach an object that is gone?
* *Meaning.* A source becomes nodes, symbols, table entries, code with links, and a run.
  Does what runs mean what was written, also after sources that failed half way?

## 1. The system

| Component | State | Operations | Talks to |
|---|---|---|---|
| Pointer manager (`core/vm/CVirtualMachine.cpp` 378-436, 973-1021) | one node per object: count, level; per call level a list of candidates (count 0) and a list of shared nodes | `newSharedPointer`, `sharePointer`, `unrefSharedScriptVar`, `REMOVE_0_SHARED_POINTERS` | called by the machine and the values, calls destructors, which call it again |
| Virtual machine (`CVirtualMachine.cpp` 1400-2709) | value stack, stack of scopes, call level, caches of functions and nodes | one action per instruction, `execute`, `stackDumped`, `clearGlobals`, `buildCache` | reads the compiler's code; calls C++, which may call it |
| Script values (`core/var`) | members, elements, attributes; node in the manager | create, store, remove, destroy | manager |
| Parser (`core/CASTNode.cpp`) | vector of nodes, list of nodes to compile | one function per construct, `generateAST_Recursive` | registers symbols in scopes |
| Scopes (`core/CScope.cpp`) | tree of scopes with symbols, the open one | register, look up, push, pop | parser |
| Compiler (`core/CCompiler.cpp`) | stack of functions under compilation, code | one function per construct, `compile` | nodes, function tables; resets slots of the machine's stack |
| Classes, functions, linker (`core/CScriptClass.cpp`, `core/CScriptFunctionObject.cpp`) | tables of classes, functions, variables | registration from C++, `updateReferenceSymbols` | compiler, machine |
| State (`core/CState.cpp`) | current and saved vectors of all of the above | `init`, `saveState`, `setState`, `destroy` | everything |
| Facade (`CZetScript.cpp`) | parsed files, error text, main object | `parse`, `compile`, `execute`, `eval`, calls of script functions | everything |
| Binding helpers, console, JSON stub, utilities | none of interest | | |

The program has one thread. What makes it hard is not parallelism but re-entrance and
partial failure: one instruction is a chain of releases that call each other; a
function of C++ in the middle of a script calls the machine again; an error unwinds
frames in the middle of anything; a source that fails leaves behind whatever it had
reached; and an index or pointer taken in one eval is used in a later one.

What makes each component correct:

* *Pointer manager*: a node is in exactly the list its count and level name; only a
  candidate is freed; the walk over the list never steps on freed memory.
* *Machine and values*: no live variable, member, operand or result refers to a deleted
  object; nothing is deleted twice; nothing unreachable stays; an unwinding ends.
* *Compiler and instruction loop*: the flat code does what the structured program does;
  scopes that are opened are closed on every path.
* *Facade, parser, tables, linker, state*: links lead to the entry the source names;
  what runs is linked and has code; globals keep their values; a source is compiled once.
* *Parser and compiler of expressions*: an expression comes to what C++ makes of the same
  text; no operand or operator of it is lost; one value is left.
* *Stacks of the machine*: whatever calls, errors, cancellations and exceptions come in
  between, an activation finds its level, scopes, cells and strings as it left them.
* *Classes and lookup*: a call runs the function that inheritance and its arguments name,
  on its first execution and on every later one.
* *Scopes*: a name means its innermost declaration (not modelled).

## 2. Modules

    ShareManager  <--implements-- ShareLists          the pointer manager
        ^  ^----- ShareManagerProofs  ^--- ShareListsProofs
        |
    ObjectLifetime <-- ObjectLifetimeProofs <-- ContainerProofs
                                                      values and the machine's instructions
    CallStack <-- CallStackProofs                     activations and the machine's stacks
    StructuredProgram <-- ControlFlow <-- ControlFlowProofs
                                                      programs, and the code they become
    Expressions <-- ExpressionCode <--.               texts of expressions, trees, instructions,
    CppExpressions <----- ExpressionMachine           their meaning, and the run of the code
    FunctionLookup <-- FunctionLookupProofs           tables of classes, linker, lookup at run time
    Session <-- SessionProofs                         facade, parser, tables, linker, states

**ShareManager** is the manager as a specification: nodes, counts, and two *sets* per
level. `ManagerNext` has the operations of the code, the sweep in two steps (`RemoveVisit`
decides, `RemoveFree` frees, with any operations of the destructor in between) and the
change of level of calls.

**ShareLists** is the same with the code's doubly linked rings: `Insert` and `Deattach`
assign `next` and `previous` as the macros do, nodes are freed and a pointer to freed
memory is a value one can check for. `ImplementsManager` is ShareManager's specification
under the mapping that reads each ring as a set.

**ObjectLifetime** extends ShareManager by what a script does. `value` maps each slot (a
variable of a frame, a member of an object) to undefined, a primitive or a reference;
`varRef` survives an assignment of a primitive, as in the code. Frames, scopes and operands are
`depth` and `temps`. The modes `pop`, `sweep` and `result` are the machine's own chains:
`POP_SCOPE` visits variables one by one, `unrefSharedPtr` of containers cascades, the sweep
deletes objects and releases their members into the list that it walks, `CALL` takes the
result. `MainReturnsObject` is apart from `ReturnObject`: RET takes the node of the object away in main too, but
the sweep of main spares nothing, so what only main's operands hold is deleted on its way to C++. Action names are those of the instruction or function they stand for.
What scripts do is a parameter: `Kinds` are the kinds of objects, and `Features` switch
on what else they do:

| Feature | Meaning |
|---|---|
| `overwrite` | an object is stored over another one |
| `error` | any instruction may fail (`stackDumped`) |
| `escape` | a function returns an object that something outside it still refers to |
| `operandArgument` | a callee stores an operand of its caller |
| `callFromC` | C++ calls a script function, at level 1; needs `noMain` or `leftovers` |
| `noMain` | main only declares, and C++ calls one function of the script, always with as many arguments |
| `single` | an object is stored in one place, once, and that place holds no other object |
| `leftovers` | C++ calls functions in any order and with any arguments: a variable of one may begin with what an operand or argument of an earlier call, or of main, has left in its cell of the stack (`cells`) |

**StructuredProgram** is what programs mean: a program is a tree of nodes, as CASTNode builds it, and
what is left of a run is a sequence of nodes (`todo`), whose first is unfolded step by step until an
evaluation, whose value chooses the way, is next. **ControlFlow** translates the compiler: each of its
functions (`gacIf`, `gacFor`, `gacWhile`, `gacDoWhile`, `gacSwitch`, `gacInlineIf`, `gacReturn`, `gacBody`, ...)
is an operator that lists what the function does, its calls included. `work` is what the active functions
have left to do, one action does its first thing, and `marks` are the local variables in which the
functions keep jumps whose target they do not know yet (`asm_op_jmp_end`, `jt_instruction`) and the start of
a loop (`index_ini_while`). Then the machine's statement loop runs the code; the target of a jump inside a
statement keeps its 8 bits. The variables of StructuredProgram run beside it, with the values that the machine's
evaluations yield; after an evaluation that is not the next one they are lost (`Lost`). `ProgramsAssumption` says what programs there are: what the parser makes
(`WellFormed`, braces included), main programs without a return in a block, and switches whose groups are clear (section 3).

**CallStack** has one action for each way into and out of an activation and for what a
statement does to the stacks. `frame` holds the local variables of each `execute_internal`
and of what called it; `idxCurrentStack`, `ptrCurrentOp`, `ptrCurrentStr`, `scope_info` and
`current_scope_info_ptr` are the machine's. A C++ function may call `execute` while scripts wait below it,
so the frames alternate; `LeaveFailed` is the error on its way through them, which dumps
the stacks at each `execute` it meets. `dead` tells which activations a dump has
taken, `disturbed` which ones a nested script interrupted: both are history.

**Expressions** is the parser: `isOperatorPunctuator` over the characters of the tokens, the groups of
precedence, and the splitting that `parseExpression_Recursive` does group by group.
**ExpressionCode** is the compiler's way from the tree to instructions (`gacExpression` and what it calls),
with the insertions it makes in front of instructions it has already laid out.
**CppExpressions** says what the same expression means in C++, with the parentheses
that C++ needs: the tests of the repository compare with that. **ExpressionMachine** runs the
instructions over operands, cells and objects; its instance is each expression of a set.

**FunctionLookup** keeps for each class the functions of its node and its table of function
entries. `registerNative`, `gacClass`, `Extend` and `updateReferenceSymbols` build the tables,
`createSymbols` makes an object with what its class has then, and one call site is executed
on it again and again: `CallBySearch` is `FIND_FUNCTION`, `CallByIndex` the load whose index an earlier
execution has written. A constructor is called on the object that `NEW` has just made, and only there. `heritage` is what inheritance means: the functions by level, as declared.

**Session** is a host that parses, compiles, executes, evals, calls script functions, registers
C++ functions and variables, saves states and restores them in any order. A source is a
sequence of items (a variable, a function that uses a name, a statement that uses one,
text that is rejected); an item may fail in the parser, in the compiler or in the
linker. Tables are sequences, links are indexes into them, the machine's caches are the
sizes they had. Each pass over a source is one action per item, so that a failure stops
between any two. The source of a node (`parsing`, `parsed`, `failed`) is history that only
properties read.

## 3. Runs

| Run | Instance | Shows |
|---|---|---|
| `lists` | 4 nodes, 1 object, 1 level, counts to 2; 48,504 states | rings stay closed, the walk stays on allocated nodes, ShareLists implements ShareManager (whose lists match its counts) |
| `life_class` | class objects; 2 objects, 3 nodes, 2 levels, overwriting, errors, results of functions and of main; 644,553 states | lists match counts, no dangling reference, counts cover references, operands and the results of functions survive, no double deletion |
| `life_exact` | blocks, two variables, counts to 3, no overwriting; 164,795 states | counts are exact, main leaves no garbage |
| `life_library` | class objects, vectors and structs, each with a member or element, in one another, functions called by C++, errors; 2 objects, 3 nodes, 2 levels; 303,987 states | a cascade of releases takes only what is out of use; no function begins with what a variable of an earlier call held; every unwinding ends, also when destructors add to the list being swept |
| `control` | 3,915 programs of main or of a function, each structure in each other one, and with errors; 593,793 states | jumps land and operands are there, the code follows the structured program, scopes are those of its blocks, no endless loop between two evaluations |
| `expressions` | expressions of two operators and chains of three over two variables, constants, an element, an attribute, a call, a choice and assignments, and 40 texts of the script language only | plain expressions come to their value in C++, trees keep the tokens, one value is left, the longest operator is read |
| `callstack` | one script function with a parameter and a variable, one C++ function, a global; 3 levels, 4 scopes, 7 cells, 3 strings, 3 activations, 2 operands; 860,101 states | levels, scopes, cells and strings of an activation survive calls, errors, cancellations and exceptions; a dumped function never runs |
| `lookup` | 3 classes and main, 2 sources of C++ and 3 of scripts, an extension of one class, one of 6 kinds of call site; 118,000 states up to symmetry | `this`, `super` and calls run the function that inheritance and arguments name, also from cached indexes |
| `session` | 4 nodes, 2 saved states, 4 frames, sources that fail in each pass; 2.2 million states | links are sound, running code is ready, variables hold no junk and keep their values, names stay unique, nothing is compiled twice |
| `life_cascade`, `expr_sign`, `lookup_metamethod` | small | the disagreements of section 6 |

Every property of a passing run has a mutant: a plausible bug in one mapped definition (a
share that is not taken, a jump one statement too far, a cache that is not rebuilt) under which
the same run finds that property violated. The mutants stand beside what they change.

*Bounds.* Counts, lists and levels interact pairwise: four nodes give a ring with a first, an inner,
a last and a free one, so that every case of `SHARE_LIST_DEATTACH` and every place of an insertion during a
walk occurs. Two objects, one with the other as a member, at two levels give every hand-over
between caller and callee; three nodes let an object be created while a sweep is at work. `MaxCascade`
limits the depth of a chain of containers to one more than its objects. In `life_library` the two objects are of
any two of the three kinds and either may hold the other: a release then cascades or a destructor puts a member into
the list that is being swept, or both, below one call and within an error.
`expressions`: the parser splits by groups and has no memory of more than one operator at a
time, so two operators meet in every pair of groups and three in the chains whose associativity matters;
bits are those of 20-bit integers, which no value of the instance leaves.
`callstack`: three activations let a script run below a C++ function that runs a script; each limit
is met by at least one path (3 levels, 4 scopes with one kept free, 7 cells, 3 strings).
`lookup`: three classes give a middle one that overrides and is overridden. The classes are
symmetric because nothing compares them. The site's kind is chosen once, so that each behaviour follows one instruction.
`control` nests each structure in each other one, and `while` bodies run without a bound
because what is left of a loop is the loop itself; for deeper nesting there are the theorems of section 4, whose assumption
about the length of statements TLC has checked on all states of this run, too. `session` has room for two sources in any
order with failures in any pass, and for two more after every restore. `MaxShares`, `MaxLevel` and `MaxCalls` stand for
limits of the code (`MAX_SHARES_VARIABLE`, `MAX_FUNCTION_CALL`), at which the process exits
or the script fails; the code beyond is not reached. `MaxLevel` is the last index of the lists, `MAX_FUNCTION_CALL - 1`: the
code's own test (`CVirtualMachine.cpp:1509`, before the increment) lets in one level more, for which `zero_shares` and `shared_var` have
no entry. What the machine does there is undefined, so ShareManager, ShareLists and ObjectLifetime do not enter it, and no property claims that
the code stays within the arrays. `MaxCalls` of CallStack is the code's limit itself. The runs of `control`, `expressions` and `lookup` switch off the deadlock check since a
program, an expression and a set of declarations end.

*Fairness.* Liveness is claimed of what the thread does by itself: `WF_vars(Machine)` in
ObjectLifetime and `WF_vars(Next)` in ControlFlow and ExpressionMachine. One thread runs the machine and no step of it
waits; nothing is assumed about how often the host calls or what a script does.

*What scripts the claims are about.* A passing run that leaves out a feature says so by its
`Features`; these experiments show what happens outside:

* ObjectLifetime: `operandArgument` violates `OperandsAlive` (a temporary stored by the callee is
  deleted under the caller); `escape` violates `NoDanglingReference` (RET forgets the shares
  of an object that a global also holds); aliased containers are `life_cascade`.
  With `leftovers` `VariablesStartUndefined`, `ScriptSeesNoDeletedObject`, `NoDanglingReference` and `CountCoversReferences` are violated,
  also with `noMain` and `single`: `execute` starts at the first cell after the globals for each call
  (`CVirtualMachine.cpp:1423-1428`), arguments come first, then variables, then operands (`:1436`, `:1602`), and only calls above
  level 1 initialise their variables (`:1588`). So a function with more variables or fewer arguments than one that C++ called before
  begins with that one's operands and arguments in its variables, and `POP_SCOPE` releases objects for which it has no share.
  `NoVariableOutlivesItsCall` is what remains true: nothing comes from a *variable* of an earlier call. The result of main is
  deleted before C++ sees it (`:2661`, `:2693-2694`), in `life_class` as in the code: `OperandsAlive` does not speak of it, the other properties hold
  all the same. An object that
  another one replaces is never released, because STORE compares the references after it has copied
  one into the other: `CountIsExact` is claimed without `overwrite`.
* ControlFlow: in `MCControlFlow`, three sets of programs are outside the run, and outside `ProgramsAssumption`
  or, the first, outside `StatementsAreShort`: `TooLong` (a statement of more than 255 instructions, whose jump
  lands elsewhere), `LeavesMain` (a return inside a block of main, whose scopes stay in `scope_info`)
  and `NoLabel` (a switch without default whose value has no label:
  the code falls into the first body). TLC finds a property violated for each when the assumption is taken away.
  A default after another label of its group (`case 1: default:`) is no error for the parser, but its sort then has the group
  twice and the compiler refuses the program; a label that two groups begin with is accepted, and the first one has it.
* Expressions: `PlainRunsAsCpp` speaks of the expressions that `Plain` admits, `TreeKeepsTokens` and
  `OneValueLeft` of all but those that `LosesTokens` and `Unbalanced` name. The forms left
  out, each of which the model shows to differ from C++:
  binary minus splits in every group, so that `x - y + (a - b)` negates the last sum; `!=` binds tighter than `+`;
  `/`, `%` and `*` chains associate to the right; `&&` and `||` are one group, and `& | ^ <<`
  one with `+`; comparisons chain; there is no short circuit; a sign before a packed right
  side is applied to the wrong part; a packed text that begins with a call or an access loses its rest;
  `-` or `!` before `++` drops it; `v[i++]` increments the element as well and `v[0]++` does nothing;
  an index on what is no variable uses the object of the VGET before; `(a.b).c` takes `a` as the member; comparisons of an integer with a
  number compare bits; integer division by zero ends the process; `- -b` and `x - ++a` are not
  parsed; `a * ;` and `+(a)` are accepted and miss an operand; `f(f)` calls the inner `f`.
* CallStack: `Spec` lets C++ throw what an error of the machine made it throw. With
  `SpecThrow`, where a function of `bind_function` throws because a result does not convert, no dump comes
  first and the levels stay behind: the claims are not made of it. Metamethods and `execute`
  do not look for a cancellation. A nested `execute` takes the strings from the first slot on and
  overwrites those of the interrupted statement: that is the `disturbed` of `StringsOutliveCalls`, though a
  comment (`CVirtualMachine.cpp:1444`) says that C++ cannot call a script function again.
  Operands are not checked against the size of the stack in the code; the guards `bound of the model` stop there.
* FunctionLookup: `Steady` and `LosesOverloads` name what is left out. A call site that has run on an
  object of one class runs that class's function on objects of every other; a site whose
  index was found for one type of argument keeps that overload for another; an
  extension in a later source is unknown to older objects and to classes derived before; of
  overloads inherited from C++ the last one remains; `this.g()` of an inherited C++ function
  always fails; a class two levels below a C++ class has no C++ object; in a nested
  function a load gets its place in the statement as index. An extension in the *same* source as its class
  (the example of README.md:156) is refused as already defined, which the model has no action for.
* Session: a function whose body failed to compile stays in the table of main without code
  (`CCompiler.cpp:2391` adds it, `:2587` compiles it later), the linker passes over it (`CScriptClass.cpp:879`), and the
  machine dereferences the missing code (`CVirtualMachine.cpp:1568`): a later eval or a host that calls it ends the
  process. `RunningCodeIsReady` names these functions (`NeverCompiled`), and the host of the model does not call them; the first
  attempt at the proof met them. `saveFunctions` violates `RunningCodeIsReady`, because a restored
  function has no code; without the exception `AfterFailedLink` that property is violated
  too, because a function that the host calls after a link that failed searches the table past
  the end of the machine's copy. The declarations before a syntax error stay in the list of nodes to
  compile and run with the next compile, which an empty branch (`CASTNode.cpp:3755`) was meant to prevent. The host of Session compiles what it
  parsed before it restores a state, and executes by itself only what it compiled last.

## 4. Proofs

Eight modules hold theorems and their lemmas, for all finite sets of nodes, slots, objects, classes and sources, for all functions and sizes that
meet the assumptions named in the modules they extend (`NullAssumption`, `BoundAssumption`,
`FunctionAssumption`, `SizeAssumption`, `ClassAssumption`, `SourceAssumption`, `SiteAssumption`, ...) and for any bounds:

| Module | Theorem | Statement |
|---|---|---|
| `ShareManagerProofs` | `ManagerTypeCorrect`, `ListsAlwaysMatchCounts`, `OnlyCandidatesAreFreed` | the manager, under any order of its operations, keeps its types and `ListsMatchCounts`, and frees candidates only; that levels stay below `MaxLevel` is the guard of `EnterLevel`, no claim about the arrays (section 3, bounds) |
| `ShareListsProofs` | `RingsTyped`, `RingsStayClosed`, `WalkNeverAtFreed` | the invariants of the run `lists` |
| | `RingsImplementManager` | the rings implement the manager: the refinement of the run `lists` |
| `ObjectLifetimeProofs` | `MachineImplementsManager` | every step of the machine is a step or a stutter of the manager |
| | `TypeCorrect`, `MachineListsMatchCounts` | types and lists of the machine |
| | `NeverDangling`, `CountsAlwaysCover`, `OperandsStayAlive`, `NothingIsDeletedTwice` | the safety properties of the run `life_class` |
| | `CountsAreExact`, `MainLeavesNoGarbage` | the invariants of the run `life_exact` |
| | `FunctionsStartAfresh` | `NoVariableOutlivesItsCall` of the run `life_library`, for all scripts |
| `ContainerProofs` | `ScriptsSeeNoDeletedObject` | `ScriptSeesNoDeletedObject` of the run `life_library`, with containers |
| | `ContainersImplementManager`, `OperandsOutliveSweeps`, `ElementsAreDeletedOnce` | the refinement, `OperandsAlive` and `CandidatesAreDistinctObjects`, with containers |
| `CallStackProofs` | `TypesHold`, `LevelsHold`, `NoDumpedFunctionRuns`, `ScopesHold`, `CellsHold`, `StringsHold`, `CancelsHold` | all properties of the run `callstack`, of `Spec` |
| `FunctionLookupProofs` | `LookupIsSound` | the invariant `LookupInv` of tables, objects and the call site |
| | `CallsRunDeclared`, `ThisIsMostDerived`, `SuperIsAbove` | all properties of the run `lookup` |
| `ControlFlowProofs` | `InvHolds` | the invariant `Inv`: the code of every program fits a plan, and the machine runs by it |
| | `ProgramIsFollowed` | compiler and machine together implement StructuredProgram: `FollowsProgram` of the run `control` |
| | `ScopesAreFollowed`, `TypeCorrect` | the invariants of the run `control` |
| `SessionProofs` | `SessionIsSound` | the invariant `SessionInv` |
| | `SessionTyped`, `LinksStaySound`, `ReadyWhenItRuns`, `NoJunkInVariables`, `EntriesStayRegistered`, `StatementsCompiledOnce`, `GlobalsAreKept` | all properties of the run `session` |

`ReadyWhenItRuns` assumes that `saveFunctions` is no feature, as section 3 explains.
The theorems about the machine state what scripts they are about:

| Assumption | Scripts | Why it is needed |
|---|---|---|
| `Disciplined` | class objects, without `escape`, `operandArgument` and `leftovers`: where C++ calls a function it is one function, always with as many arguments, and main only declares | `life_cascade` (containers) and the experiments of section 3 |
| `StoredOnce` | vectors, structs and class objects in any nesting; `single`, without `overwrite`, `escape`, `operandArgument` and `leftovers` | `life_cascade`: each release of a container releases its elements, so a second holder loses them; for ContainerProofs |
| `NoOverwriting` | as `Disciplined`, and: without `overwrite` | an object that another one replaces keeps its share; for `CountsAreExact` |
| `Tidy` | as `NoOverwriting`, and: no errors, no calls from C++, no members | for `MainLeavesNoGarbage`, see below |

`FunctionsStartAfresh` assumes nothing about scripts.

`Tidy` is what the code needs: when the candidate that is being deleted is the last of its list, `RemoveFree` empties
the list, with what the destructor has just put there from the object's members; an error outside all
scopes leaves without a sweep; and an object that is returned to C++ has no reference.

*The argument for objects.* None of the safety properties is inductive by itself. The invariant
`IInv == IManager /\ IObject` adds what the code relies on without saying so:

* `IManager`: types and `ListsMatchCounts`, that a node the sweep is about to free is a candidate, and that the
  walk has something left (`SweptNodeIsCandidate`, `MoreToSweep`).
* `DeadSlots`: slots out of scope and members of dead objects hold no reference, so that
  the references counted (`Refs`) are all the holders there are (`RefsAreHolders`).
* `OwnNode`, `CandidateNodes`: an object has a node of its own, and each candidate stands for an
  existing object, no object is a candidate twice (`DistinctCandidates`), and the only candidates that are not the node of
  their object are those of an object that is being returned, by a function (`ret`) or by main (`LostByMain`).
* `Counts`, `References`: the count covers the references, with the variable already visited and the
  member already released taken off, and references lead to existing objects.
* `Operands`, `Result`: operands of a caller wait, unshared, in the list of *their* level, which
  the sweep of a callee does not touch; the result has no node while it travels.
* `PoppedVars`, `Control`: which variables of the top scope are left, and which modes go together.

A candidate has count 0, so by `Counts` nothing holds it, so deleting it leaves no dangling
reference: that is the heart of `SweepFreePreserves`. There is one lemma for each group of
actions, `MachineUsesManager` splits each action into its part of the manager and its own, and
`ObjectInductive` puts them together. `IInv` was checked with TLC first.

*Exact counts* need a second invariant on top. `ExactInv` says that the count of an object is the number of the slots that hold it
(`ExactCounts`), which each action keeps because it changes holders and shares together, or neither (`HoldersStay`,
`SharesStay`); that a destructor has emptied the members it went through (`ReleasedMembers`), so that the deletion takes no
holder with it; and the same of the globals for `clearGlobals` (`ClearedGlobals`). *Garbage*: `TidyInv` adds that an object
without a share is in the list of some level, on its way to the caller, or returned by main and a candidate of its
sweep (`Condemned`): `NothingLost`; and that
levels above the running one have empty lists, since a function is left only after its sweep (`LeftLevelsAreSwept`).
When main has ended, all lists are empty, so what exists has a share, so by `ExactCounts` a holder.

*The argument for containers.* `IInv` does not hold with containers: while one is released its elements lose their shares and
still are in its members, so the counts do not cover the references. `ContainerInv` says instead what an object's fate is. It is
`Owned` (its one holder has its share), `Dying` (a candidate of the list that is swept or will be swept next), or `Forgotten` (a
candidate of a list that `RemoveFree` emptied with the last visit). What a variable in scope holds is `Owned` (`VariablesHold`). What a
member holds is so too, unless the owner is `Dying`: then the element may be `Dying` or deleted already, and the second release
from the owner's destructor finds no node; or the owner is `Forgotten`, and what it holds with it (`MembersHold`). `LastVisit` is what makes this
inductive: what the destructor of the last candidate puts into the list will never be deleted, so nothing that it holds may be
either. Outside of sweeps and of the visits to a scope's variables no object is `Dying` (`Calm`), so a running script finds what it can
reach alive. TLC checked `ContainerInv` on instances with different kinds, members and features before it was proved.

*Variables of earlier calls*: in `VarInv` a variable whose scope is not open is undefined or, in the frame of a function that C++ calls, names what
an operand left in its cell (`BeginsWell`, `ClosedVars`), because leaving a scope visits all of its variables (`VisitedVars`), on
every way out; a depth rises in `Call`, `PushScope` and `Execute` only. It holds for every kind of object and every feature, `leftovers` included,
so the values themselves, and not the counts, are all that it speaks of. Whether what an operand left still exists it does not say: it may not (section 3).

*The argument for the stacks.* `Inv` of CallStackProofs adds to the types:

* `DumpsEndInNative`: a dump ends at an `execute`, which only C++ calls, so that a C++ function stands on
  top of what was dumped. That no dumped script runs follows at once; it fails
  if a C++ function could return into one, which the test of its level prevents.
* `ScopesAreOrdered`: with `Floor(frame[i])`, the first entry of `scope_info` that is not of a caller,
  an entry is below it exactly if its owner is. A return pops to `Floor` and finds the
  entries of the caller complete; a C++ function that returns finds the top at its `Floor`.
* `CellsAreOrdered`: what a caller keeps lies above its variables and below what it called. The top
  of the value stack after a nested `execute` is wherever the script left it, so the
  invariant claims of a C++ function only that it is above where the function began.
* `StringsAreOrdered`: strings held by an undisturbed caller lie below the first slot of every script above it;
  `DisturbedAreLowest` makes the disturbed ones the bottom of the stack.
* `CancelsAreSeen`: while a cancelled run goes on without a dump, the flag is set and the `CALL` of a C++ function
  that will look at it is still on the stack.

Entering a function is one lemma (`EnteringKeepsInv`) for all five ways in, and what each passes is `Passes`;
leaving is two, with a result (`ResumeKeepsInv`) and by an error (`AbandonKeepsInv`). `Inv` was checked with TLC first.

*The argument for the rings.* `RingsInv` describes a heap of lists: each is a `Segment` of allocated nodes from where the walk stands (from its
first node, when no sweep is at work, and then it is a ring) to its last, inside which `next` and
`previous` agree; segments are disjoint (`HeapIsDescribed`); their nodes have the counts and levels of
their list (`RingsMatchCounts`); and what the walk holds in its local variables is still true (`WalkIsKnown`). `WalkStaysAllocated` and `RingsAreClosed` by themselves
say nothing of a list whose first nodes are freed. That a segment is *one* chain is said by sets: no smaller part of it holds its start and is
left by `next` at the last node only (`Least`). That needs no induction over the length of a chain,
which the prover has not: a closed part of the segment after an insertion or an unlinking gives one of the segment before.
There is one lemma per operation, which shows that it keeps
`RingsInv` and is the manager's operation, and `RingsImplementManager` puts them together.

*The argument for the lookup.* A table that follows its heritage (`Follows`) holds the functions of all levels, the most
general first, and `Place` says where each is; of overloads that C++ declares and a class inherits, the last one stands for all,
which is what `LosesOverloads` excludes from exactness. The nearest level is the highest index (`HighestIsNearest`), so the search from
the end is the search of inheritance. `TablesSound`: an index in a linked entry is what a search would find, and all entries are linked when a script runs (`TablesLinked`).
An extension keeps that, because what it adds is the first function of its name and arity (`AddedSearch`); and an object made
before lacks such additions only, so a search among its functions finds the same (`OldSearch`). `SiteSound`: an index at the site is the
one a search finds for the class and arguments that it has seen, and `Steady` lets it see no others.

*The argument for control flow.* The theorems are about programs of any size, depth and mixture of structures, without an induction over
trees. The machine's half: code is run by a *plan*, which gives every place (each instruction, the end of each statement, and the NULL) a point:
what is left of the structured program there, the open blocks, the number of operands, what the last of them are for (the value of a
switch, a label over it, the result of comparing both) and what the last value may be. `Program` says that each instruction leads from the point before it
to the one after it, or to that of its target; then one lemma per instruction (`LoadStep`, `JumpIfStep`, ...) shows that a machine that is where its
point holds (`RunsBy`) is so after it, and that its step is one of StructuredProgram or a stutter. "What is left here is what is left there" (`Same`)
means that both unfold to the same settled states, said by the sets closed under steps, since the prover has no induction over steps.

The compiler's half is the invariant that it compiles such code (`Compiling`): the code so far fits a plan, apart from the jumps whose target is open,
each of which fits what the variable that holds it is to lead to (`Static`); and what is left to do *leads* on, thing by thing, from the point at the end of
the code to the end of the program (`Leads`). A call replaces a node by the list that its function gives, so for each function there
is one lemma that the list leads where the node did (`CompilesWhile`, `CompilesSwitch`, ...): this is where the order of tests and bodies, the scopes that a `for` opens and
closes, and each jump are argued, once and for whatever the parts are. And for each thing that is put into the code one
lemma says that it goes on fitting (`StaticJump`, `StaticNext`, ...). The plan and the targets are quantified in `Inv`, so TLC cannot evaluate it; TLC checks what follows from it.

What the theorems assume, the code needs. `StatementsAreShort` (every statement has fewer than 255 instructions): no check in the compiler keeps `index_op1`
within its 8 bits, and 255 stands for no target. It is a hypothesis on the run, `Spec /\ []StatementsAreShort => ...`, and holds of
every program whose expressions are short, since each statement is the code of one expression, a jump or two and the tests of a switch.
`ValueHasGroup` (a switch without default has a group for each value) and the main programs without a return in a block
are parts of `ProgramsAssumption`: section 3 has
programs outside them for which the properties fail.

*The argument for the session.* `SessionInv` is the conjunction of nine parts, one per structure of the code:
`StatesSound`, `ParseSound`, `WaitSound`, `MainSound`, `LinkSound`, `CacheSound`, `RunSound`, `StackSound` and `ControlTyped`. Tables only grow
until a state is restored, and a restored state is a table that was linked as a whole. The caches of the machine are the sizes of a table all
of whose entries were ready; a link that fails at entry `k` has failed beyond them, so what the caches show stays ready
although what follows is not. A node that waits is newer than all code, hence
compiled once. The variables in use fit into the slots that main's frame reserves by a cardinality argument: each has a slot of its own.
Parts were split until each step of `Next` disturbs few of them. TLC checked `SessionInv` on all 2,181,271 states of the run first, and
`LookupInv` on those of the run `lookup`.

*Only model-checked*: liveness (`UnwindingEnds`, `NeverSpins`), which is beyond the prover; and the modules of expressions, whose parser
and compiler are recursive functions on texts and trees (RECURSIVE operators and induction over data are beyond the prover): `PlainRunsAsCpp`,
`TreeKeepsTokens`, `OneValueLeft`, `LongestIsRead`. All other properties of the passing runs are stated by a theorem. The disagreements of section 6 are runs by nature.

## 5. What is not modelled

Values of strings and numbers with decimals, and formatting; the conversions of arguments for C++;
DELETE, strings, function values, the operations
of containers and the values of arguments in ObjectLifetime; the level 128 itself, which the machine's test admits
(`CVirtualMachine.cpp:1509`) and for which its arrays have no entry (undefined behaviour; `MaxLevel` stands for the last level with one); addresses of stack slots and elements; an `eval` from a C++ function while a
script runs, which compiles main anew under the running one; lookup by lexical scope;
member variables of classes; literals of vectors and structs beyond single elements. The console, the utilities
and the older value classes have no state of interest. `PROJECT.json` lists every component with its status.

## 6. Findings

Each is a run that TLC finds violated, and a line of the repository that says otherwise.

1. `life_cascade`: a vector releases its elements at *each* release of the vector, so a second
   variable that goes out of scope deletes the elements under the first one.
2. `expr_sign`: a minus splits the expression in every group of operators, so that `x - y + (a - b)`
   comes to `x - y - (a - b)`.
3. `lookup_metamethod`: the place of a metamethod in a list is stored in the instruction, and the
   second execution of the operator takes it for a pointer.

The experiments of section 3 show further disagreements that are no runs.

## 7. Plan

Done, in this order: ShareManager, ShareLists, ObjectLifetime, their proofs, StructuredProgram and
ControlFlow, Session, the modules of expressions, CallStack, FunctionLookup, CallStackProofs, ShareListsProofs,
SessionProofs, FunctionLookupProofs, ContainerProofs, ControlFlowProofs. What is left:

1. **Scopes**: registration of symbols by the parser, allocation of variables by the compiler and
   release by the machine, against an abstract lexical lookup.
2. **ObjectLifetime**: DELETE, strings, function values, container operations.
3. An `eval` within a script, as a composition of Session and CallStack.
