---------------------------- MODULE SessionProofs ----------------------------
(***************************************************************************)
(* The properties of a session, for every set of sources, C++ functions    *)
(* and C++ variables, and every length of the session: the inductive       *)
(* invariant; what the operations make of a sound state, whose tables and  *)
(* links stay sound and only grow; and what every step keeps.              *)
(***************************************************************************)
EXTENDS Session, FiniteSetTheorems, WellFoundedInduction, TLAPS

-----------------------------------------------------------------------------
(* The inductive invariant.                                                 *)

LinkType      == [to : {"nothing", "variable", "function", "native"}, at : Nat]
InsType       == [node : 1..MaxNodes, op : {"set", "use"}, name : Names, link : LinkType]
FunctionEntry == [name : Names, native : BOOLEAN, node : 0..MaxNodes, code : CodeType]
VariableEntry == [name : Names, native : BOOLEAN]
NodeEntry     == [item : Item, source : {"parsing", "parsed", "failed"}]
SymbolEntry   == {"variable", "function"} \X Names
FrameType     == [fun : Nat, pc : Nat \ {0}]
StateShape    == [nodes : Seq(NodeEntry), symbols : Seq(SUBSET SymbolEntry),
                  functions : Seq(FunctionEntry), variables : Seq(VariableEntry),
                  files : SUBSET {s.file : s \in Sources}]

SoundItem(item) ==
    /\ item.kind \in {"variable", "function"} => item.name # NoName
    /\ item.kind = "use" => item.uses # NoName

AllOf(symbols)   == UNION {symbols[d] : d \in DOMAIN symbols}
SymbolsOf(state) == AllOf(state.symbols)

\* An instruction that is linked leads where its source says.
SoundLink(state, x) ==
    /\ x.link.to = "nothing" => x.link = Unlinked
    /\ x.link.to = "variable" => LeadsTo(state.variables, x.link, x.name)
    /\ x.link.to = "function" =>
          LeadsTo(state.functions, x.link, x.name) /\ ~state.functions[x.link.at].native
    /\ x.link.to = "native" => \E f \in DOMAIN state.functions :
          state.functions[f].native /\ state.functions[f].name = x.name
SoundCode(state, ins) ==
    \A i \in DOMAIN ins : SoundLink(state, ins[i]) /\ ins[i].node <= Len(state.nodes)

\* A variable of a script stands for a node, so that there are never more of them
\* than nodes; a C++ variable for a name that the host may register.
VariablesSound(state) ==
    \A p \in DOMAIN state.variables :
        /\ state.variables[p].native =>
              /\ state.variables[p].name \in NativeVars
              /\ <<"variable", state.variables[p].name>> \in state.symbols[1]
        /\ ~state.variables[p].native =>
              /\ <<"variable", state.variables[p].name>> \in SymbolsOf(state)
              /\ \E i \in DOMAIN state.nodes :
                    /\ state.nodes[i].item.kind = "variable"
                    /\ state.nodes[i].item.name = state.variables[p].name
        /\ \A q \in DOMAIN state.variables :
              /\ state.variables[q].name = state.variables[p].name
              /\ state.variables[q].native = state.variables[p].native
              => q = p

FunctionsSound(state) ==
    \A k \in DOMAIN state.functions :
        /\ state.functions[k].native => state.functions[k].node = 0 /\ state.functions[k].code = NoCode
        /\ ~state.functions[k].native =>
              /\ <<"function", state.functions[k].name>> \in SymbolsOf(state)
              /\ state.functions[k].node \in DOMAIN state.nodes
        /\ \A m \in DOMAIN state.functions :
              state.functions[m].name = state.functions[k].name => m = k
        /\ SoundCode(state, state.functions[k].code.ins)

StateSound(state) ==
    /\ state \in StateShape
    /\ Len(state.nodes) <= MaxNodes
    /\ state.symbols # <<>>
    /\ \A i \in DOMAIN state.nodes : SoundItem(state.nodes[i].item)
    /\ VariablesSound(state)
    /\ FunctionsSound(state)

\* Only what is saved with its functions loses their code.
SavesFunctions == "saveFunctions" \in Features
CodeIsKept ==
    /\ \A i \in DOMAIN vec_saved_state : \A k \in DOMAIN vec_saved_state[i].functions :
          vec_saved_state[i].functions[k].native \/ SavesFunctions
    /\ \A k \in DOMAIN current.functions :
          current.functions[k].native \/ SavesFunctions
             \/ current.functions[k].code.exists \/ NeverCompiled(k)

StatesSound ==
    /\ StateSound(current)
    /\ vec_saved_state \in Seq(StateShape)
    /\ \A i \in DOMAIN vec_saved_state : StateSound(vec_saved_state[i])
    /\ CodeIsKept

ControlTyped ==
    /\ stack \in [Slots -> {"undefined", "set", "native", "junk"}]
    /\ cache \in [built : BOOLEAN, functions : Nat, nodes : Nat]
    /\ phase \in {"idle", "parsing", "parsed", "compiling", "linking", "linked", "running"}
    /\ call \in {"none", "eval", "parse", "compile", "execute", "function"}
    /\ phase = "idle" <=> call = "none"

ParseSound ==
    phase = "parsing" =>
        /\ todo \in Seq(Item)
        /\ \A i \in DOMAIN todo : SoundItem(todo[i])
        /\ Len(current.nodes) + Len(todo) <= MaxNodes

\* The nodes that wait for a compile, or in one: newer than all that has code,
\* in the order of their sources, and registered as symbols.
Waiting == IF phase = "compiling" THEN todo ELSE astNodeToCompile
NewerThanCode(node) ==
    /\ \A k \in DOMAIN current.functions :
          /\ current.functions[k].node < node
          /\ \A j \in DOMAIN current.functions[k].code.ins :
                current.functions[k].code.ins[j].node < node
    /\ \A j \in DOMAIN main.ins : main.ins[j].node < node
    /\ \A j \in DOMAIN stament : stament[j].node < node
Registered(item) ==
    item.kind \in {"variable", "function"} => <<item.kind, item.name>> \in Symbols
WaitSound ==
    /\ phase = "compiling" => astNodeToCompile = <<>>
    /\ Waiting \in Seq(1..MaxNodes)
    /\ \A i \in DOMAIN Waiting :
          /\ Waiting[i] <= Len(current.nodes)
          /\ Registered(current.nodes[Waiting[i]].item)
          /\ NewerThanCode(Waiting[i])
          /\ \A j \in DOMAIN Waiting : i < j => Waiting[i] < Waiting[j]

MainSound ==
    /\ main \in CodeType
    /\ SoundCode(current, main.ins)
    /\ stament \in Seq(InsType)
    /\ \A i \in DOMAIN stament : stament[i].link = Unlinked /\ stament[i].node <= Len(current.nodes)
    /\ phase # "compiling" => stament = <<>>
    /\ phase = "compiling" => main = NoCode

LinkSound ==
    phase = "linking" =>
        /\ todo \in Seq(0..Len(current.functions))
        /\ \A k \in 0..Len(current.functions) :
              IsLinked(CodeOf(k).ins) \/ \E i \in DOMAIN todo : todo[i] = k

\* Code that the machine may run with its caches and its stack as they are.
ReadyCode(ins) ==
    /\ IsLinked(ins)
    /\ \A i \in DOMAIN ins :
          /\ ins[i].link.to = "function" => ins[i].link.at <= cache.functions
          /\ ins[i].link.to = "variable" /\ current.variables[ins[i].link.at].native =>
                stack[ins[i].link.at] = "native"

\* What the caches show stays ready, whatever fails later.  Main is ready when it
\* is linked and the caches are up to date.
MainUpToDate == IsLinked(main.ins) /\ cache.functions = Len(current.functions)
CacheSound ==
    /\ cache.functions <= Len(current.functions)
    /\ \A k \in 1..cache.functions :
          current.functions[k].node <= cache.nodes /\ ReadyCode(current.functions[k].code.ins)
    /\ phase \notin {"compiling", "linking"} /\ MainUpToDate => ReadyCode(main.ins)

RunSound ==
    /\ phase = "linked" => MainUpToDate
    /\ frames \in Seq(FrameType)
    /\ phase = "running" <=> frames # <<>>
    /\ phase = "running" /\ call # "function" => cache.functions = Len(current.functions)
    /\ \A i \in DOMAIN frames :
          frames[i].fun <= cache.functions /\ (frames[i].fun = 0 => MainUpToDate)

StackSound ==
    /\ VariablesHoldNoJunk
    /\ \A p \in Slots : stack[p] = "set" =>
          p \in DOMAIN current.variables /\ ~current.variables[p].native

SessionInv ==
    /\ StatesSound
    /\ ControlTyped
    /\ ParseSound
    /\ WaitSound
    /\ MainSound
    /\ LinkSound
    /\ CacheSound
    /\ RunSound
    /\ StackSound

-----------------------------------------------------------------------------
(* The operators of the model.                                              *)

\* A set of naturals has a least member.
LEMMA LeastOf ==
    ASSUME NEW S, S \subseteq Nat, S # {}
    PROVE  \E x \in S : \A y \in S : x <= y
<1>1. PICK x \in S : \A y \in S : ~(<<y, x>> \in OpToRel(<, Nat))
  BY NatLessThanWellFounded, WFMin
<1>2. \A y \in S : ~(y < x)
  BY <1>1 DEF OpToRel
<1> QED  BY <1>2

\* A set of indexes has a greatest member.
LEMMA GreatestOf ==
    ASSUME NEW n \in Nat, NEW S, S \subseteq 1..n, S # {}
    PROVE  \E x \in S : \A y \in S : y <= x
<1> DEFINE T == {n - x : x \in S}
<1>1. T \subseteq Nat /\ T # {}
  <2>1. \A x \in S : n - x \in Nat
    OBVIOUS
  <2> QED  BY <2>1
<1>2. PICK t \in T : \A y \in T : t <= y
  <2> HIDE DEF T
  <2> QED  BY <1>1, LeastOf
<1>3. PICK x \in S : t = n - x
  OBVIOUS
<1>4. ASSUME NEW y \in S  PROVE y <= x
  <2>1. n - y \in T
    OBVIOUS
  <2> QED  BY <2>1, <1>2, <1>3
<1> QED  BY <1>4

LEMMA FunctionIsSequence ==
    ASSUME NEW T, NEW n \in Nat, NEW f \in [1..n -> T]
    PROVE  f \in Seq(T) /\ Len(f) = n
<1>1. f \in Seq(T)
  OBVIOUS
<1>2. Len(f) \in Nat /\ 1..Len(f) = 1..n
  BY <1>1
<1>3. CASE Len(f) < n
  <2>1. n \in 1..n /\ n \notin 1..Len(f)
    BY <1>2, <1>3
  <2> QED  BY <1>2, <2>1
<1>4. CASE n < Len(f)
  <2>1. Len(f) \in 1..Len(f) /\ Len(f) \notin 1..n
    BY <1>2, <1>4
  <2> QED  BY <1>2, <2>1
<1> QED  BY <1>1, <1>2, <1>3, <1>4

\* LastWith finds an entry of that name exactly when there is one.
LEMMA LastWithFinds ==
    ASSUME NEW T, NEW entries \in Seq(T), NEW name
    PROVE  /\ LastWith(entries, name) \in 0..Len(entries)
           /\ LastWith(entries, name) # 0 =>
                 /\ LastWith(entries, name) \in DOMAIN entries
                 /\ entries[LastWith(entries, name)].name = name
           /\ LastWith(entries, name) = 0 => \A i \in DOMAIN entries : entries[i].name # name
<1> DEFINE at == {i \in DOMAIN entries : entries[i].name = name}
<1>1. Len(entries) \in Nat /\ DOMAIN entries = 1..Len(entries)
  OBVIOUS
<1>2. CASE at = {}
  <2>1. LastWith(entries, name) = 0
    BY <1>2 DEF LastWith
  <2> QED  BY <1>1, <1>2, <2>1
<1>3. CASE at # {}
  <2>1. \E i \in at : \A j \in at : j <= i
    <3>1. at \subseteq 1..Len(entries)
      BY <1>1
    <3> HIDE DEF at
    <3> QED  BY <1>1, <1>3, <3>1, GreatestOf
  <2>2. LastWith(entries, name) = CHOOSE i \in at : \A j \in at : j <= i
    BY <1>3 DEF LastWith
  <2>3. LastWith(entries, name) \in at
    <3> HIDE DEF at
    <3> QED  BY <2>1, <2>2
  <2> QED  BY <1>1, <2>3
<1> QED  BY <1>2, <1>3

\* What the linker finds is an entry of that name.
LEMMA FindIsSound ==
    ASSUME NEW state, state.functions \in Seq(FunctionEntry),
           state.variables \in Seq(VariableEntry), NEW name \in Names
    PROVE  /\ Find(state, name) \in LinkType
           /\ Find(state, name).to = "nothing" => Find(state, name) = Unlinked
           /\ Find(state, name).to = "variable" =>
                 LeadsTo(state.variables, Find(state, name), name)
           /\ Find(state, name).to = "function" =>
                 /\ LeadsTo(state.functions, Find(state, name), name)
                 /\ ~state.functions[Find(state, name).at].native
           /\ Find(state, name).to = "native" => \E f \in DOMAIN state.functions :
                 state.functions[f].native /\ state.functions[f].name = name
<1> DEFINE F == LastWith(state.functions, name)
           V == LastWith(state.variables, name)
<1>1. /\ F \in Nat
      /\ F # 0 => F \in DOMAIN state.functions /\ state.functions[F].name = name
  <2>1. Len(state.functions) \in Nat
    OBVIOUS
  <2> QED  BY <2>1, LastWithFinds
<1>2. /\ V \in Nat
      /\ V # 0 => V \in DOMAIN state.variables /\ state.variables[V].name = name
  <2>1. Len(state.variables) \in Nat
    OBVIOUS
  <2> QED  BY <2>1, LastWithFinds
<1>3. Find(state, name) = IF F # 0 THEN FunctionLink(state, F)
                          ELSE IF V # 0 THEN [to |-> "variable", at |-> V] ELSE Unlinked
  BY DEF Find
<1> HIDE DEF F, V
<1>4. CASE F # 0
  <2>1. Find(state, name) = IF state.functions[F].native THEN [to |-> "native", at |-> 0]
                                                         ELSE [to |-> "function", at |-> F]
    BY <1>3, <1>4 DEF FunctionLink
  <2>2. CASE state.functions[F].native
    <3>1. Find(state, name) = [to |-> "native", at |-> 0]
      BY <2>1, <2>2
    <3> QED  BY <3>1, <2>2, <1>1, <1>4 DEF LinkType
  <2>3. CASE ~state.functions[F].native
    <3>1. Find(state, name) = [to |-> "function", at |-> F]
      BY <2>1, <2>3
    <3> QED  BY <3>1, <2>3, <1>1, <1>4 DEF LinkType, LeadsTo
  <2> QED  BY <2>2, <2>3
<1>5. CASE F = 0 /\ V # 0
  <2>1. Find(state, name) = [to |-> "variable", at |-> V]
    BY <1>3, <1>5
  <2> QED  BY <2>1, <1>2, <1>5 DEF LinkType, LeadsTo
<1>6. CASE F = 0 /\ V = 0
  <2>1. Find(state, name) = Unlinked
    BY <1>3, <1>6
  <2> QED  BY <2>1 DEF LinkType, Unlinked
<1> QED  BY <1>4, <1>5, <1>6

\* The linker keeps what is linked, and every new link is sound.
LEMMA LinkedIsSound ==
    ASSUME NEW state, state.functions \in Seq(FunctionEntry),
           state.variables \in Seq(VariableEntry),
           NEW ins \in Seq(InsType), SoundCode(state, ins)
    PROVE  /\ Linked(state, ins) \in Seq(InsType)
           /\ DOMAIN Linked(state, ins) = DOMAIN ins
           /\ SoundCode(state, Linked(state, ins))
           /\ \A i \in DOMAIN ins : Linked(state, ins)[i].node = ins[i].node
           /\ IsLinked(ins) => Linked(state, ins) = ins
<1> DEFINE new(i) == IF i < FirstMissing(state, ins) /\ ins[i].link = Unlinked
                     THEN [ins[i] EXCEPT !.link = Find(state, ins[i].name)] ELSE ins[i]
<1>1. Linked(state, ins) = [i \in DOMAIN ins |-> new(i)]
  BY DEF Linked
<1>2. ASSUME NEW i \in DOMAIN ins
      PROVE  new(i) \in InsType /\ new(i).node = ins[i].node /\ SoundLink(state, new(i))
  <2>1. ins[i] \in InsType /\ SoundLink(state, ins[i])
    BY DEF SoundCode
  <2>2. CASE i < FirstMissing(state, ins) /\ ins[i].link = Unlinked
    <3>1. PICK link : link = Find(state, ins[i].name)
      OBVIOUS
    <3>2. PICK x : x = [ins[i] EXCEPT !.link = link]
      OBVIOUS
    <3>3. new(i) = x
      BY <2>2, <3>1, <3>2
    <3>4. ins[i].name \in Names
      BY <2>1 DEF InsType
    <3>5. /\ link \in LinkType
          /\ link.to = "nothing" => link = Unlinked
          /\ link.to = "variable" => LeadsTo(state.variables, link, ins[i].name)
          /\ link.to = "function" =>
                /\ LeadsTo(state.functions, link, ins[i].name)
                /\ ~state.functions[link.at].native
          /\ link.to = "native" => \E f \in DOMAIN state.functions :
                state.functions[f].native /\ state.functions[f].name = ins[i].name
      BY <3>1, <3>4, FindIsSound
    <3>6. x \in InsType /\ x.node = ins[i].node /\ x.name = ins[i].name /\ x.link = link
      BY <2>1, <3>2, <3>5 DEF InsType
    <3>7. SoundLink(state, x)
      BY <3>5, <3>6 DEF SoundLink
    <3> QED  BY <3>3, <3>6, <3>7
  <2>3. CASE ~(i < FirstMissing(state, ins) /\ ins[i].link = Unlinked)
    <3>1. new(i) = ins[i]
      BY <2>3
    <3> QED  BY <3>1, <2>1
  <2> QED  BY <2>2, <2>3
<1>3. ASSUME IsLinked(ins)  PROVE Linked(state, ins) = ins
  <2>1. \A i \in DOMAIN ins : new(i) = ins[i]
    BY <1>3 DEF IsLinked
  <2> QED  BY <1>1, <2>1
<1> HIDE DEF new
<1>4. Len(ins) \in Nat /\ DOMAIN ins = 1..Len(ins)
  OBVIOUS
<1>5. Linked(state, ins) \in Seq(InsType)
  BY <1>1, <1>2, <1>4
<1>6. /\ DOMAIN Linked(state, ins) = DOMAIN ins
      /\ \A i \in DOMAIN ins : Linked(state, ins)[i] = new(i)
  BY <1>1
<1>7. SoundCode(state, Linked(state, ins))
  <2>1. \A i \in DOMAIN ins : ins[i].node <= Len(state.nodes)
    BY DEF SoundCode
  <2> QED  BY <1>2, <1>6, <2>1 DEF SoundCode
<1> QED  BY <1>2, <1>3, <1>5, <1>6, <1>7

-----------------------------------------------------------------------------
(* States that grow.  The indexes of a table never change their entries.    *)

Grows(s, t) ==
    /\ Len(s.nodes) <= Len(t.nodes)
    /\ \A i \in DOMAIN s.nodes : t.nodes[i].item = s.nodes[i].item
    /\ SymbolsOf(s) \subseteq SymbolsOf(t)
    /\ s.symbols[1] \subseteq t.symbols[1]
    /\ Len(s.functions) <= Len(t.functions)
    /\ \A k \in DOMAIN s.functions :
          /\ t.functions[k].name = s.functions[k].name
          /\ t.functions[k].native = s.functions[k].native
          /\ t.functions[k].node = s.functions[k].node
    /\ Len(s.variables) <= Len(t.variables)
    /\ \A p \in DOMAIN s.variables : t.variables[p] = s.variables[p]

\* What the steps make of a state.
NodeAdded(s, item, syms) == [s EXCEPT !.nodes = Append(@, Node(item)), !.symbols = syms]
VariableAdded(s, e)      == [s EXCEPT !.variables = Append(@, e)]
FunctionAdded(s, e)      == [s EXCEPT !.functions = Append(@, e)]
ScopeAdded(a, d, new)    == [a EXCEPT ![d] = @ \cup new]
Recoded(s, k, code)      == [s EXCEPT !.functions[k].code = code]

LEMMA ShapeOfState ==
    ASSUME NEW s \in StateShape
    PROVE  /\ s.nodes \in Seq(NodeEntry) /\ Len(s.nodes) \in Nat /\ DOMAIN s.nodes = 1..Len(s.nodes)
           /\ s.symbols \in Seq(SUBSET SymbolEntry)
           /\ s.functions \in Seq(FunctionEntry) /\ Len(s.functions) \in Nat
           /\ DOMAIN s.functions = 1..Len(s.functions)
           /\ s.variables \in Seq(VariableEntry) /\ Len(s.variables) \in Nat
           /\ DOMAIN s.variables = 1..Len(s.variables)
<1>1. /\ s.nodes \in Seq(NodeEntry)
      /\ s.symbols \in Seq(SUBSET SymbolEntry)
      /\ s.functions \in Seq(FunctionEntry)
      /\ s.variables \in Seq(VariableEntry)
  BY DEF StateShape
<1> QED  BY <1>1

\* Sound links stay sound in a state that has grown.
LEMMA GrowsKeepsLinks ==
    ASSUME NEW s \in StateShape, NEW t \in StateShape, Grows(s, t),
           NEW x, SoundLink(s, x)
    PROVE  SoundLink(t, x)
<1>1. /\ DOMAIN s.variables \subseteq DOMAIN t.variables
      /\ DOMAIN s.functions \subseteq DOMAIN t.functions
  BY ShapeOfState DEF Grows
<1>2. LeadsTo(s.variables, x.link, x.name) => LeadsTo(t.variables, x.link, x.name)
  BY <1>1 DEF Grows, LeadsTo
<1>3. LeadsTo(s.functions, x.link, x.name) /\ ~s.functions[x.link.at].native
      => LeadsTo(t.functions, x.link, x.name) /\ ~t.functions[x.link.at].native
  BY <1>1 DEF Grows, LeadsTo
<1>4. ASSUME NEW f \in DOMAIN s.functions,
             s.functions[f].native, s.functions[f].name = x.name
      PROVE  \E g \in DOMAIN t.functions : t.functions[g].native /\ t.functions[g].name = x.name
  BY <1>1, <1>4 DEF Grows
<1> QED  BY <1>2, <1>3, <1>4 DEF SoundLink

LEMMA GrowsKeepsCode ==
    ASSUME NEW s \in StateShape, NEW t \in StateShape, Grows(s, t),
           NEW ins \in Seq(InsType), SoundCode(s, ins)
    PROVE  SoundCode(t, ins)
<1> SUFFICES ASSUME NEW i \in DOMAIN ins
             PROVE  SoundLink(t, ins[i]) /\ ins[i].node <= Len(t.nodes)
  BY DEF SoundCode
<1>1. SoundLink(s, ins[i]) /\ ins[i].node <= Len(s.nodes)
  BY DEF SoundCode
<1>2. SoundLink(t, ins[i])
  BY <1>1, GrowsKeepsLinks
<1>3. ins[i] \in InsType
  OBVIOUS
<1>4. ins[i].node \in Nat
  BY <1>3, BoundAssumption DEF InsType
<1>5. Len(s.nodes) <= Len(t.nodes) /\ Len(s.nodes) \in Nat /\ Len(t.nodes) \in Nat
  BY ShapeOfState DEF Grows
<1> QED  BY <1>1, <1>2, <1>4, <1>5

\* The code of a function entry.
LEMMA CodeOfEntry ==
    ASSUME NEW s \in StateShape, NEW k \in DOMAIN s.functions
    PROVE  /\ s.functions[k].code \in CodeType
           /\ s.functions[k].code.ins \in Seq(InsType)
           /\ s.functions[k].code.exists \in BOOLEAN
           /\ s.functions[k].name \in Names
           /\ s.functions[k].native \in BOOLEAN
           /\ s.functions[k].node \in Nat
<1>1. s.functions[k] \in FunctionEntry
  BY ShapeOfState
<1>2. s.functions[k].code \in CodeType
  BY <1>1 DEF FunctionEntry
<1> QED  BY <1>1, <1>2, BoundAssumption DEF FunctionEntry, CodeType, InsType, LinkType

LEMMA VariablesGrow ==
    ASSUME NEW s \in StateShape, NEW t \in StateShape, Grows(s, t), VariablesSound(s),
           t.variables = s.variables
    PROVE  VariablesSound(t)
<1> SUFFICES ASSUME NEW p \in DOMAIN t.variables
             PROVE  /\ t.variables[p].native =>
                          /\ t.variables[p].name \in NativeVars
                          /\ <<"variable", t.variables[p].name>> \in t.symbols[1]
                    /\ ~t.variables[p].native =>
                          /\ <<"variable", t.variables[p].name>> \in SymbolsOf(t)
                          /\ \E i \in DOMAIN t.nodes :
                                /\ t.nodes[i].item.kind = "variable"
                                /\ t.nodes[i].item.name = t.variables[p].name
                    /\ \A q \in DOMAIN t.variables :
                          /\ t.variables[q].name = t.variables[p].name
                          /\ t.variables[q].native = t.variables[p].native
                          => q = p
  BY DEF VariablesSound
<1>1. DOMAIN s.nodes \subseteq DOMAIN t.nodes
  BY ShapeOfState DEF Grows
<1>2. ASSUME ~s.variables[p].native
      PROVE  \E i \in DOMAIN t.nodes :
                /\ t.nodes[i].item.kind = "variable"
                /\ t.nodes[i].item.name = t.variables[p].name
  <2>1. PICK i \in DOMAIN s.nodes : /\ s.nodes[i].item.kind = "variable"
                                    /\ s.nodes[i].item.name = s.variables[p].name
    BY <1>2 DEF VariablesSound
  <2> QED  BY <1>1, <2>1 DEF Grows
<1>3. s.variables[p].native => <<"variable", s.variables[p].name>> \in t.symbols[1]
  BY DEF VariablesSound, Grows
<1>4. ~s.variables[p].native => <<"variable", s.variables[p].name>> \in SymbolsOf(t)
  BY DEF VariablesSound, Grows
<1> QED  BY <1>2, <1>3, <1>4 DEF VariablesSound

LEMMA FunctionsGrow ==
    ASSUME NEW s \in StateShape, NEW t \in StateShape, Grows(s, t), FunctionsSound(s),
           t.functions = s.functions
    PROVE  FunctionsSound(t)
<1> SUFFICES ASSUME NEW k \in DOMAIN t.functions
             PROVE  /\ t.functions[k].native => t.functions[k].node = 0 /\ t.functions[k].code = NoCode
                    /\ ~t.functions[k].native =>
                          /\ <<"function", t.functions[k].name>> \in SymbolsOf(t)
                          /\ t.functions[k].node \in DOMAIN t.nodes
                    /\ \A m \in DOMAIN t.functions :
                          t.functions[m].name = t.functions[k].name => m = k
                    /\ SoundCode(t, t.functions[k].code.ins)
  BY DEF FunctionsSound
<1>1. DOMAIN s.nodes \subseteq DOMAIN t.nodes
  BY ShapeOfState DEF Grows
<1>2. SoundCode(t, t.functions[k].code.ins)
  <2>1. s.functions[k].code.ins \in Seq(InsType)
    BY CodeOfEntry
  <2>2. SoundCode(s, s.functions[k].code.ins)
    BY DEF FunctionsSound
  <2> QED  BY <2>1, <2>2, GrowsKeepsCode
<1> QED  BY <1>1, <1>2 DEF FunctionsSound, Grows

\* What a parse does to a state.
LEMMA ParsedStateIsSound ==
    ASSUME NEW s, StateSound(s), NEW t \in StateShape, Grows(s, t),
           t.functions = s.functions, t.variables = s.variables,
           Len(t.nodes) <= MaxNodes, t.symbols # <<>>,
           \A i \in DOMAIN t.nodes : SoundItem(t.nodes[i].item)
    PROVE  StateSound(t)
BY VariablesGrow, FunctionsGrow DEF StateSound

\* A new variable.
LEMMA AddedVariableIsSound ==
    ASSUME NEW s, StateSound(s), NEW e \in VariableEntry, NEW t,
           t = VariableAdded(s, e),
           e.native => e.name \in NativeVars /\ <<"variable", e.name>> \in s.symbols[1],
           ~e.native => /\ <<"variable", e.name>> \in SymbolsOf(s)
                        /\ \E i \in DOMAIN s.nodes : /\ s.nodes[i].item.kind = "variable"
                                                     /\ s.nodes[i].item.name = e.name,
           \A q \in DOMAIN s.variables :
                ~(s.variables[q].name = e.name /\ s.variables[q].native = e.native)
    PROVE  /\ StateSound(t)
           /\ Grows(s, t)
           /\ t.functions = s.functions /\ t.nodes = s.nodes /\ t.symbols = s.symbols
           /\ Len(t.variables) = Len(s.variables) + 1
           /\ t.variables[Len(t.variables)] = e
<1>1. s \in StateShape
  BY DEF StateSound
<1>2. /\ t \in StateShape
      /\ t.nodes = s.nodes /\ t.functions = s.functions /\ t.symbols = s.symbols
      /\ t.variables = Append(s.variables, e)
  <2>1. Append(s.variables, e) \in Seq(VariableEntry)
    BY <1>1, ShapeOfState
  <2> QED  BY <1>1, <2>1 DEF StateShape, VariableAdded
<1>3. /\ Len(t.variables) = Len(s.variables) + 1
      /\ t.variables[Len(t.variables)] = e
      /\ DOMAIN t.variables = DOMAIN s.variables \cup {Len(t.variables)}
      /\ \A p \in DOMAIN s.variables : t.variables[p] = s.variables[p]
  BY <1>1, <1>2, ShapeOfState
<1>4. SymbolsOf(t) = SymbolsOf(s)
  BY <1>2 DEF SymbolsOf
<1>5. Grows(s, t)
  BY <1>1, <1>2, <1>3, <1>4, ShapeOfState DEF Grows
<1>6. FunctionsSound(t)
  BY <1>1, <1>2, <1>5, FunctionsGrow DEF StateSound
<1>7. VariablesSound(t)
  <2> DEFINE Sound(x) ==
        /\ x.native => x.name \in NativeVars /\ <<"variable", x.name>> \in s.symbols[1]
        /\ ~x.native => /\ <<"variable", x.name>> \in SymbolsOf(s)
                        /\ \E i \in DOMAIN s.nodes : /\ s.nodes[i].item.kind = "variable"
                                                     /\ s.nodes[i].item.name = x.name
  <2>1. \A p \in DOMAIN s.variables : Sound(s.variables[p])
    BY DEF StateSound, VariablesSound
  <2>2. Sound(e)
    OBVIOUS
  <2>3. \A p \in DOMAIN t.variables : Sound(t.variables[p])
    <3> HIDE DEF Sound
    <3> QED  BY <1>3, <2>1, <2>2
  <2>4. \A p, q \in DOMAIN t.variables :
            /\ t.variables[q].name = t.variables[p].name
            /\ t.variables[q].native = t.variables[p].native
            => q = p
    <3>1. \A p, q \in DOMAIN s.variables :
            /\ s.variables[q].name = s.variables[p].name
            /\ s.variables[q].native = s.variables[p].native
            => q = p
      BY DEF StateSound, VariablesSound
    <3> QED  BY <1>3, <3>1
  <2> QED  BY <1>2, <1>4, <2>3, <2>4 DEF VariablesSound
<1> QED  BY <1>2, <1>3, <1>5, <1>6, <1>7 DEF StateSound

\* A new function.
LEMMA AddedFunctionIsSound ==
    ASSUME NEW s, StateSound(s), NEW e \in FunctionEntry, NEW t,
           t = FunctionAdded(s, e),
           e.native => e.node = 0 /\ e.code = NoCode,
           ~e.native => /\ <<"function", e.name>> \in SymbolsOf(s)
                        /\ e.node \in DOMAIN s.nodes,
           \A k \in DOMAIN s.functions : s.functions[k].name # e.name,
           SoundCode(s, e.code.ins)
    PROVE  /\ StateSound(t)
           /\ Grows(s, t)
           /\ t.variables = s.variables /\ t.nodes = s.nodes /\ t.symbols = s.symbols
           /\ Len(t.functions) = Len(s.functions) + 1
           /\ \A k \in DOMAIN s.functions : t.functions[k] = s.functions[k]
           /\ t.functions[Len(t.functions)] = e
<1>1. s \in StateShape
  BY DEF StateSound
<1>2. /\ t \in StateShape
      /\ t.nodes = s.nodes /\ t.variables = s.variables /\ t.symbols = s.symbols
      /\ t.functions = Append(s.functions, e)
  <2>1. Append(s.functions, e) \in Seq(FunctionEntry)
    BY <1>1, ShapeOfState
  <2> QED  BY <1>1, <2>1 DEF StateShape, FunctionAdded
<1>3. /\ Len(t.functions) = Len(s.functions) + 1
      /\ t.functions[Len(t.functions)] = e
      /\ DOMAIN t.functions = DOMAIN s.functions \cup {Len(t.functions)}
      /\ \A p \in DOMAIN s.functions : t.functions[p] = s.functions[p]
  BY <1>1, <1>2, ShapeOfState
<1>4. SymbolsOf(t) = SymbolsOf(s)
  BY <1>2 DEF SymbolsOf
<1>5. Grows(s, t)
  BY <1>1, <1>2, <1>3, <1>4, ShapeOfState DEF Grows
<1>6. VariablesSound(t)
  BY <1>1, <1>2, <1>5, VariablesGrow DEF StateSound
<1>7. FunctionsSound(t)
  <2> DEFINE Sound(x) ==
        /\ x.native => x.node = 0 /\ x.code = NoCode
        /\ ~x.native => /\ <<"function", x.name>> \in SymbolsOf(s)
                        /\ x.node \in DOMAIN s.nodes
  <2>1. \A k \in DOMAIN s.functions : Sound(s.functions[k])
    BY DEF StateSound, FunctionsSound
  <2>2. Sound(e)
    OBVIOUS
  <2>3. \A k \in DOMAIN t.functions : Sound(t.functions[k])
    <3> HIDE DEF Sound
    <3> QED  BY <1>3, <2>1, <2>2
  <2>4. \A k, m \in DOMAIN t.functions :
            t.functions[m].name = t.functions[k].name => m = k
    <3>1. \A k, m \in DOMAIN s.functions :
            s.functions[m].name = s.functions[k].name => m = k
      BY DEF StateSound, FunctionsSound
    <3> QED  BY <1>3, <3>1
  <2>5. ASSUME NEW k \in DOMAIN t.functions
        PROVE  SoundCode(t, t.functions[k].code.ins)
    <3>1. t.functions[k].code.ins \in Seq(InsType)
      BY <1>2, CodeOfEntry
    <3>2. SoundCode(s, t.functions[k].code.ins)
      <4>1. \A m \in DOMAIN s.functions : SoundCode(s, s.functions[m].code.ins)
        BY DEF StateSound, FunctionsSound
      <4> QED  BY <1>3, <4>1
    <3> QED  BY <1>1, <1>2, <1>5, <3>1, <3>2, GrowsKeepsCode
  <2> QED  BY <1>2, <1>4, <2>3, <2>4, <2>5 DEF FunctionsSound
<1> QED  BY <1>2, <1>3, <1>5, <1>6, <1>7 DEF StateSound

\* A function with other links.
LEMMA RelinkedStateIsSound ==
    ASSUME NEW s, StateSound(s), NEW k \in DOMAIN s.functions, NEW c \in CodeType, NEW t,
           t = Recoded(s, k, c),
           s.functions[k].native => c = NoCode,
           SoundCode(s, c.ins)
    PROVE  /\ StateSound(t)
           /\ Grows(s, t)
           /\ t.variables = s.variables /\ t.nodes = s.nodes /\ t.symbols = s.symbols
           /\ Len(t.functions) = Len(s.functions)
           /\ \A m \in DOMAIN s.functions :
                 t.functions[m] = IF m = k THEN [s.functions[k] EXCEPT !.code = c]
                                           ELSE s.functions[m]
<1>1. s \in StateShape
  BY DEF StateSound
<1>2. PICK e : e = [s.functions[k] EXCEPT !.code = c]
  OBVIOUS
<1>3. /\ e \in FunctionEntry
      /\ e.name = s.functions[k].name /\ e.native = s.functions[k].native
      /\ e.node = s.functions[k].node /\ e.code = c
  <2>1. s.functions[k] \in FunctionEntry
    BY <1>1, ShapeOfState
  <2> QED  BY <1>2, <2>1 DEF FunctionEntry
<1>4. t = [s EXCEPT !.functions = [@ EXCEPT ![k] = e]]
  BY <1>1, <1>2 DEF StateShape, Recoded
<1>5. /\ t \in StateShape
      /\ t.nodes = s.nodes /\ t.variables = s.variables /\ t.symbols = s.symbols
      /\ t.functions = [s.functions EXCEPT ![k] = e]
  <2>1. [s.functions EXCEPT ![k] = e] \in Seq(FunctionEntry)
    BY <1>1, <1>3, ShapeOfState
  <2> QED  BY <1>1, <1>4, <2>1 DEF StateShape
<1>6. /\ Len(t.functions) = Len(s.functions)
      /\ DOMAIN t.functions = DOMAIN s.functions
      /\ \A m \in DOMAIN s.functions : t.functions[m] = IF m = k THEN e ELSE s.functions[m]
  <2>1. [s.functions EXCEPT ![k] = e] \in [1..Len(s.functions) -> FunctionEntry]
    BY <1>1, <1>3, ShapeOfState
  <2>2. Len(t.functions) = Len(s.functions)
    BY <1>1, <1>5, <2>1, ShapeOfState, FunctionIsSequence
  <2> QED  BY <1>1, <1>5, <2>2, ShapeOfState
<1>7. SymbolsOf(t) = SymbolsOf(s)
  BY <1>5 DEF SymbolsOf
<1>8. Grows(s, t)
  BY <1>1, <1>3, <1>5, <1>6, <1>7, ShapeOfState DEF Grows
<1>9. VariablesSound(t)
  BY <1>1, <1>5, <1>8, VariablesGrow DEF StateSound
<1>10. FunctionsSound(t)
  <2>1. ASSUME NEW m \in DOMAIN t.functions
        PROVE  /\ t.functions[m].name = s.functions[m].name
               /\ t.functions[m].native = s.functions[m].native
               /\ t.functions[m].node = s.functions[m].node
               /\ SoundCode(s, t.functions[m].code.ins)
               /\ t.functions[m].native => t.functions[m].code = NoCode
    <3>1. /\ SoundCode(s, s.functions[m].code.ins)
          /\ s.functions[m].native => s.functions[m].code = NoCode
      BY <1>6 DEF StateSound, FunctionsSound
    <3>2. t.functions[m] = IF m = k THEN e ELSE s.functions[m]
      BY <1>6
    <3>3. CASE m = k
      BY <1>3, <3>2, <3>3
    <3>4. CASE m # k
      BY <3>1, <3>2, <3>4
    <3> QED  BY <3>3, <3>4
  <2>2. ASSUME NEW m \in DOMAIN t.functions
        PROVE  SoundCode(t, t.functions[m].code.ins)
    <3>1. t.functions[m].code.ins \in Seq(InsType)
      BY <1>5, CodeOfEntry
    <3> QED  BY <1>1, <1>5, <1>8, <2>1, <3>1, GrowsKeepsCode
  <2>3. \A m \in DOMAIN s.functions :
            /\ s.functions[m].native => s.functions[m].node = 0
            /\ ~s.functions[m].native =>
                  /\ <<"function", s.functions[m].name>> \in SymbolsOf(s)
                  /\ s.functions[m].node \in DOMAIN s.nodes
            /\ \A n \in DOMAIN s.functions :
                  s.functions[n].name = s.functions[m].name => n = m
    BY DEF StateSound, FunctionsSound
  <2>4. \A m \in DOMAIN t.functions :
            /\ t.functions[m].native => t.functions[m].node = 0
            /\ ~t.functions[m].native =>
                  /\ <<"function", t.functions[m].name>> \in SymbolsOf(s)
                  /\ t.functions[m].node \in DOMAIN s.nodes
            /\ \A n \in DOMAIN t.functions :
                  t.functions[n].name = t.functions[m].name => n = m
    <3>1. \A m \in DOMAIN t.functions :
              /\ m \in DOMAIN s.functions
              /\ t.functions[m].name = s.functions[m].name
              /\ t.functions[m].native = s.functions[m].native
              /\ t.functions[m].node = s.functions[m].node
      BY <1>6, <2>1
    <3> QED  BY <2>3, <3>1
  <2>5. \A m \in DOMAIN t.functions :
            t.functions[m].native => t.functions[m].node = 0 /\ t.functions[m].code = NoCode
    BY <2>1, <2>4
  <2>6. \A m \in DOMAIN t.functions :
            ~t.functions[m].native => /\ <<"function", t.functions[m].name>> \in SymbolsOf(t)
                                      /\ t.functions[m].node \in DOMAIN t.nodes
    BY <1>5, <1>7, <2>4
  <2> QED  BY <2>2, <2>4, <2>5, <2>6 DEF FunctionsSound
<1> QED  BY <1>2, <1>5, <1>6, <1>8, <1>9, <1>10 DEF StateSound

\* A copy without code is a sound state.
LEMMA CopyIsSound ==
    ASSUME NEW s, StateSound(s), NEW t, t = Copy(s)
    PROVE  /\ StateSound(t)
           /\ t.nodes = s.nodes
           /\ DOMAIN t.functions = DOMAIN s.functions
           /\ \A k \in DOMAIN s.functions : /\ t.functions[k].native = s.functions[k].native
                                            /\ t.functions[k].code = NoCode
<1>1. s \in StateShape
  BY DEF StateSound
<1>2. NoCode \in CodeType /\ NoCode.ins = <<>>
  BY DEF NoCode, CodeType
<1>3. PICK F : F = [k \in DOMAIN s.functions |-> [s.functions[k] EXCEPT !.code = NoCode]]
  OBVIOUS
<1>4. t = [s EXCEPT !.functions = F]
  BY <1>3 DEF Copy
<1>5. ASSUME NEW k \in DOMAIN s.functions
      PROVE  /\ F[k] \in FunctionEntry
             /\ F[k].name = s.functions[k].name /\ F[k].native = s.functions[k].native
             /\ F[k].node = s.functions[k].node /\ F[k].code = NoCode
  <2>1. s.functions[k] \in FunctionEntry
    BY <1>1, ShapeOfState
  <2>2. F[k] = [s.functions[k] EXCEPT !.code = NoCode]
    BY <1>3
  <2> QED  BY <1>2, <2>1, <2>2 DEF FunctionEntry
<1>6. F \in Seq(FunctionEntry) /\ Len(F) = Len(s.functions) /\ DOMAIN F = DOMAIN s.functions
  <2>1. F \in [1..Len(s.functions) -> FunctionEntry]
    BY <1>1, <1>3, <1>5, ShapeOfState
  <2> QED  BY <1>1, <2>1, ShapeOfState, FunctionIsSequence
<1>7. /\ t \in StateShape
      /\ t.nodes = s.nodes /\ t.variables = s.variables /\ t.symbols = s.symbols
      /\ t.functions = F
  BY <1>1, <1>4, <1>6 DEF StateShape
<1>8. SymbolsOf(t) = SymbolsOf(s)
  BY <1>7 DEF SymbolsOf
<1>9. Grows(s, t)
  BY <1>1, <1>5, <1>6, <1>7, <1>8, ShapeOfState DEF Grows
<1>10. VariablesSound(t)
  BY <1>1, <1>7, <1>9, VariablesGrow DEF StateSound
<1>11. FunctionsSound(t)
  <2>1. \A m \in DOMAIN s.functions :
            /\ s.functions[m].native => s.functions[m].node = 0
            /\ ~s.functions[m].native =>
                  /\ <<"function", s.functions[m].name>> \in SymbolsOf(s)
                  /\ s.functions[m].node \in DOMAIN s.nodes
            /\ \A n \in DOMAIN s.functions :
                  s.functions[n].name = s.functions[m].name => n = m
    BY DEF StateSound, FunctionsSound
  <2>2. \A m \in DOMAIN t.functions : SoundCode(t, t.functions[m].code.ins)
    BY <1>2, <1>5, <1>6, <1>7 DEF SoundCode
  <2>3. \A m \in DOMAIN t.functions :
            /\ t.functions[m].native => t.functions[m].node = 0 /\ t.functions[m].code = NoCode
            /\ ~t.functions[m].native =>
                  /\ <<"function", t.functions[m].name>> \in SymbolsOf(t)
                  /\ t.functions[m].node \in DOMAIN t.nodes
    <3> TAKE m \in DOMAIN t.functions
    <3>1. /\ m \in DOMAIN s.functions
          /\ t.functions[m].name = s.functions[m].name /\ t.functions[m].native = s.functions[m].native
          /\ t.functions[m].node = s.functions[m].node /\ t.functions[m].code = NoCode
      BY <1>5, <1>6, <1>7
    <3> QED  BY <1>7, <1>8, <2>1, <3>1
  <2>4. \A m, n \in DOMAIN t.functions :
            t.functions[n].name = t.functions[m].name => n = m
    BY <1>5, <1>6, <1>7, <2>1
  <2> QED  BY <2>2, <2>3, <2>4 DEF FunctionsSound
<1> QED  BY <1>5, <1>6, <1>7, <1>10, <1>11 DEF StateSound

\* The end of a source does not change what its nodes are.
LEMMA SourceEndsIsSound ==
    ASSUME NEW s, StateSound(s), NEW how \in {"parsed", "failed"}, NEW t,
           t = SourceEnds(s, how)
    PROVE  /\ StateSound(t)
           /\ Grows(s, t)
           /\ t.functions = s.functions /\ t.variables = s.variables /\ t.symbols = s.symbols
           /\ Len(t.nodes) = Len(s.nodes)
<1>1. s \in StateShape
  BY DEF StateSound
<1>2. PICK N : N = [i \in DOMAIN s.nodes |-> IF s.nodes[i].source = "parsing"
                        THEN [s.nodes[i] EXCEPT !.source = how] ELSE s.nodes[i]]
  OBVIOUS
<1>3. t = [s EXCEPT !.nodes = N]
  BY <1>2 DEF SourceEnds
<1>4. ASSUME NEW i \in DOMAIN s.nodes
      PROVE  N[i] \in NodeEntry /\ N[i].item = s.nodes[i].item
  <2>1. s.nodes[i] \in NodeEntry
    BY <1>1, ShapeOfState
  <2>2. N[i] = IF s.nodes[i].source = "parsing"
               THEN [s.nodes[i] EXCEPT !.source = how] ELSE s.nodes[i]
    BY <1>2
  <2> QED  BY <2>1, <2>2 DEF NodeEntry
<1>5. N \in Seq(NodeEntry) /\ Len(N) = Len(s.nodes) /\ DOMAIN N = DOMAIN s.nodes
  <2>1. N \in [1..Len(s.nodes) -> NodeEntry]
    BY <1>1, <1>2, <1>4, ShapeOfState
  <2> QED  BY <1>1, <2>1, ShapeOfState, FunctionIsSequence
<1>6. /\ t \in StateShape
      /\ t.functions = s.functions /\ t.variables = s.variables /\ t.symbols = s.symbols
      /\ t.nodes = N
  BY <1>1, <1>3, <1>5 DEF StateShape
<1>7. SymbolsOf(t) = SymbolsOf(s)
  BY <1>6 DEF SymbolsOf
<1>8. Grows(s, t)
  BY <1>1, <1>4, <1>5, <1>6, <1>7, ShapeOfState DEF Grows
<1>9. \A i \in DOMAIN t.nodes : SoundItem(t.nodes[i].item)
  BY <1>4, <1>5, <1>6 DEF StateSound
<1> QED  BY <1>5, <1>6, <1>8, <1>9, ParsedStateIsSound DEF StateSound

\* Symbols that are added to a scope, or a new scope.
LEMMA AddedSymbols ==
    ASSUME NEW a \in Seq(SUBSET SymbolEntry), NEW d \in DOMAIN a, NEW new \in SUBSET SymbolEntry,
           NEW b, b = ScopeAdded(a, d, new)
    PROVE  /\ b \in Seq(SUBSET SymbolEntry) /\ b # <<>>
           /\ a[1] \subseteq b[1]
           /\ AllOf(a) \subseteq AllOf(b)
           /\ new \subseteq AllOf(b)
           /\ d = 1 => new \subseteq b[1]
<1>1. Len(a) \in Nat /\ DOMAIN a = 1..Len(a) /\ 1 \in DOMAIN a
  OBVIOUS
<1>2. DOMAIN b = DOMAIN a /\ \A i \in DOMAIN a : b[i] = IF i = d THEN a[d] \cup new ELSE a[i]
  BY DEF ScopeAdded
<1>3. b \in [1..Len(a) -> SUBSET SymbolEntry]
  BY <1>1, <1>2 DEF ScopeAdded
<1>4. b \in Seq(SUBSET SymbolEntry) /\ Len(b) = Len(a)
  BY <1>1, <1>3, FunctionIsSequence
<1> QED  BY <1>1, <1>2, <1>4 DEF AllOf

LEMMA AddedScope ==
    ASSUME NEW a \in Seq(SUBSET SymbolEntry), a # <<>>, NEW b, b = Append(a, {})
    PROVE  /\ b \in Seq(SUBSET SymbolEntry) /\ b # <<>>
           /\ a[1] \subseteq b[1]
           /\ AllOf(a) \subseteq AllOf(b)
<1>1. Len(a) \in Nat /\ DOMAIN a = 1..Len(a) /\ 1 \in DOMAIN a
  OBVIOUS
<1>2. b \in Seq(SUBSET SymbolEntry) /\ b # <<>> /\ DOMAIN a \subseteq DOMAIN b
  OBVIOUS
<1>3. \A i \in DOMAIN a : b[i] = a[i]
  OBVIOUS
<1> QED  BY <1>1, <1>2, <1>3 DEF AllOf

\* A state with a node more and symbols more.
LEMMA NodeAddedIsSound ==
    ASSUME NEW s, StateSound(s), NEW item \in Item, SoundItem(item), Len(s.nodes) < MaxNodes,
           NEW syms \in Seq(SUBSET SymbolEntry), syms # <<>>, s.symbols[1] \subseteq syms[1],
           SymbolsOf(s) \subseteq AllOf(syms),
           NEW t, t = NodeAdded(s, item, syms)
    PROVE  /\ StateSound(t)
           /\ Grows(s, t)
           /\ t.functions = s.functions /\ t.variables = s.variables
           /\ SymbolsOf(t) = AllOf(syms)
           /\ Len(t.nodes) = Len(s.nodes) + 1
           /\ t.nodes[Len(t.nodes)].item = item
<1>1. s \in StateShape
  BY DEF StateSound
<1>2. PICK e : e = Node(item)
  OBVIOUS
<1>3. e \in NodeEntry /\ e.item = item
  BY <1>2 DEF Node, NodeEntry
<1>4. /\ t \in StateShape
      /\ t.functions = s.functions /\ t.variables = s.variables /\ t.symbols = syms
      /\ t.nodes = Append(s.nodes, e)
  <2>1. Append(s.nodes, e) \in Seq(NodeEntry)
    BY <1>1, <1>3, ShapeOfState
  <2>2. t = [s EXCEPT !.nodes = Append(s.nodes, e), !.symbols = syms]
    BY <1>2 DEF NodeAdded
  <2> QED  BY <1>1, <2>1, <2>2 DEF StateShape
<1>5. /\ Len(t.nodes) = Len(s.nodes) + 1
      /\ t.nodes[Len(t.nodes)] = e
      /\ DOMAIN t.nodes = DOMAIN s.nodes \cup {Len(t.nodes)}
      /\ \A i \in DOMAIN s.nodes : t.nodes[i] = s.nodes[i]
  BY <1>1, <1>3, <1>4, ShapeOfState
<1>6. SymbolsOf(t) = AllOf(syms)
  BY <1>4 DEF SymbolsOf
<1>7. Grows(s, t)
  BY <1>1, <1>4, <1>5, <1>6, ShapeOfState DEF Grows
<1>8. \A i \in DOMAIN t.nodes : SoundItem(t.nodes[i].item)
  BY <1>3, <1>5 DEF StateSound
<1>9. Len(t.nodes) <= MaxNodes
  BY <1>1, <1>5, ShapeOfState, BoundAssumption
<1> QED  BY <1>3, <1>4, <1>5, <1>6, <1>7, <1>8, <1>9, ParsedStateIsSound

\* The variables of main fit in the slots: there are never more of a script's
\* than nodes, nor more of C++ than names that the host registers.
LEMMA VariablesFit ==
    ASSUME NEW s, StateSound(s)
    PROVE  /\ Cardinality(NativeVars) \in Nat
           /\ Len(s.variables) <= MaxNodes + Cardinality(NativeVars)
           /\ Cardinality(Slots) = MaxNodes + Cardinality(NativeVars) + 1
           /\ DOMAIN s.variables \subseteq Slots
           /\ Len(s.variables) + 1 \in Slots
<1>1. Cardinality(NativeVars) \in Nat /\ MaxNodes \in Nat
  BY NameAssumption, BoundAssumption, FS_CardinalityType
<1>2. Len(s.variables) \in Nat /\ DOMAIN s.variables = 1..Len(s.variables)
      /\ s.variables \in Seq(VariableEntry) /\ DOMAIN s.nodes = 1..Len(s.nodes)
      /\ Len(s.nodes) \in Nat /\ Len(s.nodes) <= MaxNodes
  BY ShapeOfState DEF StateSound
<1> DEFINE Native == {p \in DOMAIN s.variables : s.variables[p].native}
           Script == {p \in DOMAIN s.variables : ~s.variables[p].native}
<1>3. IsFiniteSet(Native) /\ Cardinality(Native) <= Cardinality(NativeVars)
  <2>1. PICK f : f = [p \in Native |-> s.variables[p].name]
    OBVIOUS
  <2>2. f \in [Native -> NativeVars]
    BY <2>1 DEF StateSound, VariablesSound
  <2>3. \A p, q \in Native : f[p] = f[q] => p = q
    BY <2>1 DEF StateSound, VariablesSound
  <2>4. f \in Injection(Native, NativeVars)
    BY <2>2, <2>3 DEF Injection, IsInjective
  <2> HIDE DEF Native
  <2> QED  BY <2>4, NameAssumption, FS_Injection
<1>4. IsFiniteSet(Script) /\ Cardinality(Script) <= MaxNodes
  <2> DEFINE Stands(p, i) == /\ s.nodes[i].item.kind = "variable"
                             /\ s.nodes[i].item.name = s.variables[p].name
  <2>1. PICK f : f = [p \in Script |-> CHOOSE i \in DOMAIN s.nodes : Stands(p, i)]
    OBVIOUS
  <2>2. \A p \in Script : f[p] \in DOMAIN s.nodes /\ Stands(p, f[p])
    BY <2>1 DEF StateSound, VariablesSound
  <2>3. f \in [Script -> 1..MaxNodes]
    <3>1. \A p \in Script : f[p] \in 1..MaxNodes
      <4> TAKE p \in Script
      <4>1. f[p] \in 1..Len(s.nodes)
        BY <1>2, <2>2
      <4> QED  BY <1>1, <1>2, <4>1
    <3> HIDE DEF Script, Stands
    <3> QED  BY <2>1, <3>1
  <2>4. \A p, q \in Script : f[p] = f[q] => p = q
    <3>1. \A p, q \in Script : f[p] = f[q] => s.variables[p].name = s.variables[q].name
      BY <2>2
    <3>2. \A p, q \in Script : s.variables[p].native = s.variables[q].native
      <4>1. \A p \in Script : s.variables[p].native = FALSE
        <5> TAKE p \in Script
        <5>1. s.variables[p] \in VariableEntry
          BY <1>2
        <5>2. s.variables[p].native \in BOOLEAN
          BY <5>1 DEF VariableEntry
        <5> QED  BY <5>2
      <4> QED  BY <4>1
    <3>3. \A p, q \in DOMAIN s.variables :
            /\ s.variables[q].name = s.variables[p].name
            /\ s.variables[q].native = s.variables[p].native
            => q = p
      BY DEF StateSound, VariablesSound
    <3> QED  BY <3>1, <3>2, <3>3
  <2>5. f \in Injection(Script, 1..MaxNodes)
    <3> HIDE DEF Script, Stands
    <3> QED  BY <2>3, <2>4 DEF Injection, IsInjective
  <2>6. IsFiniteSet(1..MaxNodes) /\ Cardinality(1..MaxNodes) = MaxNodes
    BY <1>1, FS_Interval
  <2> HIDE DEF Script
  <2> QED  BY <2>5, <2>6, FS_Injection
<1>5. Len(s.variables) <= MaxNodes + Cardinality(NativeVars)
  <2>1. Native \cup Script = 1..Len(s.variables)
    BY <1>2
  <2>2. Native \cap Script = {}
    OBVIOUS
  <2>3. Cardinality(1..Len(s.variables)) = Len(s.variables)
    <3>1. PICK n \in Nat : n = Len(s.variables)
      BY <1>2
    <3>2. Cardinality(1..n) = n
      BY FS_Interval
    <3> QED  BY <3>1, <3>2
  <2> HIDE DEF Native, Script
  <2>4. Cardinality(Native) \in Nat /\ Cardinality(Script) \in Nat
    BY <1>3, <1>4, FS_CardinalityType
  <2>5. Cardinality(Native \cup Script) =
            Cardinality(Native) + Cardinality(Script) - Cardinality({})
    BY <1>3, <1>4, <2>2, FS_Union
  <2>6. Cardinality({}) = 0
    BY FS_EmptySet
  <2>7. Len(s.variables) = Cardinality(Native) + Cardinality(Script) - 0
    BY <2>1, <2>3, <2>5, <2>6
  <2> QED  BY <1>1, <1>2, <1>3, <1>4, <2>4, <2>7
<1>6. Cardinality(Slots) = MaxNodes + Cardinality(NativeVars) + 1
  BY <1>1, FS_Interval DEF Slots
<1> QED  BY <1>1, <1>2, <1>5, <1>6 DEF Slots

-----------------------------------------------------------------------------
(* What a step keeps.                                                       *)

CurrentGrows == StateSound(current) /\ StateSound(current') /\ Grows(current, current')

LEMMA SoundHasShape ==
    ASSUME NEW s, StateSound(s)
    PROVE  s \in StateShape /\ Len(s.nodes) <= MaxNodes /\ s.symbols # <<>>
BY DEF StateSound

LEMMA GrowsReflexive ==
    ASSUME NEW s \in StateShape
    PROVE  Grows(s, s)
BY ShapeOfState DEF Grows

\* The present state grows and the saved ones stay.
LEMMA StatesKept ==
    ASSUME StatesSound, CurrentGrows, vec_saved_state' = vec_saved_state,
           \A k \in DOMAIN current.functions :
                current'.functions[k].code.exists = current.functions[k].code.exists,
           \A k \in DOMAIN current'.functions : k \notin DOMAIN current.functions =>
                current'.functions[k].native \/ current'.functions[k].code.exists \/ NeverCompiled(k)'
    PROVE  StatesSound'
<1>1. ASSUME NEW k \in DOMAIN current'.functions
      PROVE  current'.functions[k].native \/ SavesFunctions
                \/ current'.functions[k].code.exists \/ NeverCompiled(k)'
  <2>1. CASE k \in DOMAIN current.functions
    <3>1. CASE current.functions[k].native
      BY <2>1, <3>1 DEF CurrentGrows, Grows
    <3>2. CASE ~current.functions[k].native
      <4>1. current.functions[k].node \in DOMAIN current.nodes
        BY <2>1, <3>2 DEF CurrentGrows, StateSound, FunctionsSound
      <4>2. NeverCompiled(k) => NeverCompiled(k)'
        BY <2>1, <4>1 DEF CurrentGrows, Grows, NeverCompiled
      <4>3. SavesFunctions \/ current.functions[k].code.exists \/ NeverCompiled(k)
        BY <2>1, <3>2 DEF StatesSound, CodeIsKept
      <4> QED  BY <2>1, <4>2, <4>3
    <3> QED  BY <3>1, <3>2
  <2>2. CASE k \notin DOMAIN current.functions
    BY <2>2
  <2> QED  BY <2>1, <2>2
<1>2. CodeIsKept'
  BY <1>1 DEF StatesSound, CodeIsKept, SavesFunctions
<1> QED  BY <1>2 DEF StatesSound, CurrentGrows

\* What is ready stays ready.
LEMMA ReadyCodeKept ==
    ASSUME CurrentGrows, cache' = cache, NEW ins, SoundCode(current, ins), ReadyCode(ins),
           \A p \in DOMAIN current.variables : stack[p] = "native" => stack'[p] = "native"
    PROVE  ReadyCode(ins)'
<1>1. ASSUME NEW i \in DOMAIN ins, ins[i].link.to = "variable",
             current'.variables[ins[i].link.at].native
      PROVE  stack'[ins[i].link.at] = "native"
  <2>1. ins[i].link.at \in DOMAIN current.variables
    BY <1>1 DEF SoundCode, SoundLink, LeadsTo
  <2>2. current.variables[ins[i].link.at].native
    BY <1>1, <2>1 DEF CurrentGrows, Grows
  <2>3. stack[ins[i].link.at] = "native"
    BY <1>1, <2>2 DEF ReadyCode
  <2> QED  BY <2>1, <2>3
<1> QED  BY <1>1 DEF ReadyCode

LEMMA CacheKept ==
    ASSUME CacheSound, CurrentGrows, cache' = cache, cache.functions \in Nat,
           SoundCode(current, main.ins),
           \A k \in 1..cache.functions : current'.functions[k] = current.functions[k],
           \A p \in DOMAIN current.variables : stack[p] = "native" => stack'[p] = "native",
           phase' \notin {"compiling", "linking"} /\ MainUpToDate' =>
                \/ phase \notin {"compiling", "linking"} /\ MainUpToDate /\ main' = main
                \/ main'.ins = <<>>
    PROVE  CacheSound'
<1>1. /\ current \in StateShape /\ current' \in StateShape
      /\ Len(current.functions) \in Nat /\ Len(current'.functions) \in Nat
      /\ DOMAIN current.functions = 1..Len(current.functions)
      /\ Len(current.functions) <= Len(current'.functions)
  BY SoundHasShape, ShapeOfState DEF CurrentGrows, Grows
<1>2. cache'.functions <= Len(current'.functions)
  BY <1>1 DEF CacheSound
<1>3. ASSUME NEW k \in 1..cache.functions
      PROVE  current'.functions[k].node <= cache.nodes /\ ReadyCode(current.functions[k].code.ins)'
  <2>1. k \in DOMAIN current.functions
    BY <1>1 DEF CacheSound
  <2>2. PICK ins : ins = current.functions[k].code.ins
    OBVIOUS
  <2>3. SoundCode(current, ins) /\ ReadyCode(ins)
    BY <2>1, <2>2 DEF CurrentGrows, StateSound, FunctionsSound, CacheSound
  <2>4. ReadyCode(ins)'
    BY <2>3, ReadyCodeKept
  <2>5. ins = current'.functions[k].code.ins
    BY <2>2
  <2> QED  BY <2>4, <2>5 DEF CacheSound, ReadyCode
<1>4. ASSUME phase' \notin {"compiling", "linking"}, MainUpToDate'
      PROVE  ReadyCode(main.ins)'
  <2>1. CASE phase \notin {"compiling", "linking"} /\ MainUpToDate /\ main' = main
    <3>1. PICK ins : ins = main.ins
      OBVIOUS
    <3>2. ReadyCode(ins)
      BY <2>1, <3>1 DEF CacheSound
    <3>3. ReadyCode(ins)'
      BY <3>1, <3>2, ReadyCodeKept
    <3>4. ins = main'.ins
      BY <2>1, <3>1
    <3> QED  BY <3>3, <3>4 DEF ReadyCode
  <2>2. CASE main'.ins = <<>>
    BY <2>2 DEF ReadyCode, IsLinked
  <2> QED  BY <1>4, <2>1, <2>2
<1> QED  BY <1>2, <1>3, <1>4 DEF CacheSound

LEMMA MainKept ==
    ASSUME MainSound, CurrentGrows, UNCHANGED <<main, stament>>,
           phase' # "compiling" => stament = <<>>,
           phase' = "compiling" => main = NoCode
    PROVE  MainSound'
<1>1. /\ current \in StateShape /\ current' \in StateShape
      /\ Len(current.nodes) \in Nat /\ Len(current'.nodes) \in Nat
      /\ Len(current.nodes) <= Len(current'.nodes)
  BY SoundHasShape, ShapeOfState DEF CurrentGrows, Grows
<1>2. main.ins \in Seq(InsType)
  BY DEF MainSound, CodeType, InsType, LinkType
<1>3. SoundCode(current', main.ins)
  BY <1>1, <1>2, GrowsKeepsCode DEF MainSound, CurrentGrows
<1>4. ASSUME NEW i \in DOMAIN stament
      PROVE  stament[i].link = Unlinked /\ stament[i].node <= Len(current'.nodes)
  <2>1. stament[i] \in InsType
    BY DEF MainSound
  <2>2. stament[i].node \in Nat
    BY <2>1, BoundAssumption DEF InsType
  <2> QED  BY <1>1, <2>2 DEF MainSound
<1> QED  BY <1>3, <1>4 DEF MainSound

\* The nodes that wait stay registered, and newer than all code.
LEMMA WaitKept ==
    ASSUME WaitSound, CurrentGrows, Waiting' = Waiting,
           phase' = "compiling" => astNodeToCompile' = <<>>,
           \A node \in Nat : 0 < node /\ NewerThanCode(node) => NewerThanCode(node)'
    PROVE  WaitSound'
<1>1. /\ current \in StateShape /\ current' \in StateShape
      /\ Len(current.nodes) \in Nat /\ Len(current'.nodes) \in Nat
      /\ DOMAIN current.nodes = 1..Len(current.nodes)
      /\ Len(current.nodes) <= Len(current'.nodes)
  BY SoundHasShape, ShapeOfState DEF CurrentGrows, Grows
<1>2. Waiting \in Seq(1..MaxNodes)
  BY DEF WaitSound
<1>3. ASSUME NEW i \in DOMAIN Waiting'
      PROVE  /\ Waiting'[i] <= Len(current'.nodes)
             /\ Registered(current.nodes[Waiting[i]].item)'
             /\ NewerThanCode(Waiting[i])'
             /\ \A j \in DOMAIN Waiting' : i < j => Waiting'[i] < Waiting'[j]
  <2>1. PICK node : node = Waiting[i]
    OBVIOUS
  <2>2. /\ node \in 1..Len(current.nodes)
        /\ Registered(current.nodes[node].item) /\ NewerThanCode(node)
        /\ \A j \in DOMAIN Waiting : i < j => node < Waiting[j]
    BY <1>1, <1>2, <2>1, BoundAssumption DEF WaitSound
  <2>3. node <= Len(current'.nodes)
    BY <1>1, <2>2
  <2>4. PICK item : item = current.nodes[node].item
    OBVIOUS
  <2>5. item = current'.nodes[node].item
    BY <1>1, <2>2, <2>4 DEF CurrentGrows, Grows
  <2>6. Registered(item)'
    BY <2>2, <2>4 DEF CurrentGrows, Grows, SymbolsOf, AllOf, Symbols, Registered
  <2>7. NewerThanCode(node)'
    BY <2>2
  <2>8. node = Waiting'[i]
    BY <2>1
  <2>9. Registered(current.nodes[Waiting[i]].item)'
    BY <2>5, <2>6, <2>8 DEF Registered
  <2>10. NewerThanCode(Waiting[i])'
    BY <2>7, <2>8 DEF NewerThanCode
  <2>11. \A j \in DOMAIN Waiting' : i < j => Waiting'[i] < Waiting'[j]
    BY <2>2, <2>8
  <2> QED  BY <2>3, <2>8, <2>9, <2>10, <2>11
<1>4. Waiting' \in Seq(1..MaxNodes)
  BY <1>2
<1> QED  BY <1>3, <1>4 DEF WaitSound

-----------------------------------------------------------------------------
(* Parser.                                                                  *)

\* A step that only adds nodes and symbols.
TextStep ==
    /\ CurrentGrows
    /\ current'.functions = current.functions /\ current'.variables = current.variables
    /\ UNCHANGED <<vec_saved_state, main, stack, cache, stament, frames>>
    /\ phase \in {"idle", "parsing"} /\ phase' \in {"idle", "parsing", "parsed"}

LEMMA TextStepKeeps ==
    ASSUME SessionInv, TextStep
    PROVE  /\ StatesSound' /\ MainSound' /\ LinkSound' /\ CacheSound' /\ RunSound' /\ StackSound'
           /\ astNodeToCompile' = astNodeToCompile => WaitSound'
<1>1. StatesSound'
  BY StatesKept DEF TextStep, SessionInv, CurrentGrows
<1>2. MainSound'
  BY MainKept DEF TextStep, SessionInv, MainSound
<1>3. LinkSound'
  BY DEF TextStep, LinkSound
<1>4. CacheSound'
  <2>1. MainUpToDate' => MainUpToDate
    BY DEF TextStep, MainUpToDate
  <2>2. cache.functions \in Nat
    BY DEF SessionInv, ControlTyped
  <2>3. SoundCode(current, main.ins)
    BY DEF SessionInv, MainSound
  <2> QED  BY <2>1, <2>2, <2>3, CacheKept DEF TextStep, SessionInv
<1>5. RunSound'
  <2>1. frames = <<>> /\ frames' = <<>>
    BY DEF SessionInv, RunSound, TextStep
  <2> QED  BY <2>1 DEF RunSound, TextStep
<1>6. StackSound'
  BY DEF SessionInv, TextStep, StackSound, VariablesHoldNoJunk
<1>7. ASSUME astNodeToCompile' = astNodeToCompile  PROVE WaitSound'
  <2>1. Waiting' = Waiting
    BY <1>7 DEF TextStep, Waiting
  <2>2. \A node \in Nat : NewerThanCode(node) => NewerThanCode(node)'
    BY DEF TextStep, NewerThanCode
  <2> QED  BY <2>1, <2>2, WaitKept DEF TextStep, SessionInv
<1> QED  BY <1>1, <1>2, <1>3, <1>4, <1>5, <1>6, <1>7

\* The node that the parser adds waits behind the others: it is newer than all
\* code, and its name is registered.
LEMMA ToCompileKeeps ==
    ASSUME SessionInv, phase = "parsing", todo # <<>>, NEW t, StateSound(t), Grows(current, t),
           t.functions = current.functions, t.variables = current.variables,
           Len(t.nodes) = Len(current.nodes) + 1,
           t.nodes[Len(t.nodes)].item.kind \in {"variable", "function"} =>
                <<t.nodes[Len(t.nodes)].item.kind, t.nodes[Len(t.nodes)].item.name>> \in SymbolsOf(t),
           ToCompile(t)
    PROVE  SessionInv'
<1>1. CurrentGrows /\ current' = t
  BY DEF SessionInv, StatesSound, ToCompile, CurrentGrows
<1>2. TextStep
  BY <1>1 DEF TextStep, ToCompile
<1>3. ControlTyped'
  BY DEF SessionInv, ControlTyped, ToCompile
<1>4. /\ current \in StateShape /\ t \in StateShape
      /\ Len(current.nodes) \in Nat /\ Len(t.nodes) <= MaxNodes
      /\ DOMAIN current.nodes = 1..Len(current.nodes)
  BY <1>1, SoundHasShape, ShapeOfState DEF CurrentGrows
<1>5. ParseSound'
  <2>1. /\ todo \in Seq(Item)
        /\ \A i \in DOMAIN todo : SoundItem(todo[i])
        /\ Len(current.nodes) + Len(todo) <= MaxNodes
    BY DEF SessionInv, ParseSound
  <2>2. /\ Tail(todo) \in Seq(Item) /\ Len(Tail(todo)) = Len(todo) - 1 /\ Len(todo) \in Nat
        /\ \A i \in DOMAIN Tail(todo) : i + 1 \in DOMAIN todo /\ Tail(todo)[i] = todo[i + 1]
    BY <2>1
  <2>3. Len(t.nodes) + Len(Tail(todo)) <= MaxNodes
    BY <1>4, <2>1, <2>2, BoundAssumption
  <2>4. \A i \in DOMAIN Tail(todo) : SoundItem(Tail(todo)[i])
    BY <2>1, <2>2
  <2> QED  BY <1>1, <2>2, <2>3, <2>4 DEF ParseSound, ToCompile
<1>6. WaitSound'
  <2>1. /\ astNodeToCompile \in Seq(1..MaxNodes)
        /\ \A i \in DOMAIN astNodeToCompile :
              /\ astNodeToCompile[i] <= Len(current.nodes)
              /\ Registered(current.nodes[astNodeToCompile[i]].item)
              /\ NewerThanCode(astNodeToCompile[i])
              /\ \A j \in DOMAIN astNodeToCompile : i < j => astNodeToCompile[i] < astNodeToCompile[j]
    BY DEF SessionInv, WaitSound, Waiting
  <2>2. PICK w : w = astNodeToCompile'
    OBVIOUS
  <2>3. PICK new : new = Len(t.nodes)
    OBVIOUS
  <2>4. new \in 1..MaxNodes
    BY <1>4, <2>3, BoundAssumption
  <2>5. /\ w \in Seq(1..MaxNodes) /\ Len(w) \in Nat
        /\ DOMAIN w = DOMAIN astNodeToCompile \cup {Len(w)}
        /\ w[Len(w)] = new
        /\ \A i \in DOMAIN astNodeToCompile : i < Len(w) /\ w[i] = astNodeToCompile[i]
    BY <2>1, <2>2, <2>3, <2>4 DEF ToCompile
  <2>5a. \A i \in DOMAIN astNodeToCompile :
            w[i] \in Nat /\ w[i] \in DOMAIN current.nodes
    <3> TAKE i \in DOMAIN astNodeToCompile
    <3>1. astNodeToCompile[i] \in 1..MaxNodes
      <4>1. astNodeToCompile \in Seq(1..MaxNodes)
        BY <2>1
      <4> QED  BY <4>1, BoundAssumption
    <3> QED  BY <1>4, <2>1, <2>5, <3>1, BoundAssumption
  <2>5b. \A i \in DOMAIN w : i \in Nat
    <3>1. w \in Seq(1..MaxNodes)
      BY <2>5
    <3> QED  BY <3>1
  <2>6. \A node \in Nat : NewerThanCode(node) => NewerThanCode(node)'
    BY <1>2 DEF TextStep, NewerThanCode
  <2>7. \A i \in DOMAIN astNodeToCompile : w[i] < new
    BY <1>4, <2>1, <2>3, <2>4, <2>5, BoundAssumption
  <2>8. NewerThanCode(new)'
    <3>1. \A k \in DOMAIN t.functions : t.functions[k].node < new
      <4> TAKE k \in DOMAIN t.functions
      <4>1. t.functions[k].native \in BOOLEAN
        BY <1>4, CodeOfEntry
      <4>2. t.functions[k].node = 0 \/ current.functions[k].node \in DOMAIN current.nodes
        BY <4>1, <1>1 DEF CurrentGrows, StateSound, FunctionsSound
      <4> QED  BY <1>4, <2>3, <4>2
    <3>2. ASSUME NEW k \in DOMAIN t.functions, NEW j \in DOMAIN t.functions[k].code.ins
          PROVE  t.functions[k].code.ins[j].node < new
      <4>1. SoundCode(current, current.functions[k].code.ins)
        BY <1>1, <3>2 DEF CurrentGrows, StateSound, FunctionsSound
      <4>2. t.functions[k].code.ins[j].node <= Len(current.nodes)
        BY <3>2, <4>1 DEF SoundCode
      <4>3. t.functions[k].code.ins \in Seq(InsType)
        BY <1>4, CodeOfEntry
      <4>4. t.functions[k].code.ins[j] \in InsType
        BY <3>2, <4>3
      <4>5. t.functions[k].code.ins[j].node \in Nat
        BY <4>4, BoundAssumption DEF InsType
      <4> QED  BY <1>4, <2>3, <4>2, <4>5
    <3>3. \A j \in DOMAIN main.ins : main.ins[j].node < new
      <4> TAKE j \in DOMAIN main.ins
      <4>1. main.ins[j].node <= Len(current.nodes)
        BY DEF SessionInv, MainSound, SoundCode
      <4>2. main.ins \in Seq(InsType)
        BY DEF SessionInv, MainSound, CodeType, InsType, LinkType
      <4>3. main.ins[j] \in InsType
        BY <4>2
      <4>4. main.ins[j].node \in Nat
        BY <4>3, BoundAssumption DEF InsType
      <4> QED  BY <1>4, <2>3, <4>1, <4>4
    <3>4. stament' = <<>>
      BY DEF SessionInv, MainSound, ToCompile
    <3> QED  BY <1>1, <1>2, <3>1, <3>2, <3>3, <3>4 DEF NewerThanCode, TextStep
  <2>9. \A i \in DOMAIN w : NewerThanCode(w[i])'
    <3> TAKE i \in DOMAIN w
    <3>1. CASE i \in DOMAIN astNodeToCompile
      <4>1. PICK node : node = w[i]
        OBVIOUS
      <4>2. node \in Nat /\ NewerThanCode(node)
        BY <2>1, <2>5, <2>5a, <3>1, <4>1
      <4> QED  BY <2>6, <4>1, <4>2
    <3>2. CASE i = Len(w)
      BY <2>5, <2>8, <3>2
    <3> QED  BY <2>5, <3>1, <3>2
  <2>10. \A i \in DOMAIN w : w[i] <= Len(t.nodes)
    <3> TAKE i \in DOMAIN w
    <3>1. CASE i \in DOMAIN astNodeToCompile
      BY <1>4, <2>3, <2>4, <2>5a, <2>7, <3>1
    <3>2. CASE i = Len(w)
      BY <2>3, <2>4, <2>5, <3>2
    <3> QED  BY <2>5, <3>1, <3>2
  <2>11. \A i \in DOMAIN w : t.nodes[w[i]].item.kind \in {"variable", "function"} =>
             <<t.nodes[w[i]].item.kind, t.nodes[w[i]].item.name>> \in SymbolsOf(t)
    <3> TAKE i \in DOMAIN w
    <3>1. CASE i \in DOMAIN astNodeToCompile
      <4>1. w[i] \in DOMAIN current.nodes
        BY <2>5a, <3>1
      <4>2. t.nodes[w[i]].item = current.nodes[w[i]].item
        BY <4>1 DEF Grows
      <4>3. SymbolsOf(current) \subseteq SymbolsOf(t)
        BY DEF Grows
      <4>4. \A item : Registered(item) /\ item.kind \in {"variable", "function"} =>
                        <<item.kind, item.name>> \in SymbolsOf(t)
        BY <4>3 DEF Registered, Symbols, SymbolsOf, AllOf
      <4>5. Registered(t.nodes[w[i]].item)
        BY <2>1, <2>5, <3>1, <4>2
      <4> QED  BY <4>4, <4>5
    <3>2. CASE i = Len(w)
      BY <2>3, <2>5, <3>2
    <3> QED  BY <2>5, <3>1, <3>2
  <2>12. \A i, j \in DOMAIN w : i < j => w[i] < w[j]
    <3> TAKE i, j \in DOMAIN w
    <3>1. CASE j \in DOMAIN astNodeToCompile
      <4>1. i < j => i \in DOMAIN astNodeToCompile
        <5>1. i \in DOMAIN astNodeToCompile \/ i = Len(w)
          BY <2>5
        <5>2. j < Len(w)
          BY <2>5, <3>1
        <5>3. i \in Nat /\ j \in Nat
          BY <2>5b
        <5> QED  BY <5>1, <5>2, <5>3
      <4> QED  BY <2>1, <2>5, <3>1, <4>1
    <3>2. CASE j = Len(w)
      <4>1. i < j => i \in DOMAIN astNodeToCompile
        <5>1. i \in DOMAIN astNodeToCompile \/ i = Len(w)
          BY <2>5
        <5>2. i \in Nat
          BY <2>5b
        <5> QED  BY <5>1, <5>2, <3>2
      <4> QED  BY <2>5, <2>7, <3>2, <4>1
    <3> QED  BY <2>5, <3>1, <3>2
  <2>13. Waiting' = w /\ phase' = "parsing"
    BY <2>2 DEF Waiting, ToCompile
  <2>14. \A i \in DOMAIN Waiting' : NewerThanCode(Waiting[i])'
    BY <2>9, <2>13 DEF NewerThanCode
  <2>15. \A i \in DOMAIN Waiting' : Registered(current.nodes[Waiting[i]].item)'
    BY <1>1, <2>11, <2>13 DEF Registered, Symbols, SymbolsOf, AllOf
  <2> QED  BY <1>1, <2>5, <2>10, <2>12, <2>13, <2>14, <2>15 DEF WaitSound
<1> QED  BY <1>2, <1>3, <1>5, <1>6, TextStepKeeps DEF SessionInv

\* A parse that fails, or ends.
LEMMA ParseStopKeeps ==
    ASSUME SessionInv, phase = "parsing", NEW how \in {"parsed", "failed"}, NEW s,
           StateSound(s), Grows(current, s),
           s.functions = current.functions, s.variables = current.variables,
           current' = SourceEnds(s, how),
           \/ phase' = "idle" /\ call' = "none"
           \/ phase' = "parsed" /\ call' = "eval",
           UNCHANGED <<vec_saved_state, astNodeToCompile, main, stack, cache, stament, frames>>
    PROVE  SessionInv'
<1>1. PICK t : t = SourceEnds(s, how)
  OBVIOUS
<1>2. /\ StateSound(t) /\ Grows(s, t)
      /\ t.functions = s.functions /\ t.variables = s.variables
  BY <1>1, SourceEndsIsSound
<1>3. Grows(current, t)
  <2>1. DOMAIN current.nodes \subseteq DOMAIN s.nodes
    BY SoundHasShape, ShapeOfState DEF Grows, SessionInv, StatesSound
  <2>2. Len(current.nodes) <= Len(t.nodes)
    BY <1>2, SoundHasShape, ShapeOfState DEF Grows, SessionInv, StatesSound
  <2>3. \A i \in DOMAIN current.nodes : t.nodes[i].item = current.nodes[i].item
    BY <1>2, <2>1 DEF Grows
  <2> QED  BY <1>2, <2>2, <2>3 DEF Grows
<1>4. TextStep
  BY <1>1, <1>2, <1>3 DEF TextStep, CurrentGrows, SessionInv, StatesSound
<1>5. ControlTyped' /\ ParseSound'
  BY DEF SessionInv, ControlTyped, ParseSound
<1> QED  BY <1>4, <1>5, TextStepKeeps DEF SessionInv

LEMMA HeadOfSource ==
    ASSUME SessionInv, phase = "parsing", todo # <<>>
    PROVE  /\ Head(todo) \in Item /\ SoundItem(Head(todo))
           /\ Len(current.nodes) < MaxNodes
           /\ Head(todo).kind \in {"variable", "function"} =>
                 <<Head(todo).kind, Head(todo).name>> \in SymbolEntry
<1>1. /\ todo \in Seq(Item)
      /\ \A i \in DOMAIN todo : SoundItem(todo[i])
      /\ Len(current.nodes) + Len(todo) <= MaxNodes
  BY DEF SessionInv, ParseSound
<1>2. Len(todo) \in Nat /\ Len(todo) > 0 /\ Head(todo) = todo[1] /\ 1 \in DOMAIN todo
  BY <1>1
<1>3. Head(todo) \in Item /\ SoundItem(Head(todo))
  BY <1>1, <1>2
<1>4. Len(current.nodes) \in Nat
  BY SoundHasShape, ShapeOfState DEF SessionInv, StatesSound
<1>5. Len(current.nodes) < MaxNodes
  BY <1>1, <1>2, <1>4, BoundAssumption
<1> QED  BY <1>3, <1>5 DEF Item, SoundItem, SymbolEntry

\* The state with a node and symbols more, as the parser makes it.
LEMMA WithNodeIsSound ==
    ASSUME SessionInv, phase = "parsing", todo # <<>>,
           NEW syms \in Seq(SUBSET SymbolEntry), syms # <<>>, current.symbols[1] \subseteq syms[1],
           SymbolsOf(current) \subseteq AllOf(syms),
           NEW t, t = NodeAdded(current, Head(todo), syms)
    PROVE  /\ StateSound(t)
           /\ Grows(current, t)
           /\ t.functions = current.functions /\ t.variables = current.variables
           /\ SymbolsOf(t) = AllOf(syms)
           /\ Len(t.nodes) = Len(current.nodes) + 1
           /\ t.nodes[Len(t.nodes)].item = Head(todo)
<1>2. StateSound(current)
  BY DEF SessionInv, StatesSound
<1>3. PICK item : item = Head(todo)
  OBVIOUS
<1>4. item \in Item /\ SoundItem(item) /\ Len(current.nodes) < MaxNodes
  BY <1>3, HeadOfSource
<1>5. PICK s : s = current
  OBVIOUS
<1>6. t = NodeAdded(s, item, syms)
  BY <1>3, <1>5
<1>7. /\ StateSound(t)
      /\ Grows(s, t)
      /\ t.functions = s.functions /\ t.variables = s.variables
      /\ SymbolsOf(t) = AllOf(syms)
      /\ Len(t.nodes) = Len(s.nodes) + 1
      /\ t.nodes[Len(t.nodes)].item = item
  <2>1. StateSound(s) /\ s.symbols[1] \subseteq syms[1] /\ SymbolsOf(s) \subseteq AllOf(syms)
        /\ Len(s.nodes) < MaxNodes
    BY <1>2, <1>4, <1>5
  <2> QED  BY <1>4, <1>6, <2>1, NodeAddedIsSound
<1> QED  BY <1>3, <1>5, <1>7

\* The two ways in which the parser changes the symbols.
LEMMA SymbolsOfCurrent ==
    ASSUME SessionInv
    PROVE  /\ current.symbols \in Seq(SUBSET SymbolEntry) /\ current.symbols # <<>>
           /\ OpenScope \in DOMAIN current.symbols /\ 1 \in DOMAIN current.symbols
           /\ SymbolsOf(current) = AllOf(current.symbols)
           /\ current \in StateShape
<1>1. current \in StateShape /\ current.symbols # <<>>
  BY SoundHasShape DEF SessionInv, StatesSound
<1>2. current.symbols \in Seq(SUBSET SymbolEntry)
  BY <1>1, ShapeOfState
<1>3. Len(current.symbols) \in DOMAIN current.symbols /\ 1 \in DOMAIN current.symbols
  BY <1>1, <1>2
<1> QED  BY <1>1, <1>2, <1>3 DEF OpenScope, SymbolsOf

LEMMA ParseDeclares ==
    ASSUME SessionInv, phase = "parsing", todo # <<>>, NEW d \in DOMAIN current.symbols,
           Head(todo).kind \in {"variable", "function"}, NEW t,
           t = [WithNode(Head(todo)) EXCEPT !.symbols[d] = @ \cup {<<Head(todo).kind, Head(todo).name>>}],
           ToCompile(t)
    PROVE  SessionInv'
<1>1. PICK new : new = {<<Head(todo).kind, Head(todo).name>>}
  OBVIOUS
<1>2. PICK a : a = current.symbols
  OBVIOUS
<1>3. PICK b : b = ScopeAdded(a, d, new)
  OBVIOUS
<1>4. new \in SUBSET SymbolEntry
  BY <1>1, HeadOfSource
<1>5. /\ b \in Seq(SUBSET SymbolEntry) /\ b # <<>>
      /\ a[1] \subseteq b[1]
      /\ AllOf(a) \subseteq AllOf(b)
      /\ new \subseteq AllOf(b)
  BY <1>2, <1>3, <1>4, SymbolsOfCurrent, AddedSymbols
<1>6. t = NodeAdded(current, Head(todo), b)
  BY <1>1, <1>2, <1>3, SymbolsOfCurrent DEF WithNode, NodeAdded, StateShape, ScopeAdded
<1>7. /\ StateSound(t)
      /\ Grows(current, t)
      /\ t.functions = current.functions /\ t.variables = current.variables
      /\ SymbolsOf(t) = AllOf(b)
      /\ Len(t.nodes) = Len(current.nodes) + 1
      /\ t.nodes[Len(t.nodes)].item = Head(todo)
  BY <1>2, <1>5, <1>6, SymbolsOfCurrent, WithNodeIsSound
<1>8. <<t.nodes[Len(t.nodes)].item.kind, t.nodes[Len(t.nodes)].item.name>> \in SymbolsOf(t)
  BY <1>1, <1>5, <1>7
<1> QED  BY <1>7, <1>8, ToCompileKeeps

LEMMA ParseFailsKeeps ==
    ASSUME SessionInv, phase = "parsing", NEW s, StateSound(s), Grows(current, s),
           s.functions = current.functions, s.variables = current.variables,
           ParseFails(s)
    PROVE  SessionInv'
BY ParseStopKeeps DEF ParseFails, EndCall

LEMMA parseVarKeeps ==
    ASSUME SessionInv, parseVar  PROVE SessionInv'
<1>1. phase = "parsing" /\ todo # <<>> /\ Head(todo).kind = "variable"
  BY DEF parseVar, NextItem
<1>2. CASE \E kind \in {"variable", "function"} : <<kind, Head(todo).name>> \in Symbols
  <2>1. ParseFails(WithNode(Head(todo)))
    BY <1>2 DEF parseVar
  <2>2. PICK s : s = WithNode(Head(todo))
    OBVIOUS
  <2>3. s = NodeAdded(current, Head(todo), current.symbols)
    BY <2>2, SymbolsOfCurrent DEF WithNode, NodeAdded, StateShape
  <2>4. /\ StateSound(s) /\ Grows(current, s)
        /\ s.functions = current.functions /\ s.variables = current.variables
    BY <1>1, <2>3, SymbolsOfCurrent, WithNodeIsSound
  <2> QED  BY <1>1, <2>1, <2>2, <2>4, ParseFailsKeeps
<1>3. CASE ~\E kind \in {"variable", "function"} : <<kind, Head(todo).name>> \in Symbols
  <2>1. ToCompile([WithNode(Head(todo)) EXCEPT
                    !.symbols[OpenScope] = @ \cup {<<"variable", Head(todo).name>>}])
    BY <1>3 DEF parseVar
  <2>2. PICK t : t = [WithNode(Head(todo)) EXCEPT
                    !.symbols[OpenScope] = @ \cup {<<Head(todo).kind, Head(todo).name>>}]
    OBVIOUS
  <2>3. ToCompile(t)
    BY <1>1, <2>1, <2>2
  <2>4. OpenScope \in DOMAIN current.symbols
    BY SymbolsOfCurrent
  <2> QED  BY <1>1, <2>2, <2>3, <2>4, ParseDeclares
<1> QED  BY <1>2, <1>3

LEMMA parseFunctionKeeps ==
    ASSUME SessionInv, parseFunction  PROVE SessionInv'
<1>1. phase = "parsing" /\ todo # <<>> /\ Head(todo).kind = "function"
  BY DEF parseFunction, NextItem
<1>2. CASE <<"function", Head(todo).name>> \in Symbols
  <2>1. ParseFails([WithNode(Head(todo)) EXCEPT !.symbols = Append(@, {})])
    BY <1>2 DEF parseFunction
  <2>2. PICK s : s = [WithNode(Head(todo)) EXCEPT !.symbols = Append(@, {})]
    OBVIOUS
  <2>3. PICK a : a = current.symbols
    OBVIOUS
  <2>4. PICK b : b = Append(a, {})
    OBVIOUS
  <2>5. s = NodeAdded(current, Head(todo), b)
    BY <2>2, <2>3, <2>4, SymbolsOfCurrent DEF WithNode, NodeAdded, StateShape
  <2>6. /\ b \in Seq(SUBSET SymbolEntry) /\ b # <<>>
        /\ a[1] \subseteq b[1]
        /\ AllOf(a) \subseteq AllOf(b)
    BY <2>3, <2>4, SymbolsOfCurrent, AddedScope
  <2>7. /\ StateSound(s) /\ Grows(current, s)
        /\ s.functions = current.functions /\ s.variables = current.variables
    BY <1>1, <2>3, <2>5, <2>6, SymbolsOfCurrent, WithNodeIsSound
  <2> QED  BY <1>1, <2>1, <2>2, <2>7, ParseFailsKeeps
<1>3. CASE <<"function", Head(todo).name>> \notin Symbols
  <2>1. ToCompile([WithNode(Head(todo)) EXCEPT
                    !.symbols[1] = @ \cup {<<"function", Head(todo).name>>}])
    BY <1>3 DEF parseFunction
  <2>2. PICK t : t = [WithNode(Head(todo)) EXCEPT
                    !.symbols[1] = @ \cup {<<Head(todo).kind, Head(todo).name>>}]
    OBVIOUS
  <2>3. ToCompile(t)
    BY <1>1, <2>1, <2>2
  <2>4. 1 \in DOMAIN current.symbols
    BY SymbolsOfCurrent
  <2> QED  BY <1>1, <2>2, <2>3, <2>4, ParseDeclares
<1> QED  BY <1>2, <1>3

LEMMA parseStatementKeeps ==
    ASSUME SessionInv, parseStatement  PROVE SessionInv'
<1>1. phase = "parsing" /\ todo # <<>> /\ Head(todo).kind = "use"
  BY DEF parseStatement, NextItem
<1>2. PICK t : t = WithNode(Head(todo))
  OBVIOUS
<1>3. t = NodeAdded(current, Head(todo), current.symbols)
  BY <1>2, SymbolsOfCurrent DEF WithNode, NodeAdded, StateShape
<1>4. /\ StateSound(t) /\ Grows(current, t)
      /\ t.functions = current.functions /\ t.variables = current.variables
      /\ Len(t.nodes) = Len(current.nodes) + 1
      /\ t.nodes[Len(t.nodes)].item = Head(todo)
  BY <1>1, <1>3, SymbolsOfCurrent, WithNodeIsSound
<1>5. ToCompile(t)
  BY <1>2 DEF parseStatement
<1> QED  BY <1>1, <1>4, <1>5, ToCompileKeeps

LEMMA parseErrorKeeps ==
    ASSUME SessionInv, NEW inBlock \in BOOLEAN, parseError(inBlock)  PROVE SessionInv'
<1>1. phase = "parsing"
  BY DEF parseError, NextItem
<1>2. PICK s : s = [current EXCEPT !.symbols = IF inBlock THEN Append(@, {}) ELSE @]
  OBVIOUS
<1>3. PICK a : a = current.symbols
  OBVIOUS
<1>4. PICK b : b = IF inBlock THEN Append(a, {}) ELSE a
  OBVIOUS
<1>5. /\ b \in Seq(SUBSET SymbolEntry) /\ b # <<>>
      /\ a[1] \subseteq b[1]
      /\ AllOf(a) \subseteq AllOf(b)
  <2>1. CASE inBlock
    BY <1>3, <1>4, <2>1, SymbolsOfCurrent, AddedScope
  <2>2. CASE ~inBlock
    BY <1>3, <1>4, <2>2, SymbolsOfCurrent
  <2> QED  BY <2>1, <2>2
<1>6. /\ s \in StateShape /\ s.symbols = b /\ s.nodes = current.nodes
      /\ s.functions = current.functions /\ s.variables = current.variables
  <2>1. s = [current EXCEPT !.symbols = b]
    BY <1>2, <1>3, <1>4
  <2> QED  BY <2>1, <1>5, SymbolsOfCurrent DEF StateShape
<1>7. Grows(current, s)
  BY <1>3, <1>5, <1>6, SymbolsOfCurrent, ShapeOfState DEF Grows, SymbolsOf
<1>8. StateSound(current)
  BY DEF SessionInv, StatesSound
<1>9. StateSound(s)
  BY <1>5, <1>6, <1>7, <1>8, ParsedStateIsSound DEF StateSound
<1>10. ParseFails(s)
  BY <1>2 DEF parseError
<1> QED  BY <1>1, <1>6, <1>7, <1>9, <1>10, ParseFailsKeeps

LEMMA ParseEndsKeeps ==
    ASSUME SessionInv, ParseEnds  PROVE SessionInv'
<1>1. /\ phase = "parsing" /\ current' = SourceEnds(current, "parsed")
      /\ UNCHANGED <<vec_saved_state, astNodeToCompile, main, stack, cache, stament, frames>>
  BY DEF ParseEnds
<1>2. \/ phase' = "idle" /\ call' = "none"
      \/ phase' = "parsed" /\ call' = "eval"
  BY DEF ParseEnds, EndCall
<1>3. PICK s : s = current
  OBVIOUS
<1>4. StateSound(s) /\ Grows(current, s)
  BY <1>3, SymbolsOfCurrent, GrowsReflexive DEF SessionInv, StatesSound
<1> QED  BY <1>1, <1>2, <1>3, <1>4, ParseStopKeeps

LEMMA BeginParseKeeps ==
    ASSUME SessionInv, NEW s \in Sources, NEW c \in {"parse", "eval"}, BeginParse(s, c)
    PROVE  SessionInv'
<1>1. PICK t : t = [current EXCEPT !.files = @ \cup ({s.file} \ {NoName})]
  OBVIOUS
<1>2. /\ t \in StateShape /\ t.nodes = current.nodes /\ t.symbols = current.symbols
      /\ t.functions = current.functions /\ t.variables = current.variables
  BY <1>1, SymbolsOfCurrent DEF StateShape
<1>3. Grows(current, t)
  BY <1>2, SymbolsOfCurrent, ShapeOfState DEF Grows, SymbolsOf
<1>4. StateSound(current)
  BY DEF SessionInv, StatesSound
<1>5. StateSound(t)
  BY <1>2, <1>3, <1>4, ParsedStateIsSound DEF StateSound
<1>6. TextStep
  BY <1>1, <1>2, <1>3, <1>4, <1>5 DEF TextStep, CurrentGrows, BeginParse, Idle
<1>7. ControlTyped'
  BY DEF SessionInv, ControlTyped, BeginParse
<1>8. ParseSound'
  BY <1>1, <1>2, SourceAssumption DEF ParseSound, BeginParse, SoundItem
<1>9. astNodeToCompile' = astNodeToCompile
  BY DEF BeginParse
<1> QED  BY <1>6, <1>7, <1>8, <1>9, TextStepKeeps DEF SessionInv

-----------------------------------------------------------------------------
(* Compiler.                                                                *)

LEMMA CurrentUnchangedGrows ==
    ASSUME SessionInv, current' = current
    PROVE  CurrentGrows
<1>1. StateSound(current) /\ Grows(current, current)
  BY SoundHasShape, GrowsReflexive DEF SessionInv, StatesSound
<1> QED  BY <1>1 DEF CurrentGrows

LEMMA NoCodeIsSound ==
    /\ NoCode \in CodeType /\ NoCode.ins = <<>>
    /\ \A state : SoundCode(state, <<>>)
BY DEF NoCode, CodeType, SoundCode

LEMMA BeginCompileKeeps ==
    ASSUME SessionInv, BeginCompile  PROVE SessionInv'
<1>1. /\ phase' = "compiling" /\ main' = NoCode /\ stament' = <<>>
      /\ todo' = astNodeToCompile /\ astNodeToCompile' = <<>>
      /\ UNCHANGED <<current, vec_saved_state, stack, cache, frames>>
      /\ phase \in {"idle", "parsed"}
  BY DEF BeginCompile, Compiling, Idle
<1>2. CurrentGrows
  BY <1>1, CurrentUnchangedGrows
<1>3. StatesSound'
  BY <1>1, <1>2, StatesKept DEF SessionInv
<1>4. ControlTyped'
  BY <1>1 DEF SessionInv, ControlTyped, BeginCompile, Idle
<1>5. ParseSound' /\ LinkSound'
  BY <1>1 DEF ParseSound, LinkSound
<1>6. WaitSound'
  <2>1. Waiting' = Waiting
    BY <1>1 DEF Waiting
  <2>2. \A node \in Nat : NewerThanCode(node) => NewerThanCode(node)'
    BY <1>1, NoCodeIsSound DEF NewerThanCode
  <2> QED  BY <1>1, <1>2, <2>1, <2>2, WaitKept DEF SessionInv
<1>7. MainSound'
  BY <1>1, NoCodeIsSound DEF MainSound
<1>8. CacheSound'
  <2>1. cache.functions \in Nat /\ SoundCode(current, main.ins)
    BY DEF SessionInv, ControlTyped, MainSound
  <2> QED  BY <1>1, <1>2, <2>1, CacheKept DEF SessionInv
<1>9. RunSound'
  BY <1>1 DEF SessionInv, RunSound
<1>10. StackSound'
  BY <1>1 DEF SessionInv, StackSound, VariablesHoldNoJunk
<1> QED  BY <1>3, <1>4, <1>5, <1>6, <1>7, <1>8, <1>9, <1>10 DEF SessionInv

\* The node that is compiled next.
LEMMA HeadOfWait ==
    ASSUME SessionInv, phase = "compiling", todo # <<>>
    PROVE  /\ Head(todo) \in DOMAIN current.nodes /\ Head(todo) \in 1..MaxNodes
           /\ current.nodes[Head(todo)].item \in Item
           /\ SoundItem(current.nodes[Head(todo)].item)
           /\ Registered(current.nodes[Head(todo)].item)
           /\ Tail(todo) \in Seq(1..MaxNodes)
           /\ \A i \in DOMAIN Tail(todo) :
                 i + 1 \in DOMAIN todo /\ Tail(todo)[i] = todo[i + 1] /\ Head(todo) < todo[i + 1]
<1>1. /\ todo \in Seq(1..MaxNodes)
      /\ \A i \in DOMAIN todo :
            /\ todo[i] <= Len(current.nodes)
            /\ Registered(current.nodes[todo[i]].item)
            /\ \A j \in DOMAIN todo : i < j => todo[i] < todo[j]
  BY DEF SessionInv, WaitSound, Waiting
<1>2. 1 \in DOMAIN todo /\ Head(todo) = todo[1] /\ todo[1] \in 1..MaxNodes
      /\ Tail(todo) \in Seq(1..MaxNodes)
  <2>1. todo \in Seq(1..MaxNodes)
    BY <1>1
  <2> QED  BY <2>1, BoundAssumption
<1>3. \A i \in DOMAIN Tail(todo) : i \in Nat /\ i >= 1 /\ i + 1 \in DOMAIN todo /\ Tail(todo)[i] = todo[i + 1]
  <2>1. todo \in Seq(1..MaxNodes)
    BY <1>1
  <2> QED  BY <2>1, BoundAssumption
<1>4. Head(todo) \in DOMAIN current.nodes
  <2>1. Len(current.nodes) \in Nat /\ DOMAIN current.nodes = 1..Len(current.nodes)
    BY SymbolsOfCurrent, ShapeOfState
  <2> QED  BY <1>1, <1>2, <2>1, BoundAssumption
<1>5. current.nodes[Head(todo)].item \in Item /\ SoundItem(current.nodes[Head(todo)].item)
  <2>1. current.nodes[Head(todo)] \in NodeEntry
    BY <1>4, SymbolsOfCurrent, ShapeOfState
  <2> QED  BY <1>4, <2>1 DEF SessionInv, StatesSound, StateSound, NodeEntry
<1>6. \A i \in DOMAIN Tail(todo) : Head(todo) < todo[i + 1]
  BY <1>1, <1>2, <1>3
<1> QED  BY <1>1, <1>2, <1>3, <1>4, <1>5, <1>6

\* A step of the compiler: what was there stays, and what it adds comes from the
\* node it compiles.
CompileStep ==
    /\ phase = "compiling" /\ todo # <<>> /\ CurrentGrows
    /\ \A k \in DOMAIN current.functions : current'.functions[k] = current.functions[k]
    /\ \A k \in DOMAIN current'.functions : k \notin DOMAIN current.functions =>
          /\ current'.functions[k].code.exists \/ NeverCompiled(k)'
          /\ current'.functions[k].node = Head(todo)
          /\ \A j \in DOMAIN current'.functions[k].code.ins :
                current'.functions[k].code.ins[j].node = Head(todo)
    /\ current'.nodes = current.nodes
    /\ \A p \in DOMAIN current.variables : stack[p] = "native" => stack'[p] = "native"
    /\ stack' \in [Slots -> {"undefined", "set", "native", "junk"}]
    /\ StackSound'

LEMMA CompileStepKeeps ==
    ASSUME SessionInv, CompileStep, UNCHANGED <<vec_saved_state, main, cache, frames>>,
           phase' \in {"compiling", "idle"}
    PROVE  StatesSound' /\ LinkSound' /\ CacheSound' /\ RunSound'
<1>1. main = NoCode
  BY DEF SessionInv, MainSound, CompileStep
<1>2. StatesSound'
  <2>1. \A k \in DOMAIN current.functions :
                current'.functions[k].code.exists = current.functions[k].code.exists
    BY DEF CompileStep
  <2>2. \A k \in DOMAIN current'.functions : k \notin DOMAIN current.functions =>
                current'.functions[k].native \/ current'.functions[k].code.exists \/ NeverCompiled(k)'
    BY DEF CompileStep
  <2> QED  BY <2>1, <2>2, StatesKept DEF SessionInv, CompileStep
<1>3. CacheSound'
  <2>1. cache.functions \in Nat /\ SoundCode(current, main.ins)
    BY DEF SessionInv, ControlTyped, MainSound
  <2>2. \A k \in 1..cache.functions : current'.functions[k] = current.functions[k]
    <3>1. Len(current.functions) \in Nat /\ DOMAIN current.functions = 1..Len(current.functions)
      BY SymbolsOfCurrent, ShapeOfState
    <3>2. cache.functions <= Len(current.functions)
      BY DEF SessionInv, CacheSound
    <3>3. 1..cache.functions \subseteq DOMAIN current.functions
      BY <2>1, <3>1, <3>2
    <3> QED  BY <3>3 DEF CompileStep
  <2>3. main'.ins = <<>>
    BY <1>1, NoCodeIsSound
  <2> QED  BY <2>1, <2>2, <2>3, CacheKept DEF SessionInv, CompileStep
<1>4. RunSound'
  BY DEF SessionInv, RunSound, CompileStep
<1> QED  BY <1>2, <1>3, <1>4 DEF LinkSound

LEMMA CompileFailsKeeps ==
    ASSUME SessionInv, CompileStep, NEW t, CompileFails(t)
    PROVE  SessionInv'
<1>1. StatesSound' /\ LinkSound' /\ CacheSound' /\ RunSound'
  BY CompileStepKeeps DEF CompileFails, EndCall
<1>2. ControlTyped'
  BY DEF SessionInv, ControlTyped, CompileFails, EndCall, CompileStep
<1>3. ParseSound'
  BY DEF ParseSound, CompileFails, EndCall
<1>4. WaitSound'
  <2>1. Waiting' = <<>> /\ phase' = "idle"
    BY DEF SessionInv, WaitSound, Waiting, CompileStep, CompileFails, EndCall
  <2> QED  BY <2>1 DEF WaitSound
<1>5. MainSound'
  BY NoCodeIsSound DEF SessionInv, MainSound, CompileStep, CompileFails, EndCall
<1> QED  BY <1>1, <1>2, <1>3, <1>4, <1>5 DEF SessionInv, CompileStep

LEMMA CompiledKeeps ==
    ASSUME SessionInv, CompileStep, NEW t, NEW ins \in Seq(InsType), Compiled(t, ins),
           \A i \in DOMAIN ins : ins[i].link = Unlinked /\ ins[i].node = Head(todo)
    PROVE  SessionInv'
<1>1. StatesSound' /\ LinkSound' /\ CacheSound' /\ RunSound'
  BY CompileStepKeeps DEF Compiled, CompileStep
<1>2. ControlTyped'
  BY DEF SessionInv, ControlTyped, Compiled, CompileStep
<1>3. ParseSound'
  BY DEF ParseSound, Compiled, CompileStep
<1>4. stament \in Seq(InsType) /\ main = NoCode
  BY DEF SessionInv, MainSound, CompileStep
<1>5. PICK st : st = stament \o ins
  OBVIOUS
<1>6. /\ st \in Seq(InsType)
      /\ \A i \in DOMAIN st : \/ i \in DOMAIN stament /\ st[i] = stament[i]
                              \/ \E j \in DOMAIN ins : st[i] = ins[j]
  <2>1. Len(stament) \in Nat /\ Len(ins) \in Nat /\ DOMAIN ins = 1..Len(ins)
        /\ DOMAIN stament = 1..Len(stament)
    BY <1>4
  <2>2. st \in Seq(InsType) /\ Len(st) = Len(stament) + Len(ins) /\ DOMAIN st = 1..Len(st)
    BY <1>4, <1>5
  <2>3. ASSUME NEW i \in DOMAIN st, ~(i \in DOMAIN stament /\ st[i] = stament[i])
        PROVE  \E j \in DOMAIN ins : st[i] = ins[j]
    <3>1. i > Len(stament) /\ i - Len(stament) \in DOMAIN ins
      BY <1>4, <1>5, <2>1, <2>2, <2>3
    <3>2. st[i] = ins[i - Len(stament)]
      BY <1>4, <1>5, <2>1, <2>2, <3>1
    <3> QED  BY <3>1, <3>2
  <2> QED  BY <2>2, <2>3
<1>7. stament' = st /\ phase' = "compiling" /\ todo' = Tail(todo) /\ main' = main
      /\ astNodeToCompile' = astNodeToCompile
  BY <1>5 DEF Compiled, CompileStep
<1>8. /\ Head(todo) \in DOMAIN current.nodes /\ Head(todo) \in 1..MaxNodes
      /\ Tail(todo) \in Seq(1..MaxNodes)
      /\ \A i \in DOMAIN Tail(todo) :
            i + 1 \in DOMAIN todo /\ Tail(todo)[i] = todo[i + 1] /\ Head(todo) < todo[i + 1]
      /\ DOMAIN current.nodes = 1..Len(current.nodes)
  BY HeadOfWait, SymbolsOfCurrent, ShapeOfState DEF CompileStep
<1>9. MainSound'
  <2>1. \A i \in DOMAIN st : st[i].link = Unlinked /\ st[i].node <= Len(current.nodes)
    <3>1. \A i \in DOMAIN stament : stament[i].link = Unlinked /\ stament[i].node <= Len(current.nodes)
      BY DEF SessionInv, MainSound
    <3>2. Head(todo) <= Len(current.nodes)
      <4>1. Head(todo) \in 1..Len(current.nodes)
        BY <1>8
      <4> QED  BY <4>1
    <3> QED  BY <1>6, <3>1, <3>2
  <2> QED  BY <1>4, <1>6, <1>7, <2>1, NoCodeIsSound DEF MainSound, CompileStep
<1>10. WaitSound'
  <2>1. /\ todo \in Seq(1..MaxNodes) /\ astNodeToCompile = <<>>
        /\ \A i \in DOMAIN todo :
            /\ todo[i] <= Len(current.nodes)
            /\ Registered(current.nodes[todo[i]].item)
            /\ NewerThanCode(todo[i])
            /\ \A j \in DOMAIN todo : i < j => todo[i] < todo[j]
    BY DEF SessionInv, WaitSound, Waiting, CompileStep
  <2>2. PICK w : w = Tail(todo)
    OBVIOUS
  <2>3. ASSUME NEW node, Head(todo) < node, NewerThanCode(node)
        PROVE  NewerThanCode(node)'
    <3>1. \A k \in DOMAIN current'.functions :
              /\ current'.functions[k].node < node
              /\ \A j \in DOMAIN current'.functions[k].code.ins :
                    current'.functions[k].code.ins[j].node < node
      <4> TAKE k \in DOMAIN current'.functions
      <4>1. CASE k \in DOMAIN current.functions
        BY <2>3, <4>1 DEF CompileStep, NewerThanCode
      <4>2. CASE k \notin DOMAIN current.functions
        BY <2>3, <4>2 DEF CompileStep
      <4> QED  BY <4>1, <4>2
    <3>2. \A j \in DOMAIN main'.ins : main'.ins[j].node < node
      BY <1>7, <2>3 DEF NewerThanCode
    <3>3. \A j \in DOMAIN st : st[j].node < node
      BY <1>6, <2>3 DEF NewerThanCode
    <3> QED  BY <1>7, <3>1, <3>2, <3>3 DEF NewerThanCode
  <2>4. \A i \in DOMAIN w : NewerThanCode(w[i])'
    <3> TAKE i \in DOMAIN w
    <3>1. PICK node : node = w[i]
      OBVIOUS
    <3>2. Head(todo) < node /\ NewerThanCode(node)
      BY <1>8, <2>1, <2>2, <3>1
    <3> QED  BY <2>3, <3>1, <3>2
  <2>5. \A i \in DOMAIN w : w[i] <= Len(current'.nodes)
    BY <1>8, <2>1, <2>2 DEF CompileStep
  <2>6. \A i \in DOMAIN w : current'.nodes[w[i]].item.kind \in {"variable", "function"} =>
             <<current'.nodes[w[i]].item.kind, current'.nodes[w[i]].item.name>> \in SymbolsOf(current')
    <3> TAKE i \in DOMAIN w
    <3>1. Registered(current.nodes[w[i]].item) /\ current'.nodes = current.nodes
      BY <1>8, <2>1, <2>2 DEF CompileStep
    <3>2. SymbolsOf(current) \subseteq SymbolsOf(current')
      BY DEF CompileStep, CurrentGrows, Grows
    <3> QED  BY <3>1, <3>2 DEF Registered, Symbols, SymbolsOf, AllOf
  <2>7. \A i, j \in DOMAIN w : i < j => w[i] < w[j]
    <3> TAKE i, j \in DOMAIN w
    <3>1. i + 1 \in DOMAIN todo /\ j + 1 \in DOMAIN todo
          /\ w[i] = todo[i + 1] /\ w[j] = todo[j + 1]
      BY <1>8, <2>2
    <3>2. i \in Nat /\ j \in Nat
      <4>1. w \in Seq(1..MaxNodes)
        BY <1>8, <2>2
      <4> QED  BY <4>1
    <3>3. i < j => i + 1 < j + 1
      BY <3>2
    <3> QED  BY <2>1, <3>1, <3>3
  <2>8. Waiting' = w
    BY <1>7, <2>2 DEF Waiting
  <2>9. \A i \in DOMAIN Waiting' : NewerThanCode(Waiting[i])'
    BY <2>4, <2>8 DEF NewerThanCode
  <2>10. \A i \in DOMAIN Waiting' : Registered(current.nodes[Waiting[i]].item)'
    BY <2>6, <2>8 DEF Registered, Symbols, SymbolsOf, AllOf
  <2>11. w \in Seq(1..MaxNodes)
    BY <1>8, <2>2
  <2> QED  BY <1>7, <2>1, <2>5, <2>7, <2>8, <2>9, <2>10, <2>11 DEF WaitSound
<1> QED  BY <1>1, <1>2, <1>3, <1>9, <1>10 DEF SessionInv, CompileStep

\* Nothing is added.
LEMMA CompileStepAddsNothing ==
    ASSUME SessionInv, phase = "compiling", todo # <<>>, UNCHANGED <<current, stack>>
    PROVE  CompileStep
<1>1. CurrentGrows
  BY CurrentUnchangedGrows
<1>2. StackSound'
  BY DEF SessionInv, StackSound, VariablesHoldNoJunk
<1> QED  BY <1>1, <1>2 DEF CompileStep, SessionInv, ControlTyped

\* The instruction of a top-level item.
LEMMA InstructionTyped ==
    ASSUME NEW node \in 1..MaxNodes, NEW op \in {"set", "use"}, NEW name \in Names
    PROVE  /\ <<Instruction(node, op, name)>> \in Seq(InsType)
           /\ DOMAIN <<Instruction(node, op, name)>> = {1}
           /\ <<Instruction(node, op, name)>>[1].link = Unlinked
           /\ <<Instruction(node, op, name)>>[1].node = node
<1>1. PICK x : x = Instruction(node, op, name)
  OBVIOUS
<1>2. x \in InsType /\ x.link = Unlinked /\ x.node = node
  BY <1>1 DEF Instruction, InsType, LinkType, Unlinked
<1>3. <<x>> \in Seq(InsType) /\ DOMAIN <<x>> = {1} /\ <<x>>[1] = x
  BY <1>2
<1> QED  BY <1>1, <1>2, <1>3

LEMMA gacExpressionKeeps ==
    ASSUME SessionInv, gacExpression  PROVE SessionInv'
<1>1. PICK item : item = current.nodes[Head(todo)].item
  OBVIOUS
<1>2. phase = "compiling" /\ todo # <<>> /\ item.kind = "use" /\ stack' = stack
  BY <1>1 DEF gacExpression, NextNode
<1>3. CASE item.compiles
  <2>1. PICK ins : ins = <<Instruction(Head(todo), "use", item.uses)>>
    OBVIOUS
  <2>2. Compiled(current, ins)
    BY <1>1, <1>3, <2>1 DEF gacExpression
  <2>3. item.uses \in Names /\ Head(todo) \in 1..MaxNodes
    BY <1>1, <1>2, HeadOfWait DEF Item, SoundItem
  <2>4. /\ ins \in Seq(InsType)
        /\ \A i \in DOMAIN ins : ins[i].link = Unlinked /\ ins[i].node = Head(todo)
    BY <2>1, <2>3, InstructionTyped
  <2>5. current' = current
    BY <2>2 DEF Compiled
  <2>6. PICK t : t = current
    OBVIOUS
  <2> QED  BY <1>2, <2>2, <2>4, <2>5, <2>6, CompileStepAddsNothing, CompiledKeeps
<1>4. CASE ~item.compiles
  <2>1. CompileFails(current)
    BY <1>1, <1>4 DEF gacExpression
  <2>2. current' = current
    BY <2>1 DEF CompileFails
  <2>3. PICK t : t = current
    OBVIOUS
  <2> QED  BY <1>2, <2>1, <2>2, <2>3, CompileStepAddsNothing, CompileFailsKeeps
<1> QED  BY <1>3, <1>4

\* The table gets a variable at most, and its slot starts undefined.
LEMMA VariableStep ==
    ASSUME SessionInv, phase = "compiling", todo # <<>>, NEW item,
           item = current.nodes[Head(todo)].item, item.kind = "variable",
           current' = WithVariable(item), stack' = IniStackVar(item)
    PROVE  CompileStep
<1>1. /\ current \in StateShape
      /\ current.variables \in Seq(VariableEntry) /\ Len(current.variables) \in Nat
      /\ DOMAIN current.variables = 1..Len(current.variables)
  BY SymbolsOfCurrent, ShapeOfState
<1>2. LastWith(current.variables, item.name) = 0 =>
          \A q \in DOMAIN current.variables : current.variables[q].name # item.name
  BY <1>1, LastWithFinds
<1>3. CASE Exists(item)
  BY <1>3, CompileStepAddsNothing DEF WithVariable, IniStackVar
<1>4. CASE ~Exists(item)
  <2>1. PICK e : e = [name |-> item.name, native |-> FALSE]
    OBVIOUS
  <2>2. current' = VariableAdded(current, e)
    BY <1>4, <2>1 DEF WithVariable, VariableAdded
  <2>3. /\ item.name \in Names
        /\ <<"variable", item.name>> \in SymbolsOf(current)
        /\ Head(todo) \in DOMAIN current.nodes
    BY HeadOfWait DEF Item, SoundItem, Registered, Symbols, SymbolsOf, AllOf
  <2>4. e \in VariableEntry /\ ~e.native /\ e.name = item.name
    BY <2>1, <2>3 DEF VariableEntry
  <2>5. \A q \in DOMAIN current.variables : current.variables[q].name # item.name
    BY <1>2, <1>4 DEF Exists
  <2>6. StateSound(current)
    BY DEF SessionInv, StatesSound
  <2>7. PICK s : s = current
    OBVIOUS
  <2>8. PICK t : t = VariableAdded(s, e)
    OBVIOUS
  <2>9. /\ <<"variable", e.name>> \in SymbolsOf(s)
        /\ \E i \in DOMAIN s.nodes : /\ s.nodes[i].item.kind = "variable"
                                     /\ s.nodes[i].item.name = e.name
        /\ \A q \in DOMAIN s.variables :
                ~(s.variables[q].name = e.name /\ s.variables[q].native = e.native)
    BY <2>3, <2>4, <2>5, <2>7
  <2>10. /\ StateSound(t) /\ Grows(s, t)
         /\ t.functions = s.functions /\ t.nodes = s.nodes /\ t.symbols = s.symbols
         /\ Len(t.variables) = Len(s.variables) + 1
         /\ t.variables[Len(t.variables)] = e
    BY <2>4, <2>6, <2>7, <2>8, <2>9, AddedVariableIsSound
  <2>11. CurrentGrows /\ current' = t
    BY <2>2, <2>6, <2>7, <2>8, <2>10 DEF CurrentGrows
  <2>12. /\ DOMAIN current.variables \subseteq Slots /\ Len(current.variables) + 1 \in Slots
    BY <2>6, VariablesFit
  <2>13. stack \in [Slots -> {"undefined", "set", "native", "junk"}]
    BY DEF SessionInv, ControlTyped
  <2>14. stack' = [stack EXCEPT ![Len(current.variables) + 1] = "undefined"]
    BY <1>4 DEF IniStackVar
  <2>15. /\ stack' \in [Slots -> {"undefined", "set", "native", "junk"}]
         /\ stack'[Len(current.variables) + 1] = "undefined"
         /\ \A p \in Slots : p # Len(current.variables) + 1 => stack'[p] = stack[p]
    BY <2>12, <2>13, <2>14
  <2>16. /\ DOMAIN t.variables = DOMAIN current.variables \cup {Len(current.variables) + 1}
         /\ \A p \in DOMAIN current.variables :
               p # Len(current.variables) + 1 /\ t.variables[p] = current.variables[p]
    <3>1. DOMAIN t.variables = 1..(Len(current.variables) + 1)
      BY <1>1, <2>7, <2>10, <2>11, SoundHasShape, ShapeOfState
    <3>2. \A p \in DOMAIN current.variables : t.variables[p] = current.variables[p]
      BY <2>7, <2>10 DEF Grows
    <3> QED  BY <1>1, <3>1, <3>2
  <2>17. \A p \in DOMAIN current.variables : stack'[p] = stack[p]
    BY <2>12, <2>15, <2>16
  <2>18. VariablesHoldNoJunk'
    <3>1. \A p \in DOMAIN t.variables : ~t.variables[p].native => stack'[p] \in {"undefined", "set"}
      <4> TAKE p \in DOMAIN t.variables
      <4>1. CASE p = Len(current.variables) + 1
        BY <2>15, <4>1
      <4>2. CASE p \in DOMAIN current.variables
        BY <2>16, <2>17, <4>2 DEF SessionInv, StackSound, VariablesHoldNoJunk
      <4> QED  BY <2>16, <4>1, <4>2
    <3> QED  BY <2>11, <3>1 DEF VariablesHoldNoJunk
  <2>19. StackSound'
    <3>1. ASSUME NEW p \in Slots, stack'[p] = "set"
          PROVE  p \in DOMAIN t.variables /\ ~t.variables[p].native
      <4>1. p # Len(current.variables) + 1 /\ stack[p] = "set"
        BY <2>15, <3>1
      <4>2. p \in DOMAIN current.variables /\ ~current.variables[p].native
        BY <4>1 DEF SessionInv, StackSound
      <4> QED  BY <2>16, <4>2
    <3> QED  BY <2>11, <2>18, <3>1 DEF StackSound
  <2>20. current'.functions = current.functions /\ current'.nodes = current.nodes
    BY <2>7, <2>10, <2>11
  <2> QED  BY <2>11, <2>15, <2>17, <2>19, <2>20 DEF CompileStep
<1> QED  BY <1>3, <1>4

LEMMA gacVarKeeps ==
    ASSUME SessionInv, gacVar  PROVE SessionInv'
<1>1. PICK item : item = current.nodes[Head(todo)].item
  OBVIOUS
<1>2. phase = "compiling" /\ todo # <<>> /\ item.kind = "variable" /\ stack' = IniStackVar(item)
  BY <1>1 DEF gacVar, NextNode
<1>3. current' = WithVariable(item)
  BY <1>1 DEF gacVar, Compiled, CompileFails
<1>4. CompileStep
  BY <1>1, <1>2, <1>3, VariableStep
<1>5. PICK t : t = WithVariable(item)
  OBVIOUS
<1>6. CASE item.compiles
  <2>1. PICK ins : ins = <<Instruction(Head(todo), "set", item.name)>>
    OBVIOUS
  <2>2. Compiled(t, ins)
    BY <1>1, <1>5, <1>6, <2>1 DEF gacVar
  <2>3. item.name \in Names /\ Head(todo) \in 1..MaxNodes
    BY <1>1, <1>2, HeadOfWait DEF Item, SoundItem
  <2>4. /\ ins \in Seq(InsType)
        /\ \A i \in DOMAIN ins : ins[i].link = Unlinked /\ ins[i].node = Head(todo)
    BY <2>1, <2>3, InstructionTyped
  <2> QED  BY <1>4, <2>2, <2>4, CompiledKeeps
<1>7. CASE ~item.compiles
  <2>1. CompileFails(t)
    BY <1>1, <1>5, <1>7 DEF gacVar
  <2> QED  BY <1>4, <2>1, CompileFailsKeeps
<1> QED  BY <1>6, <1>7

\* What the compiler makes of a function.
Body(item, node) ==
    IF item.uses = NoName THEN <<>> ELSE <<Instruction(node, "use", item.uses)>>
EntryOf(item, node, body) ==
    [name |-> item.name, native |-> FALSE, node |-> node,
     code |-> IF item.compiles THEN Code(body) ELSE NoCode]

\* The table gets a function, without links, and without code when its body does
\* not compile.
LEMMA FunctionStep ==
    ASSUME SessionInv, phase = "compiling", todo # <<>>, NEW item,
           item = current.nodes[Head(todo)].item, item.kind = "function",
           LastWith(current.functions, item.name) = 0, stack' = stack,
           current' = FunctionAdded(current, EntryOf(item, Head(todo), Body(item, Head(todo))))
    PROVE  CompileStep
<1>a. PICK body : body = Body(item, Head(todo))
  OBVIOUS
<1>b. PICK e : e = EntryOf(item, Head(todo), body)
  OBVIOUS
<1>c. current' = FunctionAdded(current, e)
  BY <1>a, <1>b
<1>1. /\ current \in StateShape
      /\ current.functions \in Seq(FunctionEntry) /\ Len(current.functions) \in Nat
      /\ DOMAIN current.functions = 1..Len(current.functions)
      /\ DOMAIN current.nodes = 1..Len(current.nodes) /\ Len(current.nodes) \in Nat
  BY SymbolsOfCurrent, ShapeOfState
<1>2. \A k \in DOMAIN current.functions : current.functions[k].name # item.name
  BY <1>1, LastWithFinds
<1>3. /\ item.name \in Names /\ item.uses \in Names \cup {NoName} /\ item.compiles \in BOOLEAN
      /\ <<"function", item.name>> \in SymbolsOf(current)
      /\ Head(todo) \in DOMAIN current.nodes /\ Head(todo) \in 1..MaxNodes
  BY HeadOfWait DEF Item, SoundItem, Registered, Symbols, SymbolsOf, AllOf
<1>4. /\ body \in Seq(InsType)
      /\ \A i \in DOMAIN body : body[i].link = Unlinked /\ body[i].node = Head(todo)
  <2>1. CASE item.uses = NoName
    <3>1. body = <<>>
      BY <1>a, <2>1 DEF Body
    <3> QED  BY <3>1
  <2>2. CASE item.uses # NoName
    <3>1. item.uses \in Names
      BY <1>3, <2>2
    <3>2. PICK x : x = Instruction(Head(todo), "use", item.uses)
      OBVIOUS
    <3>3. x \in InsType /\ x.link = Unlinked /\ x.node = Head(todo)
      BY <1>3, <3>1, <3>2 DEF Instruction, InsType, LinkType, Unlinked
    <3>4. body = <<x>>
      BY <1>a, <2>2, <3>2 DEF Body
    <3> QED  BY <3>3, <3>4
  <2> QED  BY <2>1, <2>2
<1>5. PICK c : c = IF item.compiles THEN Code(body) ELSE NoCode
  OBVIOUS
<1>6. /\ c \in CodeType
      /\ c.exists = item.compiles
      /\ c.ins = body \/ c.ins = <<>>
  <2>1. Code(body) \in CodeType /\ Code(body).exists = TRUE /\ Code(body).ins = body
    BY <1>4 DEF Code, CodeType, InsType, LinkType
  <2>2. NoCode \in CodeType /\ NoCode.exists = FALSE /\ NoCode.ins = <<>>
    BY NoCodeIsSound DEF NoCode
  <2>3. CASE item.compiles
    BY <1>3, <1>5, <2>1, <2>3
  <2>4. CASE ~item.compiles
    BY <1>3, <1>5, <2>2, <2>4
  <2> QED  BY <2>3, <2>4
<1>7. SoundCode(current, c.ins) /\ \A j \in DOMAIN c.ins : c.ins[j].node = Head(todo)
  <2>1. \A i \in DOMAIN body : SoundLink(current, body[i])
    BY <1>4 DEF SoundLink, Unlinked
  <2>2. \A i \in DOMAIN body : body[i].node <= Len(current.nodes)
    BY <1>1, <1>3, <1>4
  <2> QED  BY <1>4, <1>6, <2>1, <2>2 DEF SoundCode
<1>8. /\ e.name = item.name /\ e.native = FALSE /\ e.node = Head(todo) /\ e.code = c
      /\ e \in FunctionEntry
  <2>1. e = [name |-> item.name, native |-> FALSE, node |-> Head(todo), code |-> c]
    BY <1>5, <1>b DEF EntryOf
  <2> QED  BY <1>3, <1>6, <2>1, BoundAssumption DEF FunctionEntry
<1>9. StateSound(current)
  BY DEF SessionInv, StatesSound
<1>10. PICK s : s = current
  OBVIOUS
<1>11. PICK t : t = FunctionAdded(s, e)
  OBVIOUS
<1>12. /\ <<"function", e.name>> \in SymbolsOf(s) /\ e.node \in DOMAIN s.nodes
       /\ \A k \in DOMAIN s.functions : s.functions[k].name # e.name
       /\ SoundCode(s, e.code.ins) /\ StateSound(s) /\ ~e.native
  BY <1>2, <1>3, <1>7, <1>8, <1>9, <1>10
<1>13. /\ StateSound(t) /\ Grows(s, t)
       /\ t.variables = s.variables /\ t.nodes = s.nodes /\ t.symbols = s.symbols
       /\ Len(t.functions) = Len(s.functions) + 1
       /\ \A k \in DOMAIN s.functions : t.functions[k] = s.functions[k]
       /\ t.functions[Len(t.functions)] = e
  BY <1>8, <1>11, <1>12, AddedFunctionIsSound
<1>14. CurrentGrows /\ current' = t
  BY <1>9, <1>10, <1>11, <1>13, <1>c DEF CurrentGrows
<1>15. ASSUME NEW k \in DOMAIN t.functions, k \notin DOMAIN current.functions
       PROVE  t.functions[k] = e
  <2>1. DOMAIN t.functions = 1..Len(t.functions) /\ Len(t.functions) = Len(current.functions) + 1
    BY <1>10, <1>13, SoundHasShape, ShapeOfState
  <2>2. k = Len(t.functions)
    BY <1>1, <1>15, <2>1
  <2> QED  BY <1>13, <2>2
<1>16. ASSUME NEW k \in DOMAIN current'.functions, k \notin DOMAIN current.functions
       PROVE  /\ current'.functions[k].code.exists \/ NeverCompiled(k)'
              /\ current'.functions[k].node = Head(todo)
              /\ \A j \in DOMAIN current'.functions[k].code.ins :
                    current'.functions[k].code.ins[j].node = Head(todo)
  <2>1. current'.functions[k] = e
    BY <1>14, <1>15, <1>16
  <2>2. current'.nodes[Head(todo)].item = item
    BY <1>10, <1>13, <1>14
  <2>3. e.code.exists \/ ~item.compiles
    BY <1>6, <1>8
  <2>4. e.code.exists \/ NeverCompiled(k)'
    BY <1>8, <2>1, <2>2, <2>3 DEF NeverCompiled
  <2> QED  BY <1>7, <1>8, <2>1, <2>4
<1>17. StackSound' /\ stack' \in [Slots -> {"undefined", "set", "native", "junk"}]
  <2>1. current'.variables = current.variables
    BY <1>10, <1>13, <1>14
  <2> QED  BY <2>1 DEF SessionInv, ControlTyped, StackSound, VariablesHoldNoJunk
<1>18. /\ \A k \in DOMAIN current.functions : current'.functions[k] = current.functions[k]
       /\ current'.nodes = current.nodes
  BY <1>10, <1>13, <1>14
<1> QED  BY <1>14, <1>16, <1>17, <1>18 DEF CompileStep

LEMMA gacFunctionKeeps ==
    ASSUME SessionInv, gacFunction  PROVE SessionInv'
<1>1. PICK item : item = current.nodes[Head(todo)].item
  OBVIOUS
<1>2. phase = "compiling" /\ todo # <<>> /\ item.kind = "function" /\ stack' = stack
  BY <1>1 DEF gacFunction, NextNode
<1>3. CASE LastWith(current.functions, item.name) # 0
  <2>1. CompileFails(current)
    BY <1>1, <1>3 DEF gacFunction
  <2>2. current' = current
    BY <2>1 DEF CompileFails
  <2>3. PICK t : t = current
    OBVIOUS
  <2> QED  BY <1>2, <2>1, <2>2, <2>3, CompileStepAddsNothing, CompileFailsKeeps
<1>4. CASE LastWith(current.functions, item.name) = 0
  <2>1. PICK body : body = Body(item, Head(todo))
    OBVIOUS
  <2>2. PICK e : e = EntryOf(item, Head(todo), body)
    OBVIOUS
  <2>3. PICK t : t = FunctionAdded(current, e)
    OBVIOUS
  <2>4. IF item.compiles THEN Compiled(t, <<>>) ELSE CompileFails(t)
    BY <1>1, <1>4, <2>1, <2>2, <2>3 DEF gacFunction, FunctionAdded, EntryOf, Body
  <2>5. current' = FunctionAdded(current, EntryOf(item, Head(todo), Body(item, Head(todo))))
    BY <2>1, <2>2, <2>3, <2>4 DEF Compiled, CompileFails
  <2>6. CompileStep
    BY <1>1, <1>2, <1>4, <2>5, FunctionStep
  <2>7. CASE item.compiles
    <3>1. Compiled(t, <<>>)
      BY <2>4, <2>7
    <3>2. <<>> \in Seq(InsType) /\ DOMAIN <<>> = {}
      OBVIOUS
    <3> QED  BY <2>6, <3>1, <3>2, CompiledKeeps
  <2>8. CASE ~item.compiles
    <3>1. CompileFails(t)
      BY <2>4, <2>8
    <3> QED  BY <2>6, <3>1, CompileFailsKeeps
  <2> QED  BY <2>7, <2>8
<1> QED  BY <1>3, <1>4

LEMMA popFunctionKeeps ==
    ASSUME SessionInv, popFunction  PROVE SessionInv'
<1>1. /\ phase = "compiling" /\ todo = <<>> /\ main' = Code(stament) /\ stament' = <<>>
      /\ phase' = "linking" /\ todo' = [k \in 1..(Len(current.functions) + 1) |-> k - 1]
      /\ UNCHANGED <<current, vec_saved_state, astNodeToCompile, stack, cache, call, frames>>
  BY DEF popFunction
<1>2. CurrentGrows
  BY <1>1, CurrentUnchangedGrows
<1>3. StatesSound'
  BY <1>1, <1>2, StatesKept DEF SessionInv
<1>4. ControlTyped'
  BY <1>1 DEF SessionInv, ControlTyped
<1>5. ParseSound'
  BY <1>1 DEF ParseSound
<1>6. WaitSound'
  <2>1. Waiting' = <<>>
    BY <1>1 DEF SessionInv, WaitSound, Waiting
  <2> QED  BY <1>1, <2>1 DEF WaitSound
<1>7. MainSound'
  <2>1. /\ stament \in Seq(InsType)
        /\ \A i \in DOMAIN stament : stament[i].link = Unlinked /\ stament[i].node <= Len(current.nodes)
    BY DEF SessionInv, MainSound
  <2>2. Code(stament) \in CodeType /\ Code(stament).ins = stament
    BY <2>1 DEF Code, CodeType, InsType, LinkType
  <2>3. SoundCode(current, stament)
    BY <2>1 DEF SoundCode, SoundLink, Unlinked
  <2> QED  BY <1>1, <2>2, <2>3 DEF MainSound
<1>8. LinkSound'
  <2>1. Len(current.functions) \in Nat
    BY SymbolsOfCurrent, ShapeOfState
  <2>2. \A k \in 1..(Len(current.functions) + 1) : k - 1 \in 0..Len(current.functions)
    BY <2>1
  <2>3. todo' \in [1..(Len(current.functions) + 1) -> 0..Len(current.functions)]
    BY <1>1, <2>2
  <2>4. todo' \in Seq(0..Len(current.functions))
    BY <2>1, <2>3, FunctionIsSequence
  <2>5. \A k \in 0..Len(current.functions) : \E i \in DOMAIN todo' : todo'[i] = k
    <3> TAKE k \in 0..Len(current.functions)
    <3>1. k + 1 \in DOMAIN todo' /\ todo'[k + 1] = k
      BY <1>1, <2>1
    <3> QED  BY <3>1
  <2> QED  BY <1>1, <2>4, <2>5 DEF LinkSound
<1>9. CacheSound'
  <2>1. cache.functions \in Nat /\ SoundCode(current, main.ins)
    BY DEF SessionInv, ControlTyped, MainSound
  <2> QED  BY <1>1, <1>2, <2>1, CacheKept DEF SessionInv
<1>10. RunSound'
  BY <1>1 DEF SessionInv, RunSound
<1>11. StackSound'
  BY <1>1 DEF SessionInv, StackSound, VariablesHoldNoJunk
<1> QED  BY <1>3, <1>4, <1>5, <1>6, <1>7, <1>8, <1>9, <1>10, <1>11 DEF SessionInv

-----------------------------------------------------------------------------
(* Linker.                                                                  *)

\* The code of function k, main included, is sound.
LEMMA CodeOfIsSound ==
    ASSUME SessionInv, NEW k \in 0..Len(current.functions)
    PROVE  /\ CodeOf(k) \in CodeType /\ CodeOf(k).ins \in Seq(InsType)
           /\ SoundCode(current, CodeOf(k).ins)
           /\ k # 0 => k \in DOMAIN current.functions
           /\ k \in Nat
<1>1. /\ current \in StateShape /\ Len(current.functions) \in Nat
      /\ DOMAIN current.functions = 1..Len(current.functions)
  BY SymbolsOfCurrent, ShapeOfState
<1>2. CASE k = 0
  <2>1. main \in CodeType /\ SoundCode(current, main.ins)
    BY DEF SessionInv, MainSound
  <2>2. main.ins \in Seq(InsType)
    BY <2>1 DEF CodeType, InsType, LinkType
  <2> QED  BY <1>2, <2>1, <2>2 DEF CodeOf
<1>3. CASE k # 0
  <2>1. k \in DOMAIN current.functions
    BY <1>1, <1>3
  <2>2. SoundCode(current, current.functions[k].code.ins)
    BY <2>1 DEF SessionInv, StatesSound, StateSound, FunctionsSound
  <2> QED  BY <1>1, <1>3, <2>1, <2>2, CodeOfEntry DEF CodeOf
<1> QED  BY <1>2, <1>3

\* What a link of function k writes.
LinkStep(k, code) ==
    /\ phase = "linking" /\ k \in 0..Len(current.functions)
    /\ code \in CodeType /\ SoundCode(current, code.ins)
    /\ code.exists = CodeOf(k).exists
    /\ DOMAIN code.ins = DOMAIN CodeOf(k).ins
    /\ \A i \in DOMAIN code.ins : code.ins[i].node = CodeOf(k).ins[i].node
    /\ IsLinked(CodeOf(k).ins) => code = CodeOf(k)
    /\ k # 0 /\ current.functions[k].native => code = NoCode
    /\ Relinked(k, code)

LEMMA LinkFunctionIsStep ==
    ASSUME SessionInv, LinkFunction
    PROVE  \E code : /\ LinkStep(Head(todo), code)
                     /\ code.ins = Linked(current, CodeOf(Head(todo)).ins)
<1>1. phase = "linking" /\ todo # <<>>
  BY DEF LinkFunction
<1>2. PICK k : k = Head(todo)
  OBVIOUS
<1>3. k \in 0..Len(current.functions)
  <2>1. todo \in Seq(0..Len(current.functions))
    BY <1>1 DEF SessionInv, LinkSound
  <2> QED  BY <1>1, <1>2, <2>1
<1>4. PICK old : old = CodeOf(k)
  OBVIOUS
<1>5. old \in CodeType /\ old.ins \in Seq(InsType) /\ SoundCode(current, old.ins)
  BY <1>3, <1>4, CodeOfIsSound
<1>6. PICK ins : ins = Linked(current, old.ins)
  OBVIOUS
<1>7. current.functions \in Seq(FunctionEntry) /\ current.variables \in Seq(VariableEntry)
  BY SymbolsOfCurrent, ShapeOfState
<1>8. /\ ins \in Seq(InsType)
      /\ DOMAIN ins = DOMAIN old.ins
      /\ SoundCode(current, ins)
      /\ \A i \in DOMAIN old.ins : ins[i].node = old.ins[i].node
      /\ IsLinked(old.ins) => ins = old.ins
  BY <1>5, <1>6, <1>7, LinkedIsSound
<1>9. PICK code : code = [old EXCEPT !.ins = ins]
  OBVIOUS
<1>10. code \in CodeType /\ code.exists = old.exists /\ code.ins = ins
  BY <1>5, <1>8, <1>9 DEF CodeType, InsType, LinkType
<1>11. IsLinked(old.ins) => code = old
  BY <1>5, <1>8, <1>9 DEF CodeType
<1>12. k # 0 /\ current.functions[k].native => code = NoCode
  <2> SUFFICES ASSUME k # 0, current.functions[k].native  PROVE code = NoCode
    OBVIOUS
  <2>1. k \in DOMAIN current.functions
    BY <1>3, CodeOfIsSound
  <2>2. old = NoCode
    BY <1>4, <2>1 DEF CodeOf, SessionInv, StatesSound, StateSound, FunctionsSound
  <2>3. IsLinked(old.ins)
    BY <2>2, NoCodeIsSound DEF IsLinked
  <2> QED  BY <1>11, <2>2, <2>3
<1>13. Relinked(k, code)
  BY <1>2, <1>4, <1>6, <1>9 DEF LinkFunction
<1>14. LinkStep(k, code)
  BY <1>1, <1>3, <1>4, <1>8, <1>10, <1>11, <1>12, <1>13 DEF LinkStep
<1> QED  BY <1>2, <1>4, <1>6, <1>10, <1>14

\* The code of function k changes, nothing else does.
LEMMA LinkStepChanges ==
    ASSUME SessionInv, NEW k, NEW code, LinkStep(k, code)
    PROVE  /\ CurrentGrows
           /\ current'.nodes = current.nodes /\ current'.variables = current.variables
           /\ Len(current'.functions) = Len(current.functions)
           /\ DOMAIN current'.functions = DOMAIN current.functions
           /\ k = 0 => main' = code /\ current' = current
           /\ k # 0 => main' = main /\ current'.functions[k].code = code
           /\ \A m \in DOMAIN current.functions :
                 /\ m # k => current'.functions[m] = current.functions[m]
                 /\ current'.functions[m].node = current.functions[m].node
           /\ IsLinked(CodeOf(k).ins) => current' = current /\ main' = main
<1>1. StateSound(current)
  BY DEF SessionInv, StatesSound
<1>2. CASE k = 0
  <2>1. main' = code /\ current' = current
    BY <1>2 DEF LinkStep, Relinked
  <2>2. CurrentGrows
    BY <2>1, CurrentUnchangedGrows
  <2> QED  BY <1>2, <2>1, <2>2 DEF LinkStep, CodeOf
<1>3. CASE k # 0
  <2>1. k \in DOMAIN current.functions
    BY <1>3, CodeOfIsSound DEF LinkStep
  <2>2. PICK s : s = current
    OBVIOUS
  <2>3. PICK t : t = Recoded(s, k, code)
    OBVIOUS
  <2>4. StateSound(s) /\ k \in DOMAIN s.functions /\ code \in CodeType /\ SoundCode(s, code.ins)
        /\ (s.functions[k].native => code = NoCode)
    BY <1>1, <1>3, <2>1, <2>2 DEF LinkStep
  <2>5. /\ StateSound(t)
        /\ Grows(s, t)
        /\ t.variables = s.variables /\ t.nodes = s.nodes /\ t.symbols = s.symbols
        /\ Len(t.functions) = Len(s.functions)
        /\ \A m \in DOMAIN s.functions :
              t.functions[m] = IF m = k THEN [s.functions[k] EXCEPT !.code = code]
                                        ELSE s.functions[m]
    BY <2>3, <2>4, RelinkedStateIsSound
  <2>6. current' = t /\ main' = main
    BY <1>3, <2>2, <2>3 DEF LinkStep, Relinked, Recoded
  <2>7. CurrentGrows
    BY <1>1, <2>2, <2>5, <2>6 DEF CurrentGrows
  <2>8. DOMAIN t.functions = DOMAIN s.functions
    BY <2>4, <2>5, SoundHasShape, ShapeOfState
  <2>9. s.functions[k] \in FunctionEntry
    BY <2>4, SoundHasShape, ShapeOfState
  <2>10. t.functions[k] = [s.functions[k] EXCEPT !.code = code]
    BY <2>4, <2>5
  <2>11. t.functions[k].code = code /\ t.functions[k].node = s.functions[k].node
    BY <2>9, <2>10 DEF FunctionEntry
  <2>12. \A m \in DOMAIN s.functions :
            /\ m # k => t.functions[m] = s.functions[m]
            /\ t.functions[m].node = s.functions[m].node
    BY <2>5, <2>11
  <2>13. IsLinked(CodeOf(k).ins) => t = s
    <3> SUFFICES ASSUME IsLinked(CodeOf(k).ins)  PROVE t = s
      OBVIOUS
    <3>1. code = s.functions[k].code
      BY <1>3, <2>2 DEF LinkStep, CodeOf
    <3>2. [s.functions[k] EXCEPT !.code = code] = s.functions[k]
      BY <2>9, <3>1 DEF FunctionEntry
    <3>3. t = [s EXCEPT !.functions = [@ EXCEPT ![k] = s.functions[k]]]
      BY <2>3, <3>2, <2>4, SoundHasShape DEF Recoded, StateShape
    <3>4. [s.functions EXCEPT ![k] = s.functions[k]] = s.functions
      BY <2>4, SoundHasShape, ShapeOfState
    <3>5. s \in StateShape
      BY <2>4, SoundHasShape
    <3> QED  BY <3>3, <3>4, <3>5 DEF StateShape
  <2> QED  BY <1>3, <2>2, <2>5, <2>6, <2>7, <2>8, <2>11, <2>12, <2>13
<1> QED  BY <1>2, <1>3

LEMMA LinkFunctionKeeps ==
    ASSUME SessionInv, LinkFunction  PROVE SessionInv'
<1>1. /\ phase = "linking" /\ todo # <<>>
      /\ UNCHANGED <<vec_saved_state, astNodeToCompile, stack, cache, stament, frames>>
  BY DEF LinkFunction
<1>2. PICK k : k = Head(todo)
  OBVIOUS
<1>3. PICK code : /\ LinkStep(k, code)
                  /\ code.ins = Linked(current, CodeOf(k).ins)
  BY <1>2, LinkFunctionIsStep
<1>4. \/ IsLinked(code.ins) /\ todo' = Tail(todo) /\ phase' = phase /\ call' = call
      \/ ~IsLinked(code.ins) /\ phase' = "idle" /\ call' = "none" /\ todo' = <<>>
  BY <1>2, <1>3 DEF LinkFunction, EndCall
<1>5. /\ CurrentGrows
      /\ current'.nodes = current.nodes /\ current'.variables = current.variables
      /\ Len(current'.functions) = Len(current.functions)
      /\ DOMAIN current'.functions = DOMAIN current.functions
      /\ k = 0 => main' = code /\ current' = current
      /\ k # 0 => main' = main /\ current'.functions[k].code = code
      /\ \A m \in DOMAIN current.functions :
            /\ m # k => current'.functions[m] = current.functions[m]
            /\ current'.functions[m].node = current.functions[m].node
      /\ IsLinked(CodeOf(k).ins) => current' = current /\ main' = main
  BY <1>3, LinkStepChanges
<1>6. /\ k \in 0..Len(current.functions) /\ k \in Nat
      /\ k # 0 => k \in DOMAIN current.functions
      /\ Len(current.functions) \in Nat /\ DOMAIN current.functions = 1..Len(current.functions)
  BY <1>3, CodeOfIsSound, SymbolsOfCurrent, ShapeOfState DEF LinkStep
<1>7. cache.functions \in Nat /\ cache.functions <= Len(current.functions)
      /\ SoundCode(current, main.ins)
  BY DEF SessionInv, ControlTyped, CacheSound, MainSound
<1>8. k # 0 /\ k <= cache.functions => IsLinked(CodeOf(k).ins)
  <2> SUFFICES ASSUME k # 0, k <= cache.functions  PROVE IsLinked(CodeOf(k).ins)
    OBVIOUS
  <2>1. k \in 1..cache.functions
    BY <1>6, <1>7
  <2> QED  BY <2>1 DEF SessionInv, CacheSound, ReadyCode, CodeOf
<1>9. IsLinked(CodeOf(k).ins) => IsLinked(code.ins)
  BY <1>3 DEF LinkStep
<1>10. StatesSound'
  <2>1. \A m \in DOMAIN current.functions :
            current'.functions[m].code.exists = current.functions[m].code.exists
    <3> TAKE m \in DOMAIN current.functions
    <3>1. CASE m # k
      BY <1>5, <3>1
    <3>2. CASE m = k
      <4>1. k # 0
        BY <1>6, <3>2
      <4> QED  BY <1>3, <1>5, <3>2, <4>1 DEF LinkStep, CodeOf
    <3> QED  BY <3>1, <3>2
  <2>2. \A m \in DOMAIN current'.functions : m \in DOMAIN current.functions
    BY <1>5
  <2> QED  BY <1>1, <1>5, <2>1, <2>2, StatesKept DEF SessionInv
<1>11. ControlTyped'
  BY <1>1, <1>4 DEF SessionInv, ControlTyped
<1>12. ParseSound'
  BY <1>1, <1>4 DEF ParseSound
<1>13. WaitSound'
  <2>1. Waiting' = Waiting /\ phase' # "compiling"
    BY <1>1, <1>4 DEF Waiting
  <2>2. ASSUME NEW node, NewerThanCode(node)  PROVE NewerThanCode(node)'
    <3>1. ASSUME NEW m \in DOMAIN current.functions
          PROVE  /\ current'.functions[m].node < node
                 /\ \A j \in DOMAIN current'.functions[m].code.ins :
                       current'.functions[m].code.ins[j].node < node
      <4>1. CASE m # k
        BY <1>5, <2>2, <4>1 DEF NewerThanCode
      <4>2. CASE m = k
        <5>1. k # 0 /\ CodeOf(k) = current.functions[k].code /\ current'.functions[k].code = code
          BY <1>5, <1>6, <4>2 DEF CodeOf
        <5> QED  BY <1>3, <1>5, <2>2, <4>2, <5>1 DEF NewerThanCode, LinkStep
      <4> QED  BY <4>1, <4>2
    <3>2. \A j \in DOMAIN main'.ins : main'.ins[j].node < node
      <4>1. CASE k = 0
        <5>1. CodeOf(k) = main /\ main' = code
          BY <1>5, <4>1 DEF CodeOf
        <5> QED  BY <1>3, <2>2, <5>1 DEF NewerThanCode, LinkStep
      <4>2. CASE k # 0
        BY <1>5, <2>2, <4>2 DEF NewerThanCode
      <4> QED  BY <4>1, <4>2
    <3>3. \A j \in DOMAIN stament' : stament'[j].node < node
      BY <1>1, <2>2 DEF NewerThanCode
    <3> QED  BY <1>5, <3>1, <3>2, <3>3 DEF NewerThanCode
  <2> QED  BY <1>5, <2>1, <2>2, WaitKept DEF SessionInv
<1>14. MainSound'
  <2>1. CASE k = 0
    <3>1. main' = code /\ current' = current
      BY <1>5, <2>1
    <3> QED  BY <1>1, <1>3, <1>4, <3>1 DEF SessionInv, MainSound, LinkStep
  <2>2. CASE k # 0
    <3>1. main' = main
      BY <1>5, <2>2
    <3>2. stament = <<>> /\ phase' # "compiling"
      BY <1>1, <1>4 DEF SessionInv, MainSound
    <3> QED  BY <1>1, <1>5, <3>1, <3>2, MainKept DEF SessionInv
  <2> QED  BY <2>1, <2>2
<1>15. LinkSound'
  <2> SUFFICES ASSUME phase' = "linking"  PROVE LinkSound'
    BY DEF LinkSound
  <2>1. IsLinked(code.ins) /\ todo' = Tail(todo)
    BY <1>4
  <2>2. /\ todo \in Seq(0..Len(current.functions))
        /\ \A m \in 0..Len(current.functions) :
              IsLinked(CodeOf(m).ins) \/ \E i \in DOMAIN todo : todo[i] = m
    BY <1>1 DEF SessionInv, LinkSound
  <2>3. Tail(todo) \in Seq(0..Len(current.functions)) /\ Head(todo) = todo[1]
    BY <1>1, <2>2
  <2>4. \A i \in DOMAIN todo : i # 1 => i - 1 \in DOMAIN Tail(todo) /\ Tail(todo)[i - 1] = todo[i]
    BY <1>1, <2>2
  <2>5. ASSUME NEW m \in 0..Len(current.functions)
        PROVE  IsLinked(CodeOf(m).ins)' \/ \E i \in DOMAIN todo' : todo'[i] = m
    <3>1. CASE m = k
      <4>1. CodeOf(m)' = code
        BY <1>5, <3>1 DEF CodeOf
      <4> QED  BY <2>1, <4>1 DEF IsLinked
    <3>2. CASE m # k
      <4>1. CodeOf(m)' = CodeOf(m)
        BY <1>5, <1>6, <3>2 DEF CodeOf
      <4>2. CASE IsLinked(CodeOf(m).ins)
        BY <4>1, <4>2 DEF IsLinked
      <4>3. CASE \E i \in DOMAIN todo : todo[i] = m
        <5>1. PICK i \in DOMAIN todo : todo[i] = m
          BY <4>3
        <5>2. i # 1
          BY <1>2, <2>3, <3>2, <5>1
        <5> QED  BY <2>1, <2>4, <5>1, <5>2
      <4> QED  BY <2>2, <4>2, <4>3
    <3> QED  BY <3>1, <3>2
  <2> QED  BY <1>5, <2>1, <2>3, <2>5 DEF LinkSound
<1>16. CacheSound'
  <2>1. \A m \in 1..cache.functions : current'.functions[m] = current.functions[m]
    <3> TAKE m \in 1..cache.functions
    <3>1. m \in DOMAIN current.functions /\ m # 0 /\ m <= cache.functions
      BY <1>6, <1>7
    <3>2. CASE m = k
      BY <1>5, <1>8, <3>1, <3>2
    <3>3. CASE m # k
      BY <1>5, <3>1, <3>3
    <3> QED  BY <3>2, <3>3
  <2>2. phase' \notin {"compiling", "linking"} => ~MainUpToDate'
    <3> SUFFICES ASSUME phase' \notin {"compiling", "linking"}, MainUpToDate'  PROVE FALSE
      OBVIOUS
    <3>1. ~IsLinked(code.ins) /\ ~IsLinked(CodeOf(k).ins)
      BY <1>1, <1>4, <1>9
    <3>2. CASE k = 0
      <4>1. main'.ins = code.ins
        BY <1>5, <3>2
      <4> QED  BY <3>1, <4>1 DEF MainUpToDate, IsLinked
    <3>3. CASE k # 0
      <4>1. ~(k <= cache.functions)
        BY <1>8, <3>1, <3>3
      <4>2. k <= Len(current.functions)
        BY <1>6
      <4>3. cache.functions = Len(current.functions)
        BY <1>1, <1>5 DEF MainUpToDate
      <4> QED  BY <4>1, <4>2, <4>3
    <3> QED  BY <3>2, <3>3
  <2> QED  BY <1>1, <1>5, <1>7, <2>1, <2>2, CacheKept DEF SessionInv
<1>17. RunSound'
  <2>1. frames = <<>> /\ frames' = <<>> /\ phase' \notin {"running", "linked"}
    BY <1>1, <1>4 DEF SessionInv, RunSound
  <2> QED  BY <2>1 DEF RunSound
<1>18. StackSound'
  BY <1>1, <1>5 DEF SessionInv, StackSound, VariablesHoldNoJunk
<1> QED  BY <1>10, <1>11, <1>12, <1>13, <1>14, <1>15, <1>16, <1>17, <1>18 DEF SessionInv

LEMMA LinkEndsKeeps ==
    ASSUME SessionInv, LinkEnds  PROVE SessionInv'
<1>1. /\ phase = "linking" /\ todo = <<>>
      /\ stack' = [p \in Slots |->
            IF p \in DOMAIN current.variables /\ current.variables[p].native
            THEN "native" ELSE stack[p]]
      /\ cache' = [built |-> TRUE, functions |-> Len(current.functions), nodes |-> Len(current.nodes)]
      /\ UNCHANGED <<current, vec_saved_state, astNodeToCompile, main, stament, frames>>
      /\ \/ phase' = "linked" /\ call' = "eval"
         \/ phase' = "idle" /\ call' = "none"
  BY DEF LinkEnds, EndCall
<1>2. CurrentGrows
  BY <1>1, CurrentUnchangedGrows
<1>3. /\ current \in StateShape
      /\ Len(current.functions) \in Nat /\ DOMAIN current.functions = 1..Len(current.functions)
      /\ Len(current.nodes) \in Nat /\ DOMAIN current.nodes = 1..Len(current.nodes)
  BY SymbolsOfCurrent, ShapeOfState
<1>4. DOMAIN current.variables \subseteq Slots
  BY VariablesFit DEF SessionInv, StatesSound
<1>5. \A k \in 0..Len(current.functions) : IsLinked(CodeOf(k).ins)
  BY <1>1 DEF SessionInv, LinkSound
<1>6. StatesSound'
  BY <1>1, <1>2, StatesKept DEF SessionInv
<1>7. ControlTyped'
  <2>1. stack' \in [Slots -> {"undefined", "set", "native", "junk"}]
    BY <1>1 DEF SessionInv, ControlTyped
  <2>2. cache' \in [built : BOOLEAN, functions : Nat, nodes : Nat]
    BY <1>1, <1>3
  <2> QED  BY <1>1, <2>1, <2>2 DEF ControlTyped
<1>8. ParseSound' /\ LinkSound'
  BY <1>1 DEF ParseSound, LinkSound
<1>9. WaitSound'
  <2>1. Waiting' = Waiting
    BY <1>1 DEF Waiting
  <2>2. \A node \in Nat : NewerThanCode(node) => NewerThanCode(node)'
    BY <1>1 DEF NewerThanCode
  <2> QED  BY <1>1, <1>2, <2>1, <2>2, WaitKept DEF SessionInv
<1>10. MainSound'
  BY <1>1 DEF SessionInv, MainSound
<1>11. \A p \in DOMAIN current.variables : current.variables[p].native => stack'[p] = "native"
  BY <1>1, <1>4
<1>12. ASSUME NEW ins, SoundCode(current, ins), IsLinked(ins)
       PROVE  ReadyCode(ins)'
  <2>1. \A i \in DOMAIN ins :
            /\ ins[i].link.to = "function" => ins[i].link.at \in DOMAIN current.functions
            /\ ins[i].link.to = "variable" => ins[i].link.at \in DOMAIN current.variables
    BY <1>12 DEF SoundCode, SoundLink, LeadsTo
  <2> QED  BY <1>1, <1>3, <1>11, <1>12, <2>1 DEF ReadyCode
<1>13. CacheSound'
  <2>1. ASSUME NEW k \in 0..Len(current.functions)
        PROVE  ReadyCode(CodeOf(k).ins)'
    <3>1. PICK ins : ins = CodeOf(k).ins
      OBVIOUS
    <3>2. ReadyCode(ins)'
      BY <1>5, <1>12, <3>1, CodeOfIsSound
    <3>3. CodeOf(k)'.ins = ins
      BY <1>1, <3>1 DEF CodeOf
    <3> QED  BY <3>2, <3>3 DEF ReadyCode
  <2>2. ASSUME NEW k \in 1..Len(current.functions)
        PROVE  current.functions[k].node <= Len(current.nodes)
               /\ ReadyCode(current.functions[k].code.ins)'
    <3>1. k \in 0..Len(current.functions) /\ k # 0 /\ k \in DOMAIN current.functions
      BY <1>3
    <3>2. ReadyCode(current.functions[k].code.ins)'
      BY <2>1, <3>1 DEF CodeOf
    <3>3. current.functions[k].node = 0 \/ current.functions[k].node \in DOMAIN current.nodes
      <4>1. current.functions[k].native \in BOOLEAN
        BY <1>3, <3>1, CodeOfEntry
      <4> QED  BY <3>1, <4>1 DEF SessionInv, StatesSound, StateSound, FunctionsSound
    <3> QED  BY <1>3, <3>2, <3>3
  <2>3. ReadyCode(main.ins)'
    <3>1. 0 \in 0..Len(current.functions)
      BY <1>3
    <3> QED  BY <2>1, <3>1 DEF CodeOf
  <2> QED  BY <1>1, <1>3, <2>2, <2>3 DEF CacheSound
<1>14. RunSound'
  <2>1. frames = <<>> /\ frames' = <<>>
    BY <1>1 DEF SessionInv, RunSound
  <2>2. IsLinked(main.ins)
    <3>1. 0 \in 0..Len(current.functions)
      BY <1>3
    <3> QED  BY <1>5, <3>1 DEF CodeOf
  <2>3. MainUpToDate'
    BY <1>1, <2>2 DEF MainUpToDate
  <2> QED  BY <1>1, <2>1, <2>3 DEF RunSound
<1>15. StackSound'
  <2>1. VariablesHoldNoJunk'
    BY <1>1, <1>4 DEF SessionInv, StackSound, VariablesHoldNoJunk
  <2>2. \A p \in Slots : stack'[p] = "set" => stack[p] = "set"
    BY <1>1
  <2> QED  BY <1>1, <2>1, <2>2 DEF SessionInv, StackSound
<1> QED  BY <1>6, <1>7, <1>8, <1>9, <1>10, <1>13, <1>14, <1>15 DEF SessionInv

-----------------------------------------------------------------------------
(* Machine.                                                                 *)

\* A step of the machine: tables and code stay, and so do bound C++ variables.
MachineStep ==
    /\ UNCHANGED <<current, vec_saved_state, astNodeToCompile, main, cache, stament>>
    /\ phase \in {"idle", "linked", "running"} /\ phase' \in {"idle", "running"}
    /\ phase' = "idle" <=> call' = "none"
    /\ call' \in {"none", "eval", "parse", "compile", "execute", "function"}
    /\ stack' \in [Slots -> {"undefined", "set", "native", "junk"}]
    /\ \A p \in DOMAIN current.variables : stack[p] = "native" => stack'[p] = "native"
    /\ StackSound'

LEMMA MachineStepKeeps ==
    ASSUME SessionInv, MachineStep, RunSound'  PROVE SessionInv'
<1>1. CurrentGrows
  BY CurrentUnchangedGrows DEF MachineStep
<1>2. StatesSound'
  BY <1>1, StatesKept DEF SessionInv, MachineStep
<1>3. ControlTyped'
  BY DEF SessionInv, ControlTyped, MachineStep
<1>4. ParseSound' /\ LinkSound'
  BY DEF ParseSound, LinkSound, MachineStep
<1>5. WaitSound'
  <2>1. Waiting' = Waiting
    BY DEF Waiting, MachineStep
  <2>2. \A node \in Nat : NewerThanCode(node) => NewerThanCode(node)'
    BY DEF NewerThanCode, MachineStep
  <2> QED  BY <1>1, <2>1, <2>2, WaitKept DEF SessionInv, MachineStep
<1>6. MainSound'
  BY <1>1, MainKept DEF SessionInv, MainSound, MachineStep
<1>7. CacheSound'
  <2>1. cache.functions \in Nat /\ SoundCode(current, main.ins)
    BY DEF SessionInv, ControlTyped, MainSound
  <2>2. MainUpToDate' => MainUpToDate
    BY DEF MainUpToDate, MachineStep
  <2> QED  BY <1>1, <2>1, <2>2, CacheKept DEF SessionInv, MachineStep
<1> QED  BY <1>2, <1>3, <1>4, <1>5, <1>6, <1>7 DEF SessionInv, MachineStep

\* Operands go above the variables.
LEMMA PushedIsSound ==
    ASSUME SessionInv, current' = current, NEW st, stack' = Pushed(st),
           st \in [Slots -> {"undefined", "set", "native", "junk"}],
           \A p \in DOMAIN current.variables :
              \/ st[p] = stack[p]
              \/ st[p] = "set" /\ ~current.variables[p].native /\ stack[p] # "native"
    PROVE  /\ stack' \in [Slots -> {"undefined", "set", "native", "junk"}]
           /\ \A p \in DOMAIN current.variables : stack[p] = "native" => stack'[p] = "native"
           /\ StackSound'
<1>1. stack' = [p \in Slots |-> IF p > Len(current.variables) THEN "junk" ELSE st[p]]
  BY DEF Pushed
<1>2. /\ DOMAIN current.variables \subseteq Slots
      /\ DOMAIN current.variables = 1..Len(current.variables)
      /\ Len(current.variables) \in Nat
      /\ Slots \subseteq Nat \ {0}
  BY VariablesFit, SymbolsOfCurrent, ShapeOfState DEF SessionInv, StatesSound, Slots
<1>3. \A p \in DOMAIN current.variables : stack'[p] = st[p]
  BY <1>1, <1>2
<1>4. \A p \in Slots : p \notin DOMAIN current.variables => stack'[p] = "junk"
  BY <1>1, <1>2
<1>5. VariablesHoldNoJunk'
  BY <1>3 DEF SessionInv, StackSound, VariablesHoldNoJunk
<1>6. \A p \in Slots : stack'[p] = "set" =>
          p \in DOMAIN current.variables /\ ~current.variables[p].native
  BY <1>2, <1>3, <1>4 DEF SessionInv, StackSound
<1>7. stack' \in [Slots -> {"undefined", "set", "native", "junk"}]
  BY <1>1
<1> QED  BY <1>3, <1>5, <1>6, <1>7 DEF StackSound

LEMMA ExecuteKeeps ==
    ASSUME SessionInv, Execute  PROVE SessionInv'
<1>1. /\ phase \in {"idle", "linked"} /\ phase' = "running" /\ frames' = <<[fun |-> 0, pc |-> 1]>>
      /\ UNCHANGED <<current, vec_saved_state, astNodeToCompile, main, stack, cache, todo, stament>>
      /\ phase = "linked" => call' = call
      /\ phase = "idle" => /\ call' = "execute" /\ cache.functions = Len(current.functions)
                           /\ IsLinked(main.ins)
  BY DEF Execute, Starts, Idle, stateVars
<1>2. call' \in {"eval", "parse", "compile", "execute", "function"}
  BY <1>1 DEF SessionInv, ControlTyped
<1>3. MainUpToDate /\ cache.functions = Len(current.functions) /\ cache.functions \in Nat
  BY <1>1 DEF SessionInv, RunSound, MainUpToDate, ControlTyped
<1>4. MachineStep
  BY <1>1, <1>2 DEF SessionInv, ControlTyped, StackSound, VariablesHoldNoJunk, MachineStep
<1>5. RunSound'
  <2>1. PICK fr : fr = [fun |-> 0, pc |-> 1]
    OBVIOUS
  <2>2. fr \in FrameType /\ fr.fun = 0
    BY <2>1 DEF FrameType
  <2>3. /\ frames' \in Seq(FrameType) /\ frames' # <<>>
        /\ \A i \in DOMAIN frames' : frames'[i] = fr
    BY <1>1, <2>1, <2>2
  <2>4. MainUpToDate'
    BY <1>1, <1>3 DEF MainUpToDate
  <2>5. \A i \in DOMAIN frames' :
            frames'[i].fun <= cache'.functions /\ (frames'[i].fun = 0 => MainUpToDate')
    BY <1>1, <1>3, <2>2, <2>3, <2>4
  <2> QED  BY <1>1, <1>3, <2>3, <2>5 DEF RunSound
<1> QED  BY <1>4, <1>5, MachineStepKeeps

LEMMA CallFromHostKeeps ==
    ASSUME SessionInv, NEW k \in DOMAIN current.functions, CallFromHost(k)  PROVE SessionInv'
<1>1. /\ phase = "idle" /\ phase' = "running" /\ frames' = <<[fun |-> k, pc |-> 1]>>
      /\ UNCHANGED <<current, vec_saved_state, astNodeToCompile, main, stack, cache, todo, stament>>
      /\ call' = "function" /\ k <= cache.functions
  BY DEF CallFromHost, Starts, Idle, stateVars
<1>2. k \in Nat \ {0}
  BY SymbolsOfCurrent, ShapeOfState
<1>3. MachineStep
  BY <1>1 DEF SessionInv, ControlTyped, StackSound, VariablesHoldNoJunk, MachineStep
<1>4. RunSound'
  <2>1. PICK fr : fr = [fun |-> k, pc |-> 1]
    OBVIOUS
  <2>2. fr \in FrameType /\ fr.fun = k
    BY <1>2, <2>1 DEF FrameType
  <2>3. /\ frames' \in Seq(FrameType) /\ frames' # <<>>
        /\ \A i \in DOMAIN frames' : frames'[i] = fr
    BY <1>1, <2>1, <2>2
  <2>4. \A i \in DOMAIN frames' : frames'[i].fun <= cache'.functions /\ frames'[i].fun # 0
    BY <1>1, <1>2, <2>2, <2>3
  <2> QED  BY <1>1, <2>3, <2>4 DEF RunSound
<1> QED  BY <1>3, <1>4, MachineStepKeeps

\* The instruction that is fetched is ready.
LEMMA FetchedIsReady ==
    ASSUME SessionInv, Running
    PROVE  /\ frames # <<>> /\ frames \in Seq(FrameType)
           /\ Len(frames) \in DOMAIN frames
           /\ Top.fun \in 0..Len(current.functions) /\ Top.fun <= cache.functions
           /\ Top.pc \in DOMAIN CodeOf(Top.fun).ins
           /\ SoundLink(current, Fetched) /\ Fetched.link # Unlinked
           /\ Fetched \in InsType
           /\ Fetched.link.to = "function" => Fetched.link.at <= cache.functions
           /\ Fetched.link.to = "variable" /\ current.variables[Fetched.link.at].native =>
                 stack[Fetched.link.at] = "native"
<1>1. /\ frames # <<>> /\ frames \in Seq(FrameType) /\ phase = "running"
      /\ \A i \in DOMAIN frames :
            frames[i].fun <= cache.functions /\ (frames[i].fun = 0 => MainUpToDate)
  BY DEF Running, SessionInv, RunSound
<1>2. Len(frames) \in DOMAIN frames /\ Top = frames[Len(frames)]
      /\ Top \in FrameType
  BY <1>1 DEF Top
<1>3. PICK k : k = Top.fun
  OBVIOUS
<1>4. k \in Nat /\ k <= cache.functions /\ (k = 0 => MainUpToDate) /\ Top.pc \in Nat \ {0}
  BY <1>1, <1>2, <1>3 DEF FrameType
<1>5. cache.functions \in Nat /\ cache.functions <= Len(current.functions)
      /\ Len(current.functions) \in Nat
  BY SymbolsOfCurrent, ShapeOfState DEF SessionInv, ControlTyped, CacheSound
<1>6. k \in 0..Len(current.functions)
  BY <1>4, <1>5
<1>7. ReadyCode(CodeOf(k).ins)
  <2>1. CASE k = 0
    BY <1>1, <1>4, <2>1 DEF SessionInv, CacheSound, CodeOf
  <2>2. CASE k # 0
    <3>1. k \in 1..cache.functions
      BY <1>4, <1>5, <2>2
    <3> QED  BY <2>2, <3>1 DEF SessionInv, CacheSound, CodeOf
  <2> QED  BY <2>1, <2>2
<1>8. PICK ins : ins = CodeOf(k).ins
  OBVIOUS
<1>9. ins \in Seq(InsType) /\ SoundCode(current, ins) /\ ReadyCode(ins)
  BY <1>6, <1>7, <1>8, CodeOfIsSound
<1>10. PICK pc : pc = Top.pc
  OBVIOUS
<1>11. pc \in DOMAIN ins
  <2>1. ~(pc > Len(ins))
    BY <1>3, <1>8, <1>10 DEF Running, AtEnd
  <2>2. Len(ins) \in Nat /\ DOMAIN ins = 1..Len(ins)
    BY <1>9
  <2> QED  BY <1>4, <1>10, <2>1, <2>2
<1>12. Fetched = ins[pc]
  BY <1>3, <1>8, <1>10 DEF Fetched
<1>13. /\ SoundLink(current, Fetched) /\ Fetched.link # Unlinked
       /\ Fetched.link.to = "function" => Fetched.link.at <= cache.functions
       /\ Fetched.link.to = "variable" /\ current.variables[Fetched.link.at].native =>
             stack[Fetched.link.at] = "native"
  BY <1>9, <1>11, <1>12 DEF SoundCode, ReadyCode, IsLinked
<1>14. Fetched \in InsType
  BY <1>9, <1>11, <1>12
<1> QED  BY <1>1, <1>2, <1>3, <1>4, <1>6, <1>8, <1>10, <1>11, <1>13, <1>14

\* The frame that runs goes to its next instruction.
LEMMA AdvancedIsSound ==
    ASSUME SessionInv, Running
    PROVE  /\ Advanced \in Seq(FrameType) /\ Advanced # <<>>
           /\ DOMAIN Advanced = DOMAIN frames
           /\ \A i \in DOMAIN Advanced : Advanced[i].fun = frames[i].fun
<1>1. PICK n : n = Len(frames)
  OBVIOUS
<1>2. /\ frames # <<>> /\ frames \in Seq(FrameType)
      /\ n \in DOMAIN frames /\ n \in Nat /\ DOMAIN frames = 1..n
  BY <1>1, FetchedIsReady
<1>3. frames[n] \in FrameType
  BY <1>2
<1>4. PICK x : x = [frames[n] EXCEPT !.pc = @ + 1]
  OBVIOUS
<1>5. x \in FrameType /\ x.fun = frames[n].fun
  BY <1>3, <1>4 DEF FrameType
<1>6. Advanced = [frames EXCEPT ![n] = x]
  BY <1>1, <1>2, <1>4 DEF Advanced
<1>7. Advanced \in [1..n -> FrameType]
  BY <1>2, <1>5, <1>6
<1>8. Advanced \in Seq(FrameType) /\ Len(Advanced) = n
  BY <1>2, <1>7, FunctionIsSequence
<1>9. Advanced # <<>>
  BY <1>2, <1>8
<1>10. \A i \in DOMAIN frames : Advanced[i] = IF i = n THEN x ELSE frames[i]
  BY <1>2, <1>6
<1> QED  BY <1>2, <1>5, <1>7, <1>8, <1>9, <1>10

\* The frames of the functions that run on stay sound.
LEMMA FramesStaySound ==
    ASSUME SessionInv, Running, UNCHANGED <<current, main, cache, phase, call>>,
           frames' = Advanced
    PROVE  RunSound'
<1>1. phase = "running" /\ phase' = "running"
  BY DEF Running
<1>2. MainUpToDate' = MainUpToDate
  BY DEF MainUpToDate
<1> QED  BY <1>1, <1>2, AdvancedIsSound DEF SessionInv, RunSound

LEMMA RunNativeKeeps ==
    ASSUME SessionInv, RunNative  PROVE SessionInv'
<1>1. /\ Running /\ frames' = Advanced /\ stack' = Pushed(stack)
      /\ UNCHANGED <<current, vec_saved_state, astNodeToCompile, main, cache, stament, phase, call, todo>>
  BY DEF RunNative, machineFrame
<1>2. RunSound'
  BY <1>1, FramesStaySound
<1>3. PICK st : st = stack
  OBVIOUS
<1>4. /\ st \in [Slots -> {"undefined", "set", "native", "junk"}] /\ stack' = Pushed(st)
      /\ \A p \in DOMAIN current.variables : st[p] = stack[p]
  BY <1>1, <1>3 DEF SessionInv, ControlTyped
<1>5. MachineStep
  BY <1>1, <1>4, PushedIsSound DEF SessionInv, ControlTyped, MachineStep, Running
<1> QED  BY <1>2, <1>5, MachineStepKeeps

LEMMA RunVariableKeeps ==
    ASSUME SessionInv, RunVariable  PROVE SessionInv'
<1>1. PICK at : at = Fetched.link.at
  OBVIOUS
<1>2. PICK st : st = IF Fetched.op = "set" /\ stack[at] # "native"
                     THEN [stack EXCEPT ![at] = "set"] ELSE stack
  OBVIOUS
<1>3. /\ Running /\ Fetched.link.to = "variable" /\ frames' = Advanced /\ stack' = Pushed(st)
      /\ UNCHANGED <<current, vec_saved_state, astNodeToCompile, main, cache, stament, phase, call, todo>>
  BY <1>1, <1>2 DEF RunVariable, machineFrame
<1>4. RunSound'
  BY <1>3, FramesStaySound
<1>5. /\ at \in DOMAIN current.variables
      /\ current.variables[at].native => stack[at] = "native"
  BY <1>1, <1>3, FetchedIsReady DEF SoundLink, LeadsTo
<1>6. DOMAIN current.variables \subseteq Slots
  BY VariablesFit DEF SessionInv, StatesSound
<1>7. stack \in [Slots -> {"undefined", "set", "native", "junk"}]
  BY DEF SessionInv, ControlTyped
<1>8. /\ st \in [Slots -> {"undefined", "set", "native", "junk"}]
      /\ \A p \in DOMAIN current.variables :
            \/ st[p] = stack[p]
            \/ st[p] = "set" /\ ~current.variables[p].native /\ stack[p] # "native"
  <2>1. CASE Fetched.op = "set" /\ stack[at] # "native"
    <3>1. st = [stack EXCEPT ![at] = "set"]
      BY <1>2, <2>1
    <3> QED  BY <1>5, <1>6, <1>7, <2>1, <3>1
  <2>2. CASE ~(Fetched.op = "set" /\ stack[at] # "native")
    <3>1. st = stack
      BY <1>2, <2>2
    <3> QED  BY <1>7, <3>1
  <2> QED  BY <2>1, <2>2
<1>9. MachineStep
  BY <1>3, <1>8, PushedIsSound DEF SessionInv, ControlTyped, MachineStep, Running
<1> QED  BY <1>4, <1>9, MachineStepKeeps

LEMMA RunFunctionKeeps ==
    ASSUME SessionInv, RunFunction  PROVE SessionInv'
<1>1. PICK at : at = Fetched.link.at
  OBVIOUS
<1>2. /\ Running /\ Fetched.link.to = "function"
      /\ frames' = Append(Advanced, [fun |-> at, pc |-> 1]) /\ stack' = Pushed(stack)
      /\ UNCHANGED <<current, vec_saved_state, astNodeToCompile, main, cache, stament, phase, call, todo>>
  BY <1>1 DEF RunFunction, machineFrame
<1>3. at \in DOMAIN current.functions /\ at <= cache.functions /\ at \in Nat /\ at # 0
  <2>1. at \in DOMAIN current.functions /\ at <= cache.functions
    BY <1>1, <1>2, FetchedIsReady DEF SoundLink, LeadsTo
  <2> QED  BY <2>1, SymbolsOfCurrent, ShapeOfState
<1>4. RunSound'
  <2>1. PICK fr : fr = [fun |-> at, pc |-> 1]
    OBVIOUS
  <2>2. fr \in FrameType /\ fr.fun = at
    BY <1>3, <2>1 DEF FrameType
  <2>3. /\ Advanced \in Seq(FrameType)
        /\ \A i \in DOMAIN Advanced : i \in DOMAIN frames /\ Advanced[i].fun = frames[i].fun
    BY <1>2, AdvancedIsSound
  <2>4. PICK ad : ad = Advanced
    OBVIOUS
  <2>5. frames' = Append(ad, fr)
    BY <1>2, <2>1, <2>4
  <2>6. /\ frames' \in Seq(FrameType) /\ frames' # <<>>
        /\ \A i \in DOMAIN frames' : frames'[i] = fr \/ (i \in DOMAIN ad /\ frames'[i] = ad[i])
    BY <2>2, <2>3, <2>4, <2>5
  <2>7. \A i \in DOMAIN frames :
            frames[i].fun <= cache.functions /\ (frames[i].fun = 0 => MainUpToDate)
    BY DEF SessionInv, RunSound
  <2>8. \A i \in DOMAIN frames' :
            frames'[i].fun <= cache.functions /\ (frames'[i].fun = 0 => MainUpToDate)
    BY <1>3, <2>2, <2>3, <2>4, <2>6, <2>7
  <2>9. phase = "running" /\ phase' = "running" /\ MainUpToDate' = MainUpToDate
    BY <1>2 DEF Running, MainUpToDate
  <2> QED  BY <1>2, <2>6, <2>8, <2>9 DEF SessionInv, RunSound
<1>5. PICK st : st = stack
  OBVIOUS
<1>6. /\ st \in [Slots -> {"undefined", "set", "native", "junk"}] /\ stack' = Pushed(st)
      /\ \A p \in DOMAIN current.variables : st[p] = stack[p]
  BY <1>2, <1>5 DEF SessionInv, ControlTyped
<1>7. MachineStep
  BY <1>2, <1>6, PushedIsSound DEF SessionInv, ControlTyped, MachineStep, Running
<1> QED  BY <1>4, <1>7, MachineStepKeeps

LEMMA RunFailsKeeps ==
    ASSUME SessionInv, RunFails  PROVE SessionInv'
<1>1. /\ Running /\ frames' = <<>> /\ stack' = Pushed(stack) /\ phase' = "idle" /\ call' = "none"
      /\ UNCHANGED <<current, vec_saved_state, astNodeToCompile, main, cache, stament>>
  BY DEF RunFails, machineFrame, EndCall
<1>2. RunSound'
  BY <1>1 DEF RunSound
<1>3. PICK st : st = stack
  OBVIOUS
<1>4. /\ st \in [Slots -> {"undefined", "set", "native", "junk"}] /\ stack' = Pushed(st)
      /\ \A p \in DOMAIN current.variables : st[p] = stack[p]
  BY <1>1, <1>3 DEF SessionInv, ControlTyped
<1>5. MachineStep
  BY <1>1, <1>4, PushedIsSound DEF MachineStep, Running
<1> QED  BY <1>2, <1>5, MachineStepKeeps

LEMMA FunctionEndsKeeps ==
    ASSUME SessionInv, FunctionEnds  PROVE SessionInv'
<1>1. /\ phase = "running" /\ frames' = SubSeq(frames, 1, Len(frames) - 1)
      /\ IF Len(frames) = 1 THEN phase' = "idle" /\ call' = "none"
                            ELSE phase' = phase /\ call' = call
      /\ UNCHANGED <<current, vec_saved_state, astNodeToCompile, main, cache, stament, stack>>
  BY DEF FunctionEnds, machineFrame, EndCall
<1>2. /\ frames # <<>> /\ frames \in Seq(FrameType)
      /\ call # "function" => cache.functions = Len(current.functions)
      /\ \A i \in DOMAIN frames :
            frames[i].fun <= cache.functions /\ (frames[i].fun = 0 => MainUpToDate)
  BY <1>1 DEF SessionInv, RunSound
<1>3. /\ frames' \in Seq(FrameType)
      /\ frames' = <<>> <=> Len(frames) = 1
      /\ \A i \in DOMAIN frames' : i \in DOMAIN frames /\ frames'[i] = frames[i]
  <2>1. Len(frames) \in Nat /\ Len(frames) >= 1 /\ DOMAIN frames = 1..Len(frames)
    BY <1>2
  <2>2. /\ frames' \in Seq(FrameType) /\ Len(frames') = Len(frames) - 1
        /\ \A i \in 1..(Len(frames) - 1) : frames'[i] = frames[i]
    BY <1>1, <1>2, <2>1
  <2>3. DOMAIN frames' = 1..(Len(frames) - 1)
    BY <2>2
  <2>4. frames' = <<>> <=> Len(frames') = 0
    BY <2>2
  <2> QED  BY <2>1, <2>2, <2>3, <2>4
<1>4. RunSound'
  <2>1. MainUpToDate' = MainUpToDate
    BY <1>1 DEF MainUpToDate
  <2>2. phase' = "running" <=> frames' # <<>>
    BY <1>1, <1>3
  <2> QED  BY <1>1, <1>2, <1>3, <2>1, <2>2 DEF RunSound
<1>5. MachineStep
  BY <1>1 DEF SessionInv, ControlTyped, StackSound, VariablesHoldNoJunk, MachineStep
<1> QED  BY <1>4, <1>5, MachineStepKeeps

-----------------------------------------------------------------------------
(* Registration and states.                                                 *)

\* The host adds to the tables while nothing runs.
RegisterStep ==
    /\ phase = "idle" /\ CurrentGrows
    /\ UNCHANGED <<vec_saved_state, astNodeToCompile, main, stack, cache, phase, call, todo, stament, frames>>
    /\ \A k \in DOMAIN current.functions : current'.functions[k] = current.functions[k]
    /\ \A k \in DOMAIN current'.functions : k \notin DOMAIN current.functions =>
          /\ current'.functions[k].native /\ current'.functions[k].node = 0
          /\ current'.functions[k].code = NoCode
    /\ \A p \in DOMAIN current'.variables : p \notin DOMAIN current.variables =>
          current'.variables[p].native

LEMMA RegisterStepKeeps ==
    ASSUME SessionInv, RegisterStep  PROVE SessionInv'
<1>1. /\ current \in StateShape /\ current' \in StateShape
      /\ Len(current.functions) \in Nat /\ Len(current'.functions) \in Nat
      /\ DOMAIN current.functions = 1..Len(current.functions)
      /\ DOMAIN current'.functions = 1..Len(current'.functions)
      /\ DOMAIN current.variables \subseteq DOMAIN current'.variables
      /\ \A p \in DOMAIN current.variables : current'.variables[p] = current.variables[p]
      /\ Len(current.functions) <= Len(current'.functions)
  BY SoundHasShape, ShapeOfState DEF RegisterStep, CurrentGrows, Grows
<1>2. StatesSound'
  <2>1. \A k \in DOMAIN current.functions :
            current'.functions[k].code.exists = current.functions[k].code.exists
    BY DEF RegisterStep
  <2>2. \A k \in DOMAIN current'.functions : k \notin DOMAIN current.functions =>
                current'.functions[k].native \/ current'.functions[k].code.exists \/ NeverCompiled(k)'
    BY DEF RegisterStep
  <2> QED  BY <2>1, <2>2, StatesKept DEF SessionInv, RegisterStep
<1>3. ControlTyped' /\ ParseSound' /\ LinkSound'
  BY DEF SessionInv, ControlTyped, ParseSound, LinkSound, RegisterStep
<1>4. WaitSound'
  <2>1. Waiting' = Waiting
    BY DEF Waiting, RegisterStep
  <2>2. ASSUME NEW node \in Nat, 0 < node, NewerThanCode(node)  PROVE NewerThanCode(node)'
    <3>1. \A k \in DOMAIN current'.functions :
              /\ current'.functions[k].node < node
              /\ \A j \in DOMAIN current'.functions[k].code.ins :
                    current'.functions[k].code.ins[j].node < node
      <4> TAKE k \in DOMAIN current'.functions
      <4>1. CASE k \in DOMAIN current.functions
        BY <2>2, <4>1 DEF RegisterStep, NewerThanCode
      <4>2. CASE k \notin DOMAIN current.functions
        <5>1. current'.functions[k].node = 0 /\ current'.functions[k].code.ins = <<>>
          BY <4>2, NoCodeIsSound DEF RegisterStep
        <5> QED  BY <2>2, <5>1
      <4> QED  BY <4>1, <4>2
    <3> QED  BY <2>2, <3>1 DEF RegisterStep, NewerThanCode
  <2> QED  BY <2>1, <2>2, WaitKept DEF SessionInv, RegisterStep
<1>5. MainSound'
  BY MainKept DEF SessionInv, MainSound, RegisterStep
<1>6. CacheSound'
  <2>1. cache.functions \in Nat /\ SoundCode(current, main.ins)
        /\ cache.functions <= Len(current.functions)
    BY DEF SessionInv, ControlTyped, MainSound, CacheSound
  <2>2. MainUpToDate' => MainUpToDate
    <3> SUFFICES ASSUME MainUpToDate'  PROVE MainUpToDate
      OBVIOUS
    <3>1. IsLinked(main.ins) /\ cache.functions = Len(current'.functions)
      BY DEF MainUpToDate, RegisterStep, IsLinked
    <3>2. cache.functions = Len(current.functions)
      BY <1>1, <2>1, <3>1
    <3> QED  BY <3>1, <3>2 DEF MainUpToDate
  <2>3. \A k \in 1..cache.functions : current'.functions[k] = current.functions[k]
    <3>1. 1..cache.functions \subseteq DOMAIN current.functions
      BY <1>1, <2>1
    <3> QED  BY <3>1 DEF RegisterStep
  <2> QED  BY <2>1, <2>2, <2>3, CacheKept DEF SessionInv, RegisterStep
<1>7. RunSound'
  <2>1. frames = <<>> /\ frames' = <<>> /\ phase' = "idle"
    BY DEF SessionInv, RunSound, RegisterStep
  <2> QED  BY <2>1 DEF RunSound
<1>8. StackSound'
  <2>1. VariablesHoldNoJunk'
    <3>1. \A p \in DOMAIN current'.variables :
              ~current'.variables[p].native => stack[p] \in {"undefined", "set"}
      <4> TAKE p \in DOMAIN current'.variables
      <4>1. CASE p \in DOMAIN current.variables
        BY <1>1, <4>1 DEF SessionInv, StackSound, VariablesHoldNoJunk
      <4>2. CASE p \notin DOMAIN current.variables
        BY <4>2 DEF RegisterStep
      <4> QED  BY <4>1, <4>2
    <3> QED  BY <3>1 DEF VariablesHoldNoJunk, RegisterStep
  <2>2. \A p \in Slots : stack[p] = "set" =>
            p \in DOMAIN current'.variables /\ ~current'.variables[p].native
    BY <1>1 DEF SessionInv, StackSound
  <2> QED  BY <2>1, <2>2 DEF StackSound, RegisterStep
<1> QED  BY <1>2, <1>3, <1>4, <1>5, <1>6, <1>7, <1>8 DEF SessionInv

LEMMA register_C_FunctionKeeps ==
    ASSUME SessionInv, NEW name \in NativeFuns, register_C_Function(name)  PROVE SessionInv'
<1>1. PICK e : e = [name |-> name, native |-> TRUE, node |-> 0, code |-> NoCode]
  OBVIOUS
<1>2. /\ phase = "idle" /\ LastWith(current.functions, name) = 0
      /\ current' = FunctionAdded(current, e)
      /\ UNCHANGED <<vec_saved_state, astNodeToCompile, main, stack, cache, phase, call, todo, stament, frames>>
  BY <1>1 DEF register_C_Function, Idle, idleFrame, FunctionAdded
<1>3. /\ current.functions \in Seq(FunctionEntry) /\ Len(current.functions) \in Nat
      /\ DOMAIN current.functions = 1..Len(current.functions)
  BY SymbolsOfCurrent, ShapeOfState
<1>4. \A k \in DOMAIN current.functions : current.functions[k].name # name
  BY <1>2, <1>3, LastWithFinds
<1>5. /\ e.name = name /\ e.native = TRUE /\ e.node = 0 /\ e.code = NoCode /\ e \in FunctionEntry
  <2>1. name \in Names /\ 0 \in 0..MaxNodes
    BY NameAssumption, BoundAssumption
  <2> QED  BY <1>1, <2>1, NoCodeIsSound DEF FunctionEntry
<1>6. PICK s : s = current
  OBVIOUS
<1>7. PICK t : t = FunctionAdded(s, e)
  OBVIOUS
<1>8. /\ StateSound(s) /\ (e.native => e.node = 0 /\ e.code = NoCode)
      /\ (~e.native => <<"function", e.name>> \in SymbolsOf(s) /\ e.node \in DOMAIN s.nodes)
      /\ \A k \in DOMAIN s.functions : s.functions[k].name # e.name
      /\ SoundCode(s, e.code.ins)
  BY <1>4, <1>5, <1>6, NoCodeIsSound DEF SessionInv, StatesSound
<1>9. /\ StateSound(t) /\ Grows(s, t)
      /\ t.variables = s.variables /\ t.nodes = s.nodes /\ t.symbols = s.symbols
      /\ Len(t.functions) = Len(s.functions) + 1
      /\ \A k \in DOMAIN s.functions : t.functions[k] = s.functions[k]
      /\ t.functions[Len(t.functions)] = e
  <2>1. e \in FunctionEntry
    BY <1>5
  <2> QED  BY <1>7, <1>8, <2>1, AddedFunctionIsSound
<1>10. CurrentGrows /\ current' = t
  BY <1>2, <1>6, <1>7, <1>8, <1>9 DEF CurrentGrows
<1>11. \A k \in DOMAIN t.functions : k \notin DOMAIN current.functions => t.functions[k] = e
  <2> TAKE k \in DOMAIN t.functions
  <2>1. DOMAIN t.functions = 1..Len(t.functions) /\ Len(t.functions) = Len(current.functions) + 1
    BY <1>6, <1>9, SoundHasShape, ShapeOfState
  <2>2. k \notin DOMAIN current.functions => k = Len(t.functions)
    BY <1>3, <2>1
  <2> QED  BY <1>9, <2>2
<1>12. RegisterStep
  BY <1>2, <1>5, <1>6, <1>9, <1>10, <1>11 DEF RegisterStep
<1> QED  BY <1>12, RegisterStepKeeps

LEMMA register_C_VariableKeeps ==
    ASSUME SessionInv, NEW name \in NativeVars, register_C_Variable(name)  PROVE SessionInv'
<1>1. PICK e : e = [name |-> name, native |-> TRUE]
  OBVIOUS
<1>2. PICK a : a = current.symbols
  OBVIOUS
<1>3. PICK new : new = {<<"variable", name>>}
  OBVIOUS
<1>4. PICK b : b = ScopeAdded(a, 1, new)
  OBVIOUS
<1>5. PICK s : s = [current EXCEPT !.symbols = b]
  OBVIOUS
<1>6. PICK t : t = VariableAdded(s, e)
  OBVIOUS
<1>7. name \in Names /\ name \in NativeVars
  BY NameAssumption
<1>8. /\ phase = "idle" /\ <<"variable", name>> \notin current.symbols[1]
      /\ current' = t
      /\ UNCHANGED <<vec_saved_state, astNodeToCompile, main, stack, cache, phase, call, todo, stament, frames>>
  <2>1. current' = [current EXCEPT !.symbols[1] = @ \cup {<<"variable", name>>},
                                   !.variables = Append(@, [name |-> name, native |-> TRUE])]
    BY DEF register_C_Variable
  <2>2. current' = t
    BY <1>1, <1>2, <1>3, <1>4, <1>5, <1>6, <2>1, SymbolsOfCurrent DEF ScopeAdded, VariableAdded, StateShape
  <2> QED  BY <2>2 DEF register_C_Variable, Idle, idleFrame
<1>9. new \in SUBSET SymbolEntry
  BY <1>3, <1>7 DEF SymbolEntry
<1>10. a \in Seq(SUBSET SymbolEntry) /\ 1 \in DOMAIN a /\ SymbolsOf(current) = AllOf(a)
       /\ current \in StateShape
  BY <1>2, SymbolsOfCurrent
<1>11. /\ b \in Seq(SUBSET SymbolEntry) /\ b # <<>>
       /\ a[1] \subseteq b[1]
       /\ AllOf(a) \subseteq AllOf(b)
       /\ new \subseteq b[1]
  BY <1>4, <1>9, <1>10, AddedSymbols
<1>12. /\ s \in StateShape /\ s.symbols = b /\ s.nodes = current.nodes
       /\ s.functions = current.functions /\ s.variables = current.variables
  BY <1>5, <1>10, <1>11 DEF StateShape
<1>13. StateSound(current)
  BY DEF SessionInv, StatesSound
<1>14. Grows(current, s)
  BY <1>2, <1>10, <1>11, <1>12, ShapeOfState DEF Grows, SymbolsOf
<1>15. StateSound(s)
  BY <1>11, <1>12, <1>13, <1>14, ParsedStateIsSound DEF StateSound
<1>16. e \in VariableEntry /\ e.name = name /\ e.native = TRUE
  BY <1>1, <1>7 DEF VariableEntry
<1>17. \A q \in DOMAIN s.variables : ~(s.variables[q].name = e.name /\ s.variables[q].native = e.native)
  <2> SUFFICES ASSUME NEW q \in DOMAIN current.variables,
                      current.variables[q].name = name, current.variables[q].native
               PROVE  FALSE
    BY <1>12, <1>16
  <2> QED  BY <1>8, <1>13 DEF StateSound, VariablesSound
<1>18. /\ StateSound(t) /\ Grows(s, t)
       /\ t.functions = s.functions /\ t.nodes = s.nodes /\ t.symbols = s.symbols
       /\ Len(t.variables) = Len(s.variables) + 1
       /\ t.variables[Len(t.variables)] = e
  <2>1. e.native => e.name \in NativeVars /\ <<"variable", e.name>> \in s.symbols[1]
    BY <1>3, <1>7, <1>11, <1>12, <1>16
  <2>2. ~e.native => /\ <<"variable", e.name>> \in SymbolsOf(s)
                     /\ \E i \in DOMAIN s.nodes : /\ s.nodes[i].item.kind = "variable"
                                                  /\ s.nodes[i].item.name = e.name
    BY <1>16
  <2>3. e \in VariableEntry
    BY <1>16
  <2> QED  BY <1>6, <1>15, <2>3, <1>17, <2>1, <2>2, AddedVariableIsSound
<1>19. Grows(current, t)
  BY <1>12, <1>14, <1>18 DEF Grows
<1>20. \A p \in DOMAIN t.variables : p \notin DOMAIN current.variables => t.variables[p].native
  <2> TAKE p \in DOMAIN t.variables
  <2>1. DOMAIN t.variables = 1..Len(t.variables) /\ Len(t.variables) = Len(current.variables) + 1
        /\ DOMAIN current.variables = 1..Len(current.variables) /\ Len(current.variables) \in Nat
    BY <1>10, <1>12, <1>18, SoundHasShape, ShapeOfState
  <2>2. p \notin DOMAIN current.variables => p = Len(t.variables)
    BY <2>1
  <2> QED  BY <1>16, <1>18, <2>2
<1>21. RegisterStep
  BY <1>8, <1>12, <1>13, <1>18, <1>19, <1>20 DEF RegisterStep, CurrentGrows
<1> QED  BY <1>21, RegisterStepKeeps

LEMMA saveStateKeeps ==
    ASSUME SessionInv, saveState  PROVE SessionInv'
<1>1. PICK t : t = Copy(current)
  OBVIOUS
<1>2. /\ phase = "idle" /\ vec_saved_state' = Append(vec_saved_state, t)
      /\ SavesFunctions \/ \A k \in DOMAIN current.functions : current.functions[k].native
      /\ UNCHANGED <<current, astNodeToCompile, main, stack, cache, phase, call, todo, stament, frames>>
  BY <1>1 DEF saveState, Idle, idleFrame, SavesFunctions
<1>3. PICK s : s = current
  OBVIOUS
<1>4. /\ StateSound(t)
      /\ DOMAIN t.functions = DOMAIN s.functions
      /\ \A k \in DOMAIN s.functions : t.functions[k].native = s.functions[k].native
  <2>1. StateSound(s) /\ t = Copy(s)
    BY <1>1, <1>3 DEF SessionInv, StatesSound
  <2> QED  BY <2>1, CopyIsSound
<1>5. /\ vec_saved_state \in Seq(StateShape) /\ t \in StateShape
      /\ \A i \in DOMAIN vec_saved_state : StateSound(vec_saved_state[i])
  BY <1>4, SoundHasShape DEF SessionInv, StatesSound
<1>6. PICK v : v = vec_saved_state'
  OBVIOUS
<1>7. /\ v \in Seq(StateShape)
      /\ \A i \in DOMAIN v : v[i] = t \/ (i \in DOMAIN vec_saved_state /\ v[i] = vec_saved_state[i])
  BY <1>2, <1>5, <1>6
<1>8. CurrentGrows
  BY <1>2, CurrentUnchangedGrows
<1>9. \A i \in DOMAIN v : StateSound(v[i])
  BY <1>4, <1>5, <1>7
<1>10. \A i \in DOMAIN v : \A k \in DOMAIN v[i].functions : v[i].functions[k].native \/ SavesFunctions
  BY <1>2, <1>3, <1>4, <1>7 DEF SessionInv, StatesSound, CodeIsKept
<1>11. CodeIsKept'
  BY <1>2, <1>6, <1>10 DEF SessionInv, StatesSound, CodeIsKept, SavesFunctions, NeverCompiled
<1>12. StatesSound'
  BY <1>2, <1>6, <1>7, <1>9, <1>11 DEF SessionInv, StatesSound
<1>13. ControlTyped' /\ ParseSound' /\ LinkSound'
  BY <1>2 DEF SessionInv, ControlTyped, ParseSound, LinkSound
<1>14. WaitSound'
  <2>1. Waiting' = Waiting
    BY <1>2 DEF Waiting
  <2>2. \A node \in Nat : NewerThanCode(node) => NewerThanCode(node)'
    BY <1>2 DEF NewerThanCode
  <2> QED  BY <1>2, <1>8, <2>1, <2>2, WaitKept DEF SessionInv
<1>15. MainSound'
  BY <1>2 DEF SessionInv, MainSound
<1>16. CacheSound'
  <2>1. cache.functions \in Nat /\ SoundCode(current, main.ins)
    BY DEF SessionInv, ControlTyped, MainSound
  <2>2. MainUpToDate' => MainUpToDate
    BY <1>2 DEF MainUpToDate
  <2> QED  BY <1>2, <1>8, <2>1, <2>2, CacheKept DEF SessionInv
<1>17. RunSound'
  <2>1. frames = <<>> /\ frames' = <<>> /\ phase' = "idle"
    BY <1>2 DEF SessionInv, RunSound
  <2> QED  BY <2>1 DEF RunSound
<1>18. StackSound'
  BY <1>2 DEF SessionInv, StackSound, VariablesHoldNoJunk
<1> QED  BY <1>12, <1>13, <1>14, <1>15, <1>16, <1>17, <1>18 DEF SessionInv

LEMMA setStateKeeps ==
    ASSUME SessionInv, NEW i \in DOMAIN vec_saved_state, setState(i)  PROVE SessionInv'
<1>1. PICK s : s = vec_saved_state[i]
  OBVIOUS
<1>2. PICK t : t = Copy(s)
  OBVIOUS
<1>3. /\ phase = "idle" /\ astNodeToCompile = <<>> /\ current' = t /\ main' = NoCode
      /\ stack' = [p \in Slots |-> "undefined"] /\ cache' = NoCache
      /\ UNCHANGED <<vec_saved_state, astNodeToCompile, phase, call, todo, stament, frames>>
  BY <1>1, <1>2 DEF setState, Idle, idleFrame
<1>4. StateSound(s)
  BY <1>1 DEF SessionInv, StatesSound
<1>5. /\ StateSound(t)
      /\ DOMAIN t.functions = DOMAIN s.functions
      /\ \A k \in DOMAIN s.functions : t.functions[k].native = s.functions[k].native
  BY <1>2, <1>4, CopyIsSound
<1>6. StatesSound'
  <2>1. CodeIsKept'
    BY <1>1, <1>3, <1>5 DEF SessionInv, StatesSound, CodeIsKept, SavesFunctions
  <2> QED  BY <1>3, <1>5, <2>1 DEF SessionInv, StatesSound
<1>7. ControlTyped' /\ ParseSound' /\ LinkSound'
  BY <1>3 DEF SessionInv, ControlTyped, ParseSound, LinkSound, NoCache
<1>8. WaitSound'
  <2>1. Waiting' = <<>>
    BY <1>3 DEF Waiting
  <2> QED  BY <1>3, <2>1 DEF WaitSound
<1>9. MainSound'
  <2>1. stament = <<>> /\ stament' = <<>>
    BY <1>3 DEF SessionInv, MainSound
  <2> QED  BY <1>3, <2>1, NoCodeIsSound DEF MainSound
<1>10. CacheSound'
  <2>1. Len(t.functions) \in Nat
    BY <1>5, SoundHasShape, ShapeOfState
  <2>2. cache'.functions = 0 /\ 1..0 = {}
    BY <1>3 DEF NoCache
  <2>3. ReadyCode(main.ins)'
    BY <1>3, NoCodeIsSound DEF ReadyCode, IsLinked
  <2> QED  BY <1>3, <2>1, <2>2, <2>3 DEF CacheSound
<1>11. RunSound'
  <2>1. frames = <<>> /\ frames' = <<>> /\ phase' = "idle"
    BY <1>3 DEF SessionInv, RunSound
  <2> QED  BY <2>1 DEF RunSound
<1>12. StackSound'
  <2>1. DOMAIN t.variables \subseteq Slots
    BY <1>5, VariablesFit
  <2> QED  BY <1>3, <2>1 DEF StackSound, VariablesHoldNoJunk
<1> QED  BY <1>6, <1>7, <1>8, <1>9, <1>10, <1>11, <1>12 DEF SessionInv

-----------------------------------------------------------------------------
(* The invariant holds.                                                     *)

LEMMA EmptyStateIsSound == StateSound(EmptyState)
<1>1. /\ EmptyState.nodes = <<>> /\ EmptyState.symbols = <<{}>> /\ EmptyState.functions = <<>>
      /\ EmptyState.variables = <<>> /\ EmptyState.files = {}
      /\ EmptyState = [nodes |-> <<>>, symbols |-> <<{}>>, functions |-> <<>>,
                       variables |-> <<>>, files |-> {}]
  BY DEF EmptyState
<1>2. <<{}>> \in Seq(SUBSET SymbolEntry) /\ <<{}>> # <<>>
  OBVIOUS
<1>3. <<>> \in Seq(NodeEntry) /\ <<>> \in Seq(FunctionEntry) /\ <<>> \in Seq(VariableEntry)
      /\ Len(<<>>) = 0 /\ DOMAIN <<>> = {}
  OBVIOUS
<1>4. EmptyState \in StateShape
  BY <1>1, <1>2, <1>3 DEF StateShape
<1>5. VariablesSound(EmptyState) /\ FunctionsSound(EmptyState)
  BY <1>1, <1>3 DEF VariablesSound, FunctionsSound
<1>6. \A i \in DOMAIN EmptyState.nodes : SoundItem(EmptyState.nodes[i].item)
  BY <1>1, <1>3
<1>7. Len(EmptyState.nodes) <= MaxNodes /\ EmptyState.symbols # <<>>
  BY <1>1, <1>2, <1>3, BoundAssumption
<1> QED  BY <1>4, <1>5, <1>6, <1>7 DEF StateSound

LEMMA InitSound == Init => SessionInv
<1> SUFFICES ASSUME Init  PROVE SessionInv
  OBVIOUS
<1>1. /\ current = EmptyState /\ vec_saved_state = <<EmptyState>> /\ astNodeToCompile = <<>>
      /\ main = NoCode /\ stack = [p \in Slots |-> "undefined"] /\ cache = NoCache
      /\ phase = "idle" /\ call = "none" /\ todo = <<>> /\ stament = <<>> /\ frames = <<>>
  BY DEF Init
<1>2. StateSound(EmptyState) /\ EmptyState \in StateShape
  BY EmptyStateIsSound, SoundHasShape
<1>3. EmptyState.functions = <<>> /\ EmptyState.variables = <<>>
  BY DEF EmptyState
<1>4. StatesSound
  <2>1. PICK e : e = EmptyState
    OBVIOUS
  <2>2. <<e>> \in Seq(StateShape) /\ DOMAIN <<e>> = {1} /\ <<e>>[1] = e
    BY <1>2, <2>1
  <2>3. CodeIsKept
    BY <1>1, <1>3, <2>1, <2>2 DEF CodeIsKept
  <2> QED  BY <1>1, <1>2, <2>1, <2>2, <2>3 DEF StatesSound
<1>5. ControlTyped /\ ParseSound /\ LinkSound
  BY <1>1 DEF ControlTyped, ParseSound, LinkSound, NoCache
<1>6. WaitSound
  <2>1. Waiting = <<>>
    BY <1>1 DEF Waiting
  <2> QED  BY <1>1, <2>1 DEF WaitSound
<1>7. MainSound
  BY <1>1, NoCodeIsSound DEF MainSound
<1>8. CacheSound
  <2>1. cache.functions = 0 /\ Len(current.functions) = 0 /\ 1..0 = {}
    BY <1>1, <1>3 DEF NoCache
  <2>2. ReadyCode(main.ins)
    BY <1>1, NoCodeIsSound DEF ReadyCode, IsLinked
  <2> QED  BY <2>1, <2>2 DEF CacheSound
<1>9. RunSound
  BY <1>1 DEF RunSound
<1>10. StackSound
  BY <1>1, <1>3 DEF StackSound, VariablesHoldNoJunk
<1> QED  BY <1>4, <1>5, <1>6, <1>7, <1>8, <1>9, <1>10 DEF SessionInv

LEMMA StutterKeeps ==
    ASSUME SessionInv, UNCHANGED vars  PROVE SessionInv'
<1>1. /\ current' = current /\ vec_saved_state' = vec_saved_state
      /\ astNodeToCompile' = astNodeToCompile /\ main' = main /\ stack' = stack /\ cache' = cache
      /\ phase' = phase /\ call' = call /\ todo' = todo /\ stament' = stament /\ frames' = frames
  BY DEF vars
<1>2. StatesSound'
  BY <1>1 DEF SessionInv, StatesSound, CodeIsKept, NeverCompiled
<1>3. ControlTyped'
  BY <1>1 DEF SessionInv, ControlTyped
<1>4. ParseSound'
  BY <1>1 DEF SessionInv, ParseSound
<1>5. WaitSound'
  <2>1. Waiting' = Waiting /\ Symbols' = Symbols
    BY <1>1 DEF Waiting, Symbols
  <2>2. \A node : NewerThanCode(node)' <=> NewerThanCode(node)
    BY <1>1 DEF NewerThanCode
  <2>3. \A item : Registered(item)' <=> Registered(item)
    BY <2>1 DEF Registered
  <2> QED  BY <1>1, <2>1, <2>2, <2>3 DEF SessionInv, WaitSound
<1>6. MainSound'
  BY <1>1 DEF SessionInv, MainSound
<1>7. LinkSound'
  <2>1. \A k : CodeOf(k)' = CodeOf(k)
    BY <1>1 DEF CodeOf
  <2> QED  BY <1>1, <2>1 DEF SessionInv, LinkSound
<1>8. CacheSound'
  <2>1. \A ins : ReadyCode(ins)' <=> ReadyCode(ins)
    BY <1>1 DEF ReadyCode
  <2> QED  BY <1>1, <2>1 DEF SessionInv, CacheSound, MainUpToDate
<1>9. RunSound'
  BY <1>1 DEF SessionInv, RunSound, MainUpToDate
<1>10. StackSound'
  BY <1>1 DEF SessionInv, StackSound, VariablesHoldNoJunk
<1> QED  BY <1>2, <1>3, <1>4, <1>5, <1>6, <1>7, <1>8, <1>9, <1>10 DEF SessionInv

LEMMA NextKeeps == SessionInv /\ [Next]_vars => SessionInv'
<1> SUFFICES ASSUME SessionInv, [Next]_vars  PROVE SessionInv'
  OBVIOUS
<1>1. CASE Host
  BY <1>1, BeginParseKeeps, ExecuteKeeps, CallFromHostKeeps, register_C_FunctionKeeps,
     register_C_VariableKeeps, saveStateKeeps, setStateKeeps, BeginCompileKeeps DEF Host
<1>2. CASE Parser
  BY <1>2, parseVarKeeps, parseFunctionKeeps, parseStatementKeeps, parseErrorKeeps,
     ParseEndsKeeps DEF Parser
<1>3. CASE Compiler
  BY <1>3, gacVarKeeps, gacFunctionKeeps, gacExpressionKeeps, popFunctionKeeps DEF Compiler
<1>4. CASE Linker
  BY <1>4, LinkFunctionKeeps, LinkEndsKeeps DEF Linker
<1>5. CASE Machine
  BY <1>5, RunVariableKeeps, RunFunctionKeeps, RunNativeKeeps, RunFailsKeeps,
     FunctionEndsKeeps DEF Machine
<1>6. CASE UNCHANGED vars
  BY <1>6, StutterKeeps
<1> QED  BY <1>1, <1>2, <1>3, <1>4, <1>5, <1>6 DEF Next

\* The inductive invariant, from which the properties follow.
THEOREM SessionIsSound == Spec => []SessionInv
<1>1. Init => SessionInv
  BY InitSound
<1>2. SessionInv /\ [Next]_vars => SessionInv'
  BY NextKeeps
<1> QED  BY <1>1, <1>2, PTL DEF Spec

-----------------------------------------------------------------------------
(* The properties.                                                          *)

LEMMA TypeFollows == SessionInv => TypeOK
<1> SUFFICES ASSUME SessionInv  PROVE TypeOK
  OBVIOUS
<1>1. ASSUME NEW s, StateSound(s)  PROVE StateType(s)
  BY <1>1, ShapeOfState, SoundHasShape
     DEF StateType, NodeEntry, SymbolEntry, FunctionEntry, VariableEntry
<1>2. /\ StateType(current)
      /\ \A i \in DOMAIN vec_saved_state : StateType(vec_saved_state[i])
  BY <1>1 DEF SessionInv, StatesSound
<1>3. Len(current.variables) < Cardinality(Slots)
  <2>1. StateSound(current)
    BY DEF SessionInv, StatesSound
  <2> QED  BY <2>1, VariablesFit, SymbolsOfCurrent, ShapeOfState, BoundAssumption
<1>4. astNodeToCompile \in Seq(1..MaxNodes)
  <2>1. CASE phase = "compiling"
    <3>1. astNodeToCompile = <<>>
      BY <2>1 DEF SessionInv, WaitSound
    <3> QED  BY <3>1
  <2>2. CASE phase # "compiling"
    <3>1. Waiting = astNodeToCompile
      BY <2>2 DEF Waiting
    <3> QED  BY <3>1 DEF SessionInv, WaitSound
  <2> QED  BY <2>1, <2>2
<1>5. frames \in Seq([fun : Nat, pc : Nat \ {0}]) /\ (phase = "running" <=> frames # <<>>)
  BY DEF SessionInv, RunSound, FrameType
<1> QED  BY <1>2, <1>3, <1>4, <1>5 DEF TypeOK, SessionInv, ControlTyped, MainSound

\* Types, the shapes of all states included, and main's variables fit in the slots.
THEOREM SessionTyped == Spec => []TypeOK
BY SessionIsSound, TypeFollows, PTL

\* Every link of any code that exists leads to an entry of the name in its source.
THEOREM LinksStaySound == Spec => []LinksAreSound
<1>1. SessionInv => LinksAreSound
  <2> SUFFICES ASSUME SessionInv, NEW k \in {0} \cup DOMAIN current.functions,
                      NEW i \in DOMAIN CodeOf(k).ins, NEW x, x = CodeOf(k).ins[i]
               PROVE  CASE x.link.to = "variable" -> LeadsTo(current.variables, x.link, x.name)
                        [] x.link.to = "function" -> LeadsTo(current.functions, x.link, x.name)
                        [] x.link.to = "native"   -> \E f \in DOMAIN current.functions :
                              current.functions[f].native /\ current.functions[f].name = x.name
                        [] OTHER -> TRUE
    BY DEF LinksAreSound
  <2>1. Len(current.functions) \in Nat /\ DOMAIN current.functions = 1..Len(current.functions)
    BY SymbolsOfCurrent, ShapeOfState
  <2>2. k \in 0..Len(current.functions)
    BY <2>1
  <2>3. SoundLink(current, x)
    BY <2>2, CodeOfIsSound DEF SoundCode
  <2>4. CASE x.link.to = "variable"
    BY <2>3, <2>4 DEF SoundLink
  <2>5. CASE x.link.to = "function"
    BY <2>3, <2>5 DEF SoundLink
  <2>6. CASE x.link.to = "native"
    BY <2>3, <2>6 DEF SoundLink
  <2> QED  BY <2>4, <2>5, <2>6
<1> QED  BY <1>1, SessionIsSound, PTL

\* What runs is ready to run, unless the host saves states that have script
\* functions, whose code a restored state does not have.
THEOREM ReadyWhenItRuns ==
    ASSUME "saveFunctions" \notin Features
    PROVE  Spec => []RunningCodeIsReady
<1>1. SessionInv => RunningCodeIsReady
  <2> SUFFICES ASSUME SessionInv, Running
               PROVE  /\ Top.fun <= cache.functions
                      /\ Top.fun > 0 => current.functions[Top.fun].node <= cache.nodes
                      /\ CASE Fetched.link.to = "function" ->
                                /\ Fetched.link.at <= cache.functions
                                /\ current.functions[Fetched.link.at].code.exists
                                      \/ NeverCompiled(Fetched.link.at)
                           [] Fetched.link.to = "native" -> SearchStaysInCache \/ AfterFailedLink
                           [] Fetched.link.to = "variable" ->
                                /\ current.variables[Fetched.link.at].native =>
                                      stack[Fetched.link.at] = "native"
                           [] OTHER -> FALSE
    BY DEF RunningCodeIsReady
  <2>1. /\ Top.fun \in 0..Len(current.functions) /\ Top.fun <= cache.functions
        /\ SoundLink(current, Fetched) /\ Fetched.link # Unlinked
        /\ Fetched \in InsType
        /\ Fetched.link.to = "function" => Fetched.link.at <= cache.functions
        /\ Fetched.link.to = "variable" /\ current.variables[Fetched.link.at].native =>
              stack[Fetched.link.at] = "native"
    BY FetchedIsReady
  <2>2. Top.fun > 0 => current.functions[Top.fun].node <= cache.nodes
    <3>1. Len(current.functions) \in Nat /\ cache.functions \in Nat
      BY SymbolsOfCurrent, ShapeOfState DEF SessionInv, ControlTyped
    <3>2. Top.fun > 0 => Top.fun \in 1..cache.functions
      BY <2>1, <3>1
    <3> QED  BY <3>2 DEF SessionInv, CacheSound
  <2>3. Fetched.link.to \in {"function", "native", "variable"}
    <3>1. Fetched.link.to \in {"nothing", "variable", "function", "native"}
      BY <2>1 DEF InsType, LinkType
    <3> QED  BY <2>1, <3>1 DEF SoundLink
  <2>4. CASE Fetched.link.to = "function"
    <3>1. Fetched.link.at \in DOMAIN current.functions
          /\ ~current.functions[Fetched.link.at].native
      BY <2>1, <2>4 DEF SoundLink, LeadsTo
    <3>2. current.functions[Fetched.link.at].code.exists \/ NeverCompiled(Fetched.link.at)
      BY <3>1 DEF SessionInv, StatesSound, CodeIsKept, SavesFunctions
    <3> QED  BY <2>1, <2>2, <2>4, <3>2
  <2>5. CASE Fetched.link.to = "native"
    <3>1. Len(current.functions) \in Nat
      BY SymbolsOfCurrent, ShapeOfState
    <3>2. SearchStaysInCache \/ AfterFailedLink
      BY <3>1 DEF SessionInv, RunSound, Running, SearchStaysInCache, AfterFailedLink
    <3> QED  BY <2>1, <2>2, <2>5, <3>2
  <2>6. CASE Fetched.link.to = "variable"
    BY <2>1, <2>2, <2>6
  <2> QED  BY <2>3, <2>4, <2>5, <2>6
<1> QED  BY <1>1, SessionIsSound, PTL

\* No variable of a script holds what operands left in its slot.
THEOREM NoJunkInVariables == Spec => []VariablesHoldNoJunk
<1>1. SessionInv => VariablesHoldNoJunk
  BY DEF SessionInv, StackSound
<1> QED  BY <1>1, SessionIsSound, PTL

\* Tables and scopes agree, and names of script entries are unique.
THEOREM EntriesStayRegistered == Spec => []EntriesAreRegistered
<1>1. SessionInv => EntriesAreRegistered
  <2> SUFFICES ASSUME SessionInv  PROVE EntriesAreRegistered
    OBVIOUS
  <2>1. Symbols = SymbolsOf(current)
    BY DEF Symbols, SymbolsOf, AllOf
  <2>2. current.symbols[1] \subseteq SymbolsOf(current)
    BY SymbolsOfCurrent DEF SymbolsOf, AllOf
  <2>3. VariablesSound(current) /\ FunctionsSound(current)
    BY DEF SessionInv, StatesSound, StateSound
  <2>4. \A k \in DOMAIN current.functions : ~current.functions[k].native =>
            /\ <<"function", current.functions[k].name>> \in Symbols
            /\ \A m \in DOMAIN current.functions :
                  current.functions[m].name = current.functions[k].name => m = k
    BY <2>1, <2>3 DEF FunctionsSound
  <2>5. \A p \in DOMAIN current.variables : <<"variable", current.variables[p].name>> \in Symbols
    BY <2>1, <2>2, <2>3 DEF VariablesSound
  <2> QED  BY <2>3, <2>4, <2>5 DEF EntriesAreRegistered, VariablesSound
<1> QED  BY <1>1, SessionIsSound, PTL

\* The nodes that wait are newer than any code.
THEOREM StatementsCompiledOnce == Spec => []CompiledOnce
<1>1. SessionInv => CompiledOnce
  <2> SUFFICES ASSUME SessionInv, NEW i \in DOMAIN astNodeToCompile,
                      NEW k \in {0} \cup DOMAIN current.functions
               PROVE  /\ k > 0 => current.functions[k].node < astNodeToCompile[i]
                      /\ \A j \in DOMAIN CodeOf(k).ins : CodeOf(k).ins[j].node < astNodeToCompile[i]
    BY DEF CompiledOnce
  <2>1. PICK node : node = astNodeToCompile[i]
    OBVIOUS
  <2>2. NewerThanCode(node)
    <3>1. phase # "compiling"
      BY DEF SessionInv, WaitSound
    <3> QED  BY <2>1, <3>1 DEF SessionInv, WaitSound, Waiting
  <2>3. CASE k = 0
    BY <2>1, <2>2, <2>3 DEF NewerThanCode, CodeOf
  <2>4. CASE k # 0
    BY <2>1, <2>2, <2>4 DEF NewerThanCode, CodeOf
  <2> QED  BY <2>3, <2>4
<1> QED  BY <1>1, SessionIsSound, PTL

\* No step takes a value back but the one that restores a state.
LEMMA StepKeepsGlobals ==
    ASSUME SessionInv, [Next]_vars, NEW p \in DOMAIN current.variables,
           stack[p] = "set", stack'[p] # "set"
    PROVE  Idle /\ cache' = NoCache
<1>1. /\ p \in Slots /\ ~current.variables[p].native
      /\ p \in 1..Len(current.variables) /\ Len(current.variables) \in Nat
      /\ stack \in [Slots -> {"undefined", "set", "native", "junk"}]
  BY VariablesFit, SymbolsOfCurrent, ShapeOfState DEF SessionInv, StatesSound, StackSound, ControlTyped
<1>2. \A st \in [Slots -> {"undefined", "set", "native", "junk"}] : Pushed(st)[p] = st[p]
  BY <1>1 DEF Pushed
<1>3. stack' # stack
  OBVIOUS
<1>4. CASE \E i \in DOMAIN vec_saved_state : setState(i)
  BY <1>4 DEF setState
<1>5. CASE gacVar
  <2>1. stack' = IniStackVar(current.nodes[Head(todo)].item)
    BY <1>5 DEF gacVar
  <2>2. stack' = [stack EXCEPT ![Len(current.variables) + 1] = "undefined"]
    BY <1>3, <2>1 DEF IniStackVar
  <2> QED  BY <1>1, <2>2
<1>6. CASE LinkEnds
  BY <1>1, <1>6 DEF LinkEnds
<1>7. CASE RunVariable
  <2>1. PICK at : at = Fetched.link.at
    OBVIOUS
  <2>2. PICK st : st = IF Fetched.op = "set" /\ stack[at] # "native"
                       THEN [stack EXCEPT ![at] = "set"] ELSE stack
    OBVIOUS
  <2>3. stack' = Pushed(st)
    BY <1>7, <2>1, <2>2 DEF RunVariable
  <2>4. at \in Slots
    <3>1. at \in DOMAIN current.variables
      BY <1>7, <2>1, FetchedIsReady DEF RunVariable, SoundLink, LeadsTo
    <3> QED  BY <3>1, VariablesFit DEF SessionInv, StatesSound
  <2>5. st \in [Slots -> {"undefined", "set", "native", "junk"}] /\ st[p] = "set"
    BY <1>1, <2>2, <2>4
  <2> QED  BY <1>2, <2>3, <2>5
<1>8. CASE RunFunction \/ RunNative \/ RunFails
  <2>1. stack' = Pushed(stack)
    BY <1>8 DEF RunFunction, RunNative, RunFails
  <2> QED  BY <1>1, <1>2, <2>1
<1>9. CASE FunctionEnds
  BY <1>3, <1>9 DEF FunctionEnds
<1>10. CASE Parser
  BY <1>3, <1>10 DEF Parser, parseVar, parseFunction, parseStatement, parseError, ParseEnds,
                     ToCompile, ParseFails
<1>11. CASE gacFunction \/ gacExpression \/ popFunction \/ LinkFunction
  BY <1>3, <1>11 DEF gacFunction, gacExpression, popFunction, LinkFunction
<1>12. CASE Host /\ ~\E i \in DOMAIN vec_saved_state : setState(i)
  BY <1>3, <1>12 DEF Host, BeginParse, Execute, CallFromHost, Starts, stateVars,
                     register_C_Function, register_C_Variable, saveState, BeginCompile
<1>13. CASE UNCHANGED vars
  BY <1>3, <1>13 DEF vars
<1> QED  BY <1>4, <1>5, <1>6, <1>7, <1>8, <1>9, <1>10, <1>11, <1>12, <1>13
         DEF Next, Compiler, Linker, Machine

\* A global variable keeps its value until the host restores a state.
THEOREM GlobalsAreKept == Spec => GlobalsSurvive
<1>1. SessionInv /\ [Next]_vars =>
        [\A p \in DOMAIN current.variables :
          stack[p] = "set" /\ stack'[p] # "set" => Idle /\ cache' = NoCache]_vars
  BY StepKeepsGlobals
<1> QED  BY <1>1, SessionIsSound, PTL DEF Spec, GlobalsSurvive
=============================================================================
