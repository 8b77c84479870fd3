# A TLA+ model of the RX compiler front end

RX is a small language. Its repository holds a front end in C++
(`compiler/`, on ANTLR and LLVM's support library), an LLVM pass
(`compiler/passes/`), a stub of a garbage-collected runtime (`runtime/`) and the
beginning of a standard library (`stdlib/`). Everything runs in one process and
one thread, and nothing is persisted. What makes the code hard is therefore not
concurrency but *order and partial state*: work lists over cyclic graphs, tables
kept in step by different classes, several walks over one tree that each rely on
what earlier ones left behind, early returns in the middle of a walk, lookups
that are used much later, and recursion that nothing bounds. Those are what the
properties are about.

- [Inventory](#inventory): the parts of the system, their state and operations
- [How the parts interact](#how-the-parts-interact)
- [Modules](#modules): what models what, and how it corresponds to the code
- [Runs](#runs): what each run asks and shows, with its bounds
- [Disagreements found](#disagreements-found)
- [Fairness, deadlock, assertions](#fairness-deadlock-and-assertions)
- [Proofs](#proofs)
- [Not modelled](#not-modelled), [Plan](#plan), [Running](#running)

## Inventory

Paths are relative to `src/`. "Right when" says what each part owes the others.

### Source manager and import discovery
`compiler/lib/Basic/SourceManager.cpp`, `compiler/lib/Frontend/*`

*State*: `SourceManager::OpenFiles` (path -> buffer),
`TranslationUnitContext::OpenFiles` (path -> `TranslationUnit`), a local FIFO
queue of units, and per unit its tree and the list of units it imports.
*Operations*: `setRootFile`, `traverseFileImports` (parse a unit, open what it
imports, queue what is new), `SourceManager::OpenFile`, `getImports`,
`addImportedFiles`.
*Hard*: imports may be cyclic, repeated or missing; two tables in two classes
share keys; paths are joined and never normalised; opening a file may fail, now
or the next time.
*Right when*: the tables agree, each unit is parsed once, each import is an edge
or a diagnostic, everything reachable is found, and the loop ends.

### Driver
`compiler/rx-frontend.cpp`, `GraphTraits` in `TranslationUnitContext.h`,
`compiler/lib/Sema/Sema.cpp`

*State*: the visit order, the components seen, the pass list.
*Operations*: discovery, `scc_iterator` over the unit graph, cycle diagnostics,
`SemaPassManager::run` on each unit.
*Hard*: the order of passes over units decides which types an importer can use;
cycles have no such order; the iterator starts at the first key of a map.
*Right when*: what a unit imports is analysed before it, cycles are reported, and
every unit is analysed.

### Scopes
`compiler/lib/Sema/LexicalScope.cpp`, `LexicalContext.h`

*State*: a tree of scopes, each a table from names to lists of declarations.
*Operations*: `insert`, `getDecls` (this scope only), `find` (this and outer
scopes). Shared by all passes; scopes are made on first visit of a node.

### ResolveGlobalType
`compiler/lib/Sema/ResolveGlobalTypePass.cpp`

*State*: file scope, the `DeclNode` of each type reference, the `QualType` of
each type node. *Operations*: three walks (declare types, resolve references,
materialise types).
*Hard*: references before declarations, redeclarations, shadowed builtins,
recursive types and cyclic aliases, unknown parts that cut a visit short.
*Right when*: a reference means the first declaration, types fit their parts,
each error is reported, and only what cannot be resolved stays without a type.

### ForwardDeclareFunctions
`compiler/lib/Sema/ForwardDeclareFunctions.cpp`, `TypeContext::addImpl`

*State*: the file and impl scopes, and the method table of each named type.
*Hard*: overload sets of three and more, functions whose type is unknown, several
impl blocks of one type, rejected methods.
*Right when*: overloads can be told apart and the method tables hold exactly the
declared methods.

### TypeCheck
`compiler/lib/Sema/TypeCheck.cpp`, statements and expressions of
`RecursiveASTVisitor.h`

*State*: `HintStack`, `CurrentScope`, `ResultStack`, scope tables, expression
types. *Operations*: check and insert variables and parameters, type literals.
*Hard*: a name is looked up before its initializer is visited and inserted
after; how many hints are popped depends on how many there were; five early
returns.
*Right when*: names stay distinct per scope, literals get the type that is wanted
of them, no variable is lost.

### Types
`compiler/lib/AST/TypeContext.cpp`, `Type.cpp`, `QualType.cpp`

*State*: five tables of type objects; a `QualType` is the address of one and a
`mut` flag. *Operations*: one `get...Type` per sort of type, which returns the
object that there is or makes one; `addImpl`.
*Hard*: types are compared by address, so sharing is a matter of correctness; the
tables own the objects and move them when they grow; the hash of object and enum
types starts from an uninitialised variable.
*Right when*: an address stays good and stands for what was asked, and the same
type has one address, whichever way and in whichever unit it was built.

### Tree builder and parser
`compiler/lib/Parser/ParseTreeVisitor.h`, `Parser.cpp`, `ASTContext.h`

*State*: the nodes made so far (`ASTContext` owns them), the values that the
active visit methods hold, a parser's one-shot `Impl`.
*Operations*: one visit method per grammar rule, each visiting its children and
making a node; `promoteStmtToBlockStmt`; dropping a repeated object field.
*Hard*: the tree is visited after syntax errors too; methods visit children that
may be absent; a rule without a method has the value of its last child.
*Right when*: everything in the file is in the tree, once and in its place, or
was reported.

### Tree printer
`compiler/lib/AST/ASTPrinter.cpp`

*State*: `Depth`, `DepthFlag` (32 entries), `IsLast`.
*Operations*: a visit per sort of node, in a `Scope` that knows whether it is the
last child.
*Hard*: a line is drawn before anything below it is known; one flag per depth is
shared by all nodes of that depth; the depth of a tree has no bound.
*Right when*: the outline is the tree and a bar is drawn where a branch goes on.

### Runtime
`runtime/runtime.cpp`

*State*: `gc_white_set`, the memory of objects and their metadata.
*Operations*: `runtime_allocate`, `runtime_deallocate`; `runtime_gc_poll` prints.
*Hard*: less is reserved and skipped than the metadata needs; nothing leaves the
white set, and addresses are used again.
*Right when*: neither metadata nor objects are written over by one another.

### The rest
`Diagnostic` prints messages; `PackageInfo` reads and writes `pkg.json` and is not
called by any program; `parse-tree` is a debugging tool; `HeapMapPass` counts
structs with collected pointers; `stdlib/` is RX source.

## How the parts interact

```
rx-frontend main
  |- TranslationUnitContext --opens--> SourceManager        (tables kept in step)
  |        \--parses each unit with--> Parser, LangVisitor  (fills the ASTContext)
  |- scc_iterator over the units                            (order of analysis)
  \- per unit: SemaPassManager
        1 ResolveGlobalType        file scope += types, types of type nodes
        2 ForwardDeclareFunctions  file/impl scopes += functions, method tables
        3 TypeCheck                all scopes += variables, types of literals
     TypeContext: one owner of types for all units and passes
  ASTPrinter: draws the tree of a unit, with -debug
```

The passes talk through the tree (`DeclNode`, `QualType`, scopes hung on nodes)
and through `TypeContext` and `LexicalContext`, which all units share. An error in
one pass stops neither it nor the next: each pass must live with what the one
before left unset. The pass modules start from such states: undefined types for
ForwardDeclareFunctions and TypeCheck, functions already in the table for
TypeCheck, types of blocks never resolved.

## Modules

| Module | Models | State | Actions |
|---|---|---|---|
| `ImportClosure` | what discovery promises | the opened set | open a node, complete |
| `ImportGraph` | discovery | both tables, queue, cursor, diagnostics | one per branch of the two loops |
| `Frontend` | `main` (extends `ImportGraph`) | visit order, cycles, pass runs | one component, one pass run |
| `ResolveGlobalType` | pass 1 | scope, `declNode`, `type`, call stack | one visit call or return |
| `ForwardDeclareFunctions` | pass 2 | scope tables, method tables | one function, one impl |
| `TypeCheck` | pass 3 | scope tables, hints, scope stack, work list | one visit begins or ends |
| `TreeBuilder` | `LangVisitor` | nodes made, values of visits, visits to come | a visit begins; a field is kept or dropped; a node is made |
| `ASTPrinter` | the printer (extends `TreeBuilder`) | depth, flags, lines, visits to come | a visit begins or ends |
| `TypeContext` | type objects | objects, tables, last answer | one per `get...Type` |
| `Runtime` | the allocator | memory, blocks, white set, objects | allocate, deallocate; the program stores |
| `ImportGraphProofs`, `FrontendProofs`, `ResolveGlobalTypeProofs`, `ForwardDeclareProofs`, `TypeCheckProofs`, `TypeContextProofs`, `RuntimeProofs`, `ASTPrinterProofs` | proofs about the module they extend | | |
| `MC...` | instances for TLC | | |

**Data abstraction.** Paths are sequences of components, so that `.` and `..` can
be spelled; what the operating system makes of a spelling is the operator
parameter `Denotes`. Files are their import lists. Translation units are flat
trees: numbered nodes that name their kind, their name and their children, in
the order the C++ visitor reaches them. Types are values in the passes and
addresses in `TypeContext`. Diagnostics are kept
as a sequence of what and where, the wording is left out.

**ImportGraph.** `ParseFront` is the head of the `while` (parse and pop),
`SkipModule`, `LinkKnown`, `OpenImport` and `ImportFails` are the four ways
through one iteration of the `for`. A flaky file is one whose opening may fail
at any attempt. The assertion in `OpenFile` is a branch that leads to `"abort"`.

**Frontend.** `Discovery` is any step of `ImportGraph`. `scc_iterator` is
external: any order of components in which each comes after those it points to,
and any order within one. A pass run is one step; what it does is in the
pass's own module.

**ResolveGlobalType.** The first two walks are work lists of declarations and of
references. The third is recursive in the code and its calls return in the
middle of others, so it is modelled with an explicit stack of frames (node and
results of the parts so far); `MaxDepth` is how many of them the process's stack
has room for. An uninitialised `DeclNode` (AST.h:130) may hold anything: null,
whose visit yields the unknown type, or a wild pointer.

**ForwardDeclareFunctions.** `Clashes` goes through the declarations of the name in
the order of the loop, with its three ways out and its assertion. Function types
are reduced to their parameter lists; `Unknown` is the type of a function of which
a part is undefined.

**TypeCheck.** `todo` holds the visits that must still begin or end, so an early
return is an action that adds no visits for the children. `PushHint` and
`InsertVariable` are the two halves of a declaration around its initializer;
`InsertVariable` includes the destructor that pops as many hints as there were
before the push. Any expression that only visits its parts is an `"Expr"`.

The file scope starts with what the passes before have put there: the first type
of a name, or its functions; overloads that were rejected are left in, since only
the first declaration of a name is ever looked at.

**TreeBuilder.** A parse tree has the children of a node in parts, as the grammar
groups them. Each visit method is a list of steps, visits and then `Make`;
sorts of node that are built alike share `MakeNode`, the three that are not
(`for`, `if`, object literals) have actions of their own. An absent child that
is visited all the same is `Null`: a missing function body, or whatever error
recovery leaves out. (A missing name stops the process just as well, in the
method itself, and is not told apart from it.) The order of the fields of an object
literal is that of a hash table, so it is arbitrary.

**ASTPrinter.** It starts from the tree that `TreeBuilder` has made. `Open` and
`Close` are the two ends of a visit in its `Scope`; `LastChild` is the condition
that each method passes to the `Scope` of each child. `CloseNode` includes the
assignment to `DepthFlag` that ends every method and the destructor.

**TypeContext.** Type objects are numbered in the order they are made. `Reuse` and
`Intern` are the two ways through a `get...Type`; `Insert` is that of object and
enum types, where the hash makes it arbitrary whether an equal one is found.
The client is external: it asks for anything made of addresses it was given.

**Runtime.** Memory is words of four bytes. `operator new` is external: any free
block at a multiple of `Align`, or none when there is none, in which case the
assertion fails. The compiled program, external too, writes any word of its
objects. Whether a metadata word is read back is not in the code yet;
`SizesIntact` says that it could be.

## Runs

| Run | Asks | States |
|---|---|---|
| `frontend` | tables, queue, accounting, refinement of `ImportClosure`; order of passes, cycles, coverage, termination | 1739 disks |
| `import_aliases` | is a file opened once? *(violated)* | |
| `frontend_root` | is the root analysed? *(violated)* | |
| `resolve_types` | names, types, errors, termination | 7776 units |
| `resolve_untyped_member` | are enum members without type accepted? *(violated)* | |
| `functions` | overloads, method tables, answers | 5184 units |
| `functions_assert` | is the other function typed? *(violated)* | |
| `typecheck` | names, hints, stops, answers | 18900 units |
| `ast` | tree complete and in shape, crashes, outline, bars, depth | 670 parse trees |
| `types` | addresses stay good, equal types are one | 107988 states |
| `types_shared` | are equal object types one? *(violated)* | |
| `runtime` | sizes and objects survive, live objects are known | 562911 states |

**frontend.** The disks are of three sorts. *Plain* ones have three files in two
directories, one of which imports upwards with `..`; imports of a missing
file, of a module, of itself, and repeated ones; up to three imports in the
root, so that a failed import is tried again after another was linked. *Dotted*
ones spell imports through `.` and `..`, so that a cycle ends only at the
operating system's limit on paths, `PathMax`: five components are enough for such
a cycle to close twice. *Graph* disks have four files with up to two imports
each, chosen so that components of one, two and three units arise, with
self-imports, and with units the entry node does not reach (the root is the
second file of the alphabet). Opening the root or one other file may fail.
`NoDoubleOpen` says the assertion in `OpenFile` cannot fail; `WorkQueue` that the
queue is exactly the units without a tree; `ImportsAccountedFor` counts, per
target, edges and diagnostics against the imports visited; `RefinesClosure` maps
the unit table onto the abstract closure, where imports that may fail may be
left out and no others. `DependencyOrder` is what lets a unit use the types of
what it imports; `AllReached` compares the reported cycles with the components
of two and more units; `Returns` says that `main` ends.

**resolve_types.** Two declarations and a function or variable over four names, one
builtin and one undefined; each declaration's type is a reference, pointer,
function, object (also with a repeated field) or enum, so there are chains and
cycles of aliases, recursive types, shadowed builtins and redeclarations.
`MaxDepth` is 10, more than any unit has nodes, so that a stack that overflows
is a cycle and never a long chain.
`FirstDeclarationWins` also rules out the assertion "Ambiguous decl";
`ErrorsReported` counts: a dropped declaration has one error, the first of a name
none. `StopsExplained` and `Resolves` are two halves of one statement: every early
stop has a reason in the program (access types, which the code calls not
implemented, are one of them), and without such a reason the pass ends.

**functions.** Four functions with two names, two parameter lists and the unknown
one, laid out over the file and impl blocks of two types, of an alias and of an
unknown type: overload sets of up to four, two blocks of one type, a type with
the name of a function.

**typecheck.** A variable and then a variable, a function, a method or a type, over
three names. Initializers are missing, literals, names, or blocks with a declaration
of their own, up to three levels deep, followed by a number or not; declared
types are absent, builtin, not builtin or unknown. Three levels are the least at
which `HintStack` underflows, which `StopsExplained` states: only declarations
within the variable that is left can make it underflow, and a number in an
initializer finds it empty only by what is in the initializers around it. `HintsReachNumbers` compares the type a number
got with the variable it belongs to, wherever the stack has been in between.
`StrayNumbersTyped` says the same of numbers in plain statements: only the first
hint of the unit is ever left behind. `NamesDistinct` is about the gap between
the lookup of a name and its insertion.

**ast.** Files with up to two declarations, functions with every sort of statement
and expression, pairs of statements, repeated object fields within repeated
ones, branches that are blocks, that are not and that become one (a loop is
what its body is), eleven files with a child missing at different places, and
nested conditionals as deep as the array of flags. The instance has 10 flags
instead of 32: `OnlyDeepTreesStop` is about depth relative to their number, and
the deep trees have levels on both sides of it. `NothingLost` and `ShapeKept`
compare the syntax tree with the parse tree; `OutlineComplete` and `BarsConnect`
compare the lines printed with the syntax tree, so that together the outline is
that of the file. `BarsConnect` looks at the finished drawing from below: what
each line claimed of the lines after it must have come true.

**types, types_shared.** One builtin type, one named type, one field name, functions
of no or one parameter, four type objects: types three levels deep above the
leaf, with qualifiers, asked for in every order. That is little, and the proofs
below hold without these bounds. `Canonical` follows all addresses and compares
what they stand for.

**runtime.** Twelve words, blocks at multiples of four, objects of 0, 1, 3 and 4
words: an empty object whose metadata reaches past its block, an object that
ends where the next block begins, and one that takes two slots. With blocks
aligned to a single word an empty object's metadata would fall in the next
block; `RuntimeAssumption` wants two, and the machines supported have four.

## Disagreements found

- *One file, two spellings* (`import_aliases`): paths are not normalised, so
  `./a` and `a` are opened, parsed and analysed twice; the assertion that a
  file is not open yet looks at spellings.
- *Root not analysed* (`frontend_root`): `getEntryNode` takes the first key of an
  ordered map; a comment says it is the root. If an imported file sorts first
  and does not import the root, the root goes through no pass.
- *Null member* (`resolve_untyped_member`): the visitor visits the type of every
  enum member; grammar, builder and a test have members without one.
- *Assertion on an untyped function* (`functions_assert`): a function of unknown
  type is inserted when it is the first of its name; the next one is compared
  with it and the assertion fails.
- *Equal object types differ* (`types_shared`): the hash of object and enum types
  starts from an uninitialised variable, so an equal type may be looked for in
  the wrong bucket and made again; the unit test expects one object.

Some more are visible in the modules without a statement to contradict:
`mut` is lost (`Combine`), an integer for an `i8` becomes an `i1` (`Deduce`),
a number outside initializers takes the type of the first variable checked,
the error about a redeclaration points at the first declaration, the header of a
`for` loop is lost without a word (`MakeFor`), and the state of an object is
overwritten by its first word (`Store`). A name that refers to a function gets
no type (`VisitUntyped`), where the test `ResolveUseDecl.rx` has one in the tree
it expects. An alias of an object type is materialised at every reference, so
with the hash as it is two uses of one alias may not be the same type.

## Fairness, deadlock and assertions

The process is one thread that runs until it returns, so weak fairness of the
whole next-state relation, `WF_vars(Next)`, is all that liveness needs and all
that is assumed (`Returns`, `Resolves`). The other modules are checked for safety
only and state none. Every behaviour ends
(the process returns or stops), so deadlock is not checked; that a run ends where
it should is said by the properties above and by those about the final states.

Assertions are taken to be enabled, as in the project's default build: a failing
assertion is a state of its own in which nothing moves. The same goes for a null
pointer and an exhausted stack. (Those inside LLVM's containers, as the one that
stops the printer on a deep tree, need a build of LLVM with assertions; without
it the printer reads and writes past its array.)

## Proofs

TLC checks the instances above; the following hold for all values of the
constants, checked by TLAPS. Each theorem is derived from one inductive
invariant of its module; what the invariant adds to the properties, and why it
is needed, is said here.

**ImportGraphProofs** — for every set of files, every disk, every choice of
flaky files, path limit and way the system resolves names that satisfies
`PathAssumption` (the root's own path denotes itself):
`TypeCorrect`, `OpenFileAssertion` (the tables agree and the assertion cannot fail),
`WorkQueueCorrect` (no unit is parsed twice or left out),
`ImportsAreAccountedFor` (no import is lost or counted twice) and
`DiscoveryIsClosure` (discovery implements `ImportClosure`, step by step).
`NoDoubleOpen` is not inductive alone. The invariant
`IInv == TypeOK /\ NoDoubleOpen /\ KeysDenoteFiles /\ NothingYet /\ InnerLoop` adds that
a key of the unit table denotes an existing file (or its imports could not be
read), that nothing exists before the root is opened, and that within the inner
loop the importer has a unit and `rest` is made of its imports. The refinement
needs in addition that every import already passed of a parsed unit is open or
could fail (`Explored`), from which `Complete` is allowed when the queue is empty.
The accounting (`AccountInv`) needs that `rest` is the *end* of the importer's
imports: one step of the loop moves one import from `rest` to those visited and
adds one edge or one diagnostic, so both sides of the equation grow together.

**FrontendProofs** — under the same assumptions and `BeforeAssumption` (the
comparison of the keys of `std::map` is a strict total order on the spellings
there can be): `DriverTypeCorrect`, `PassesFollowPipeline`, `DependenciesFirst` and
`NoneLeftOut`. `Reach` is a recursion over the graph, bounded by the number of
units; `ReachClosed` shows that it is the least set with the unit in it that is
closed under imports (a stage that does not grow is closed, and there are not
enough units for all to grow), and everything else uses only that. The keys are
finitely many because each is a spelling within the system's limit, so that the
map has a first key (`EntryNode` exists). `FrontendInv` then says that what the
iterator has yielded is a union of components, each after those it points to
(`OrderInv`), that the cycles reported are those among them (`CyclesInv`), and that
the runs so far are the beginning of the list "units in order, passes in order
within a unit" (`PassesInv`).

**ResolveGlobalTypeProofs** — for every translation unit that satisfies
`ProgramAssumption` (the shape of a finite tree, numbered from the root down) and
`WalkAssumption` (every type node is a root of the third walk or a part of another,
and the second walk comes to every reference and every missing member type):
`FirstWins`, `TypeCorrect`, `TypesAreConsistent`, `ErrorsAreReported` and
`StopsAreExplained`. In the first walk the table holds the first of the
declarations passed (`ScopeIs`), which gives the references of the second. The third
walk needs `MaterializeInv`: every frame of the stack has the outcomes of the
parts before the one it is in (`FrameInv`), a frame is the call of that part by
the frame below (`CallInv`), a node whose type is set agrees with the types
that its parts have *now* (`TypeInv`; types are never changed once set to a known
one, and a node of unknown type is visited again), and a root is settled, active
or still to come (`RootsInv`). For the last part of `TypesConsistent` the nodes
without a known type are shown to lie in `Doomed`, the least set that the lack of
a declaration spreads in. The errors need that each redefinition has the note
right behind it, so no walk puts another diagnostic in between, and occurs once
(`NotesFollow`): a declaration is reported when the first walk passes it, and none
that it has not passed yet has an error. `StopsAreExplained`
is about the stack: consecutive visits on it are a node and its part, or a
reference and the node it stands for. Between two references they go down a
tree, so a node visited within its own visit is on a cycle of aliases; with
none, no node is on the stack twice, and it is no higher than the unit has nodes.

**ForwardDeclareProofs** — for every set of names, parameter lists, types and
programs satisfying `ProgramAssumption` and `PlaceAssumption` (a declaration is at
one place of the tree): `TypeCorrect`, `OverloadsAreDistinct`, `MethodTables` and
`FunctionsAnswered`. For the first three the invariant is their conjunction;
distinctness needs the type invariant, to know that what is inserted was
compared with everything under the name, and the method tables need both, to
know that a method enters its scope and its type's table in one step. For the
last, `PlacesInv` splits the tree at the place the walk has come to: what is
before it is answered for, what is after it is in no scope and in no error. The
visit of one function must then leave the answers of all others as they are,
although it may add to the list in which their clash was found
(`OthersAnswered`), which is where a declaration's being in one place is needed.

**TypeCheckProofs** — for every translation unit that satisfies
`ProgramAssumption`, `TreeAssumption` (a node is one child of one node, numbers
and names have no children, and variables stand in scopes) and `OrderAssumption`
(nodes are numbered in the order of the walk): `TypeCorrect`, `NamesAreDistinct`,
`NumbersHinted`, `StopsAreExplained`, `VariablesAnswered` and `StraysTyped`. Only the
last needs the order.
`BaseInv` relates the work list to the tree: the ends still to come are those of
the nodes around the place of the walk, in order (`WalkInv`), the scope stack is
that of the scopes among them (`ScopesInv`), and the name of a variable whose
initializer is being visited is still free in its scope (`NamesInv`), because
what the initializer declares goes to scopes further in. `HintsInv` says that
within an initializer without declarations the top of `HintStack` is the type of
its variable. `StopInv` counts the hints (`DepthInv`): whenever a declaration has
ended there is at most one, so a variable that no other is around finds at most
one, and the innermost variable being visited has what it found and its own,
unless a declaration in its initializer has ended; and an outermost one keeps one
as long as nothing is nested in its initializer. `AnswersInv` says that each node is visited at most
once, that what is in a scope is not visited again, and that a variable whose
visit is over, or lies in one that was cut short, has its answer. For
`StraysTyped`, the visits to come are in increasing order and each with all that
is below it (`OrderInv`); without nested declarations at most one variable is
open, and the stack has at most one hint more than when it was opened
(`PlainDepth`), so the hint of the first checked variable stays at the bottom
(`FirstInv`) and a number outside every initializer finds that one or none.

**TypeContextProofs** — for every set of declarations and field names, every
sequence of builtin types and every bound on parameters and objects:
`TypeCorrect`, `AddressesHold` (an address stands for what was asked, and is
owned) and `CanonicalAddresses`. The inductive invariant adds to the first two
that the tables and the records agree with the objects: a key in a table is what
its address holds, every object that is no record is in a table under what it
holds, and the builtin types are all different. From it no two objects that
are not records hold the same. What an address *means*, all addresses in it
followed, is a recursive function; that it has a value is shown address by
address (`MeaningDefined`), since an object refers to earlier ones only. That
equal meanings have one address is proved by a minimal counterexample
(`OneAddress`): of two different addresses with the same meaning, take a pair
whose smaller one is least; their parts have equal meanings and are smaller, so
are equal, so the two objects hold the same.

**RuntimeProofs** — for every set of sizes, every memory and every alignment of
two words and more: `TypeCorrect`, `SizesStay`, `DataStays` and `CollectorKnowsAll`.
The invariant adds the layout: an object lies in a block that begins one word
before it, blocks are aligned and do not overlap, and what was stored lies
within objects. The one metadata word that is written past its block, that of
an empty object, is the word after the first of an aligned block; with two words
and more between blocks no other block begins there and none extends over it
(`NoNeighbours`, `FreeIsApart`).

**ASTPrinterProofs** — for every parse tree that satisfies `TreeAssumption` (the
nodes are numbered from the root down, each but the root is the child of another,
and the parts that a method takes by position are there) and `PlaceAssumption` (a
node is in one place of its tree), and every length of `DepthFlag`:
`CrashesAreExplained`, `ShapeIsKept`, `NothingIsLost`, `PrinterTypeCorrect`,
`OnlyDeepStop`, `DrawingConnects` and `OutlineIsComplete`.
`BuildInv` says of the list of visits to come that when it gets to the `Make` of a
node, each of its children has its value or is visited earlier in the list, and the
same of a field that is kept (`TodoOK`, `IsReady`); so values are closed under
children (`NodesInv`), and once the root has one, all nodes do, each being the child
of an earlier one: there was no absent child to get past.
It also bounds the children of a syntax node by the node's own number, for which
the loops that `MakeIf` and `MakeObject` write as flattened sequences are taken
apart once (`FlattenShape`). `OnlyDeepStop` needs `ProgramInv` (the program
declaration is the last node and the only one whose visit opens no `Scope`) and a
depth for each item of the printer's work (`Walk`): only the root has depth 0, a
node is as deep as its sibling before it and one deeper than the parent that
closes next (`DepthsOK`), so `Depth` is that of the next item (`AtDepth`); and each
node that a printed one leads to has its line or its item, one level further down
(`Covered`). An index past the array is then the depth of a node; and when
nothing is left to do, there is a line for every node of every level, each
closed within the array.
`ShapeInv` says that the value of a parse node was made for what stands for that
node (the node itself, or the body of a loop), and that each syntax node is a
branch made into a block or fits its parse node; what makes it inductive is that
a value is replaced only by one for the same parse node and that no such block is
made into a block again.

`NothingLost` needs two invariants more. `OnceInv` says of the steps to come that
none of them visits or makes what has its value, that no two of them visit or make
the same node, and that whatever is visited was visited by its parent; so a value
is never replaced. It also says which repeated fields are reported, or still to be
dropped before the node of their literal is made. `GrowInv` says that each syntax
node is the value of its own parse node (`IsProper`), an object literal having
exactly the values of the fields it keeps, or a block around one (`IsWrapped`). With `ShapeInv` the node
made for a parse node has one child for each child that is kept, because two
children of nodes that are no loops never share what stands for them
(`OneStand`: the later one would be the body of a loop). When the tree is built, what
the root leads to is closed under that, and so is what is not lost
(`LinkedKept`, `KeptLinked`); both recursive sets, `Below` and `Linked`, are the
least closed ones (`Closure`, by induction on a rank). And a node with two holders
would have been made for a parse node in two places (`OneHolder`).

`BarsInv` relates the flags to the work: up to the
printer's depth the flag of a depth is set if and only if a node of that depth
still waits, all further flags are set, and of the waiting nodes of one depth
only the last is marked as last. A line's bars then say of each depth that a
node of it follows, printed or waiting, with only deeper lines between
(`WillGoOn`); when no work is left, that is `BarsConnect`.

`OutlineComplete` rests on all of these. `BarsInv` also says of each child of a node
that has a line that it has its own further down, with only deeper lines from one to
the other, or that it waits and no line but deeper ones has come since (`Nested`);
work is opened from the deepest level up, so the next line never ends a block that
still has a child waiting. `SeenInv` says that no node has two lines, waits twice,
or has a line and waits, and that it is led to from the root by nodes that have
lines. A node that is opened has children that were never seen: they have no other
parent (`OneHolder`, of `NothingLost`), and it holds each of them once
(`OneChild`: the order in which the fields of an object literal are taken is
injective, which `GrowInv` remembers as `IsInOrder`).

**Only model-checked**, and why:

- `Returns` and `Resolves` are liveness under fairness.
- The five properties of the violated runs are false, with TLC's counterexamples.

## Not modelled

- The lexer, the grammar and ANTLR's runtime: generated and third-party code.
- Printing: the wording of diagnostics and of a tree's lines, debug and graph
  dumps, and the stack walk of `runtime_gc_poll`.
- The tree builder's methods for types, source ranges and literal values; the
  first fix the shape of the types in `ResolveGlobalType`.
- `TypeContext` under the passes: they compare types as values, while the code
  compares addresses. `CanonicalAddresses` says that this is the same for types
  without an object or enum type in them; for the others it may not be.
- `HeapMapPass` (a recursion over LLVM's layouts that writes nothing yet),
  `PackageInfo` (called by no program; the rest is a JSON library), `parse-tree`
  (parser and printer in sequence), the standard library (RX source).
- The methods for `ForStmt` in the visitor and the printer: the builder never
  makes the node.

## Plan

1. (done) Discovery and the driver; the three passes; first proofs.
2. (done) The tree builder and the printer; `TypeContext`, with proofs; the
   runtime's allocator; discovery and driver in one run.
3. (done) Proofs about every module: the invariants of the three passes, of the
   driver, of the allocator, of the tree builder and the printer, and that equal
   types have one address.
4. (done) `ShapeKept` and `BarsConnect`; `StrayNumbersTyped`; `StopsExplained` of
   `ResolveGlobalType`; `NothingLost`, and from it `OutlineComplete`: every
   invariant of a passing run is now a theorem.

## Running

```
tlc -config Frontend.cfg MCFrontend.tla
tlapm ImportGraphProofs.tla
```

Each `.cfg` belongs to the module in the `runs` of `PROJECT.json`. Every run
ends within about half a minute. Operators whose comment begins with "Mutant" or
"Fault" are deliberate errors that the properties must detect; nothing else uses
them. `PROJECT.json` also maps each definition to the source lines it models.
