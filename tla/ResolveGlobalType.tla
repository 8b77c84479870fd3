------------------------- MODULE ResolveGlobalType -------------------------
(***************************************************************************)
(* The first semantic pass on one translation unit, in its three walks:    *)
(*                                                                         *)
(*   ForwardDeclareType   puts type and alias declarations in file scope;  *)
(*   ResolveTypeSymbol    points each type reference at its declaration;   *)
(*   MaterializeType      gives each type node its QualType, following     *)
(*                        aliases (`use`) through their declared types.    *)
(*                                                                         *)
(* The syntax tree is given flat: type nodes are numbered, a node names    *)
(* its children, and the param nodes of a function are shared by its       *)
(* parameters and its function type, as the parser shares them.  Function  *)
(* and impl scopes hold no type names and block bodies are skipped by all  *)
(* three walks, so only the file scope and the global scope matter.  Types *)
(* are values here: TypeContext says where their addresses are as good.    *)
(***************************************************************************)
EXTENDS Naturals, Sequences, FiniteSets

LOCAL INSTANCE SequencesExt

CONSTANTS
  Name,       \* identifiers
  Builtin,    \* those that populateBuiltins puts in the global scope
  Programs,   \* the translation units considered
  MaxDepth    \* nested visits that the process's stack has room for

Kind == {"Ref", "Access", "Qual", "Pointer", "Array", "Func", "Object"}

\* The type of an enum member that has none: a null pointer.
Null == 0

\* A type node: a reference has a symbol and no child; an object or an enum
\* has a name for each child, at least one; the last child of a function is its
\* return type.  Nodes are numbered from the roots down.
TypeNode == [kind : Kind, symbol : Name, kids : Seq(Nat), names : Seq(Name)]

\* A top-level declaration: a `type` or a `use` has a name and one root; the
\* roots of any other one are its types in the order the walks reach them.
Item == [kind : {"Type", "Use", "Plain"}, name : Name, roots : Seq(Nat)]

ASSUME ProgramAssumption ==
  /\ Builtin \subseteq Name
  /\ MaxDepth \in Nat \ {0}
  /\ \A p \in Programs :
       /\ p.items \in Seq(Item)
       /\ IsFiniteSet(DOMAIN p.nodes) /\ DOMAIN p.nodes \subseteq Nat \ {Null}
       /\ \A n \in DOMAIN p.nodes :
            /\ p.nodes[n] \in TypeNode
            /\ p.nodes[n].kind = "Ref" <=> p.nodes[n].kids = <<>>
            /\ \A k \in DOMAIN p.nodes[n].kids :
                 \/ p.nodes[n].kids[k] = Null
                 \/ p.nodes[n].kids[k] \in DOMAIN p.nodes /\ p.nodes[n].kids[k] > n
       /\ \A i \in DOMAIN p.items :
            /\ p.items[i].kind # "Plain" => Len(p.items[i].roots) = 1
            /\ \A k \in DOMAIN p.items[i].roots : p.items[i].roots[k] \in DOMAIN p.nodes

VARIABLES
  prog,       \* the translation unit
  phase,      \* the walk in progress, or how the process stopped
  todo,       \* what the walk has still to visit
  scope,      \* the file scope's SymbolTable: name -> declarations
  declNode,   \* DeclNode of each type reference
  type,       \* QualType of each type node
  stack,      \* active MaterializeType::visit calls: node and kid results
  diags       \* diagnostics emitted, in order

vars == <<prog, phase, todo, scope, declNode, type, stack, diags>>

Node == DOMAIN prog.nodes
Decls == {i \in DOMAIN prog.items : prog.items[i].kind # "Plain"}

(* What a DeclNode may hold: nothing yet (the constructor leaves the member *)
(* uninitialised), a declaration of the file, or a global one.              *)
Indeterminate == <<"indeterminate">>
FileDecl(i) == <<"file", i>>
GlobalDecl(x) == <<"global", x>>

Unset == <<"unset">>
Unknown == <<"unknown">>
-----------------------------------------------------------------------------
Init ==
  /\ prog \in Programs
  /\ phase = "declare"
  /\ todo = [i \in DOMAIN prog.items |-> i]
  /\ scope = [x \in Name |-> <<>>]
  /\ declNode = [n \in DOMAIN prog.nodes |-> Indeterminate]
  /\ type = [n \in DOMAIN prog.nodes |-> Unset]
  /\ stack = <<>>
  /\ diags = <<>>

(***************************************************************************)
(* Walk 1: ForwardDeclareType.                                             *)
(***************************************************************************)
NextItem(kinds) ==
  /\ phase = "declare"
  /\ todo # <<>>
  /\ prog.items[Head(todo)].kind \in kinds
  /\ todo' = Tail(todo)

\* LexicalScope::insert.
Insert(s, x, i) == [s EXCEPT ![x] = Append(@, i)]

\* LexicalScope::getDecls of the scope itself, not of its parents: a global
\* name may be declared again.
IsDeclared(s, x) == s[x] # <<>>

\* Mutant: the early return after the error is missing.
DeclareNameAnyway ==
  /\ NextItem({"Type", "Use"})
  /\ LET i == Head(todo)
         x == prog.items[i].name
     IN  /\ diags' = IF IsDeclared(scope, x)
                     THEN diags \o <<<<"redefinition", i>>, <<"previous", scope[x][1]>>>>
                     ELSE diags
         /\ scope' = Insert(scope, x, i)
  /\ UNCHANGED <<prog, phase, declNode, type, stack>>

DeclareName ==
  /\ NextItem({"Type", "Use"})
  /\ LET i == Head(todo)
         x == prog.items[i].name
     IN  IF IsDeclared(scope, x)
         THEN diags' = diags \o <<<<"redefinition", i>>, <<"previous", scope[x][1]>>>>
              /\ UNCHANGED scope
         ELSE scope' = Insert(scope, x, i) /\ UNCHANGED diags
  /\ UNCHANGED <<prog, phase, declNode, type, stack>>

\* The references (and null pointers) below a node, in the order of the walk.
RefsBelow(p) ==
  LET refs[n \in DOMAIN p.nodes \union {Null}] ==
        IF n = Null \/ p.nodes[n].kind = "Ref" THEN <<n>>
        ELSE FlattenSeq([k \in DOMAIN p.nodes[n].kids |-> refs[p.nodes[n].kids[k]]])
  IN  refs

RefsOf(p, roots) == FlattenSeq([k \in DOMAIN roots |-> RefsBelow(p)[roots[k]]])

Roots(p) == FlattenSeq([i \in DOMAIN p.items |-> p.items[i].roots])

\* Every node is a root or a part of another node.
ASSUME WalkAssumption ==
  \A p \in Programs : \A n \in DOMAIN p.nodes :
    \/ \E i \in DOMAIN p.items : \E k \in DOMAIN p.items[i].roots : p.items[i].roots[k] = n
    \/ \E m \in DOMAIN p.nodes : \E k \in DOMAIN p.nodes[m].kids : p.nodes[m].kids[k] = n

\* Anything else is walked down to its types for nothing.  Visiting a null
\* pointer ends the process.
PassOther ==
  /\ NextItem({"Plain"})
  /\ phase' = IF \E k \in DOMAIN RefsOf(prog, prog.items[Head(todo)].roots) :
                    RefsOf(prog, prog.items[Head(todo)].roots)[k] = Null
              THEN "null" ELSE phase
  /\ UNCHANGED <<prog, scope, declNode, type, stack, diags>>

StartResolve ==
  /\ phase = "declare"
  /\ todo = <<>>
  /\ phase' = "resolve"
  /\ todo' = RefsOf(prog, Roots(prog))
  /\ UNCHANGED <<prog, scope, declNode, type, stack, diags>>

(***************************************************************************)
(* Walk 2: ResolveTypeSymbol.                                              *)
(***************************************************************************)
Symbol(n) == prog.nodes[n].symbol

\* LexicalScope::find, from the inside out.
Find(x) == IF IsDeclared(scope, x) THEN "file"
           ELSE IF x \in Builtin THEN "global" ELSE "nowhere"

NextRef(where) ==
  /\ phase = "resolve"
  /\ todo # <<>>
  /\ Head(todo) # Null
  /\ Find(Symbol(Head(todo))) = where
  /\ todo' = Tail(todo)

\* The default visit of an enum type visits the type of every member.
VisitUntypedMember ==
  /\ phase = "resolve"
  /\ todo # <<>>
  /\ Head(todo) = Null
  /\ phase' = "null"
  /\ UNCHANGED <<prog, todo, scope, declNode, type, stack, diags>>

\* Mutant: a name that was reported is not reported again.
UndefinedRefOnce ==
  /\ NextRef("nowhere")
  /\ diags' = IF \E k \in DOMAIN diags : diags[k][1] = "undefined"
                 /\ Symbol(diags[k][2]) = Symbol(Head(todo))
              THEN diags ELSE Append(diags, <<"undefined", Head(todo)>>)
  /\ UNCHANGED <<prog, phase, scope, declNode, type, stack>>

UndefinedRef ==
  /\ NextRef("nowhere")
  /\ diags' = Append(diags, <<"undefined", Head(todo)>>)
  /\ UNCHANGED <<prog, phase, scope, declNode, type, stack>>

\* The assertion "Ambiguous decl" stops the process unless the scope that
\* holds the name holds one declaration of it.
ResolveInFile ==
  /\ NextRef("file")
  /\ LET ds == scope[Symbol(Head(todo))]
     IN  IF Len(ds) = 1
         THEN declNode' = [declNode EXCEPT ![Head(todo)] = FileDecl(ds[1])] /\ phase' = phase
         ELSE phase' = "ambiguous" /\ UNCHANGED declNode
  /\ UNCHANGED <<prog, scope, type, stack, diags>>

ResolveGlobal ==
  /\ NextRef("global")
  /\ declNode' = [declNode EXCEPT ![Head(todo)] = GlobalDecl(Symbol(Head(todo)))]
  /\ UNCHANGED <<prog, phase, scope, type, stack, diags>>

StartMaterialize ==
  /\ phase = "resolve"
  /\ todo = <<>>
  /\ phase' = "materialize"
  /\ todo' = Roots(prog)
  /\ UNCHANGED <<prog, scope, declNode, type, stack, diags>>

(***************************************************************************)
(* Walk 3: MaterializeType, one frame per active visit.                    *)
(***************************************************************************)
Frame == Last(stack)
IsType(i) == prog.items[i].kind = "Type"

\* Mutant: a reference to a type goes on to its declared type, too.
CalleesThroughTypes(n) ==
  IF prog.nodes[n].kind = "Ref"
  THEN IF declNode[n][1] = "file" THEN prog.items[declNode[n][2]].roots ELSE <<>>
  ELSE prog.nodes[n].kids

\* The nodes a visit of n visits in turn.  A reference to an alias goes on to
\* the declared type of the alias, a reference to a type stops there.
Callees(n) ==
  IF prog.nodes[n].kind = "Ref"
  THEN IF declNode[n][1] = "file" /\ ~IsType(declNode[n][2])
       THEN prog.items[declNode[n][2]].roots
       ELSE <<>>
  ELSE prog.nodes[n].kids

\* The field list keeps the first of several fields with one name.
FirstFields(names, ts) ==
  {<<names[k], ts[k]>> : k \in {j \in DOMAIN ts : \A l \in 1..(j - 1) : names[l] # names[j]}}

RepeatedFields(names) ==
  {k \in DOMAIN names : \E l \in 1..(k - 1) : names[l] = names[k]}

\* The type of n, from the types of its callees: TypeContext::get...Type.
Combine(n, ts) ==
  CASE prog.nodes[n].kind \in {"Ref", "Qual"} -> ts[1]
    [] prog.nodes[n].kind = "Pointer" -> <<"pointer", ts[1]>>
    [] prog.nodes[n].kind = "Array" -> <<"array", ts[1]>>
    [] prog.nodes[n].kind = "Func" -> <<"func", Front(ts), Last(ts)>>
    [] prog.nodes[n].kind = "Object" -> <<"object", FirstFields(prog.nodes[n].names, ts)>>

\* Start the visit of n, or run out of stack.
Push(n) ==
  IF Len(stack) = MaxDepth
  THEN phase' = "overflow" /\ UNCHANGED stack
  ELSE phase' = phase /\ stack' = Append(stack, [node |-> n, results |-> <<>>])

\* Mutant: the visitor leaves the result on its stack.
ReturnUnpopped(T) ==
  stack' = IF Len(stack) = 1 THEN <<>>
           ELSE [Front(stack) EXCEPT ![Len(stack) - 1].results = @ \o <<T, T>>]

\* Return T from the innermost visit to the one that called it.
Return(T) ==
  stack' = IF Len(stack) = 1 THEN <<>>
           ELSE [Front(stack) EXCEPT ![Len(stack) - 1].results = Append(@, T)]

SetType(n, T) == type' = [type EXCEPT ![n] = T]

Materializing == phase = "materialize" /\ stack # <<>>

VisitRoot ==
  /\ phase = "materialize"
  /\ stack = <<>>
  /\ todo # <<>>
  /\ todo' = Tail(todo)
  /\ Push(Head(todo))
  /\ UNCHANGED <<prog, scope, declNode, type, diags>>

VisitNamed ==
  /\ Materializing
  /\ LET n == Frame.node
     IN  /\ prog.nodes[n].kind = "Ref"
         /\ declNode[n][1] = "file"
         /\ IsType(declNode[n][2])
         /\ SetType(n, <<"named", declNode[n][2]>>)
         /\ Return(<<"named", declNode[n][2]>>)
  /\ UNCHANGED <<prog, phase, todo, scope, declNode, diags>>

\* A global name is an alias of a builtin type.  The visit of the alias's own
\* type node, which is no node of the file and answers at once, is part of the
\* step: it would take one more frame, and MaxDepth is any number.
VisitGlobal ==
  /\ Materializing
  /\ LET n == Frame.node
     IN  /\ prog.nodes[n].kind = "Ref"
         /\ declNode[n][1] = "global"
         /\ SetType(n, <<"builtin", declNode[n][2]>>)
         /\ Return(<<"builtin", declNode[n][2]>>)
  /\ UNCHANGED <<prog, phase, todo, scope, declNode, diags>>

\* Without a declaration, `if (!Curr)` reads a member nobody has set: it may
\* be null, for the unknown type, or any other value, which is dereferenced.
VisitUndeclared ==
  /\ Materializing
  /\ prog.nodes[Frame.node].kind = "Ref"
  /\ declNode[Frame.node] = Indeterminate
  /\ \/ Return(Unknown) /\ phase' = phase
     \/ phase' = "wild" /\ UNCHANGED stack
  /\ UNCHANGED <<prog, todo, scope, declNode, type, diags>>

\* Mutant: nothing looks for unknown parts.
NeverBailing == FALSE

\* llvm_unreachable("Not implemented").
VisitAccess ==
  /\ Materializing
  /\ prog.nodes[Frame.node].kind = "Access"
  /\ phase' = "unreachable"
  /\ UNCHANGED <<prog, todo, scope, declNode, type, stack, diags>>

Bailing == Frame.results # <<>> /\ Last(Frame.results) = Unknown
             /\ prog.nodes[Frame.node].kind # "Ref"

\* What is done with the result of a part before the next one is visited: a
\* field that is there already is reported.
TakeResult ==
  diags' = IF Len(Frame.results) \in RepeatedFields(prog.nodes[Frame.node].names)
           THEN Append(diags, <<"duplicate", Frame.node>>) ELSE diags

Descend ==
  /\ Materializing
  /\ prog.nodes[Frame.node].kind # "Access"
  /\ ~Bailing
  /\ Len(Frame.results) < Len(Callees(Frame.node))
  /\ TakeResult
  /\ Push(Callees(Frame.node)[Len(Frame.results) + 1])
  /\ UNCHANGED <<prog, todo, scope, declNode, type>>

\* A part of unknown type makes the whole unknown, at once.
BailOut ==
  /\ Materializing
  /\ Bailing
  /\ Return(Unknown)
  /\ UNCHANGED <<prog, phase, todo, scope, declNode, type, diags>>

Compose ==
  /\ Materializing
  /\ ~Bailing
  /\ LET n == Frame.node
         T == Combine(n, Frame.results)
     IN  /\ Callees(n) # <<>>
         /\ Len(Frame.results) = Len(Callees(n))
         /\ SetType(n, T)
         /\ Return(T)
  /\ TakeResult
  /\ UNCHANGED <<prog, phase, todo, scope, declNode>>

Finish ==
  /\ phase = "materialize"
  /\ stack = <<>>
  /\ todo = <<>>
  /\ phase' = "done"
  /\ UNCHANGED <<prog, todo, scope, declNode, type, stack, diags>>

Next ==
  \/ DeclareName \/ PassOther \/ StartResolve
  \/ UndefinedRef \/ ResolveInFile \/ ResolveGlobal \/ VisitUntypedMember
  \/ StartMaterialize
  \/ VisitRoot \/ VisitNamed \/ VisitGlobal \/ VisitUndeclared \/ VisitAccess
  \/ Descend \/ BailOut \/ Compose \/ Finish

Spec == Init /\ [][Next]_vars /\ WF_vars(Next)

-----------------------------------------------------------------------------
(* Properties.                                                             *)

Tag == {"unset", "unknown", "builtin", "named", "pointer", "array", "func", "object"}

TypeOK ==
  /\ phase \in {"declare", "resolve", "materialize", "done"}
               \union {"ambiguous", "null", "overflow", "wild", "unreachable"}
  /\ \A k \in DOMAIN todo : todo[k] \in Node \union {Null} \union DOMAIN prog.items
  /\ scope \in [Name -> Seq(Decls)]
  /\ \A n \in Node : /\ declNode[n][1] \in {"indeterminate", "file", "global"}
                     /\ type[n][1] \in Tag
  /\ Len(stack) <= MaxDepth
  /\ \A k \in DOMAIN stack : stack[k].node \in Node
                             /\ Len(stack[k].results) <= Len(Callees(stack[k].node))

FirstDecl(x) == {i \in Decls : prog.items[i].name = x /\
                   \A j \in Decls : prog.items[j].name = x => i <= j}

\* A reference means the first declaration of its name in the file, even when
\* it stands before it or when later ones or a builtin have the name, and else
\* the builtin; so the assertion "Ambiguous decl" never fails.
FirstDeclarationWins ==
  /\ phase # "ambiguous"
  /\ \A n \in Node :
       /\ declNode[n][1] = "file" => FirstDecl(Symbol(n)) = {declNode[n][2]}
       /\ declNode[n][1] = "global" =>
            FirstDecl(Symbol(n)) = {} /\ Symbol(n) \in Builtin

\* An alias whose expansion comes back to itself.  Expansion goes through the
\* parts of a type and through aliases, and stops at named and builtin types.
Expands(i) == {j \in Decls : ~IsType(j) /\
                 \E k \in DOMAIN RefsOf(prog, prog.items[i].roots) :
                   LET n == RefsOf(prog, prog.items[i].roots)[k]
                   IN  n # Null /\ FirstDecl(Symbol(n)) = {j}}

AliasCycle ==
  \E C \in SUBSET {i \in Decls : ~IsType(i)} :
    C # {} /\ \A i \in C : Expands(i) \intersect C # {}

\* Why the process stops early.  It runs out of stack only on a cyclic alias: a
\* type that refers to itself through its own name does not recurse, however it
\* is nested, and an acyclic chain of aliases never takes a visit for more nodes
\* than there are.  It follows a wild pointer only after an undefined name was
\* reported, visits a null one only where an enum member has no type, and comes
\* to code that is "not implemented" only at an access type.  The one stop left,
\* the assertion "Ambiguous decl", is excluded by FirstDeclarationWins.
StopsExplained ==
  /\ phase = "overflow" => AliasCycle \/ MaxDepth <= Cardinality(Node)
  /\ phase = "wild" => \E k \in DOMAIN diags : diags[k] = <<"undefined", Frame.node>>
  /\ phase = "null" => \E n \in Node : \E k \in DOMAIN prog.nodes[n].kids :
                         prog.nodes[n].kids[k] = Null
  /\ phase = "unreachable" => prog.nodes[Frame.node].kind = "Access"

Known(n) == type[n] \notin {Unset, Unknown}

\* When the pass ends, a node that has a type has the one its parts and its
\* declaration give it, and they have theirs, although aliases are expanded
\* before the walk comes to their declaration, nodes are visited several times
\* and errors cut visits short (a reference to an alias without type has the
\* unknown one); without undefined names every node has a known type.
TypesConsistent ==
  phase = "done" =>
    /\ \A n \in Node : type[n] # Unset /\ Callees(n) # <<>> =>
         /\ prog.nodes[n].kind # "Ref" => \A k \in DOMAIN Callees(n) : Known(Callees(n)[k])
         /\ type[n] = Combine(n, [k \in DOMAIN Callees(n) |->
                                 IF Known(Callees(n)[k]) THEN type[Callees(n)[k]] ELSE Unknown])
    /\ (\A n \in Node : prog.nodes[n].kind = "Ref" => declNode[n] # Indeterminate)
         => \A n \in Node : Known(n)

\* Once names are resolved, the errors say which declarations were dropped and
\* which references have none: each dropped one exactly once, no other, with the
\* first as its note; and every reference left without a declaration at least
\* once (the param nodes of a function are visited more than once).
ErrorsReported ==
  phase \in {"materialize", "done", "overflow", "wild", "unreachable"} =>
    /\ \A i \in Decls :
         Cardinality({k \in DOMAIN diags : diags[k] = <<"redefinition", i>>})
           = IF FirstDecl(prog.items[i].name) = {i} THEN 0 ELSE 1
    /\ \A k \in DOMAIN diags : diags[k][1] = "redefinition" =>
         /\ diags[k + 1][1] = "previous"
         /\ FirstDecl(prog.items[diags[k][2]].name) = {diags[k + 1][2]}
    /\ \A n \in Node : prog.nodes[n].kind = "Ref" =>
         (declNode[n] = Indeterminate
            <=> \E k \in DOMAIN diags : diags[k] = <<"undefined", n>>)

\* A translation unit of supported types without undefined names and cyclic
\* aliases, recursive through type names or not, is resolved to the end.
Resolvable ==
  /\ ~AliasCycle
  /\ \A n \in Node : prog.nodes[n].kind # "Access"
  /\ \A n \in Node : \A k \in DOMAIN prog.nodes[n].kids : prog.nodes[n].kids[k] # Null
  /\ \A n \in Node : prog.nodes[n].kind = "Ref" =>
       FirstDecl(Symbol(n)) # {} \/ Symbol(n) \in Builtin

Resolves == Resolvable ~> phase = "done"

\* An enum may have members without a type: the grammar has them, the parser
\* builds them, and getTypeName and a test have one.
UntypedMemberAccepted == phase # "null"
=============================================================================
