---------------------- MODULE ForwardDeclareFunctions ----------------------
(***************************************************************************)
(* The second semantic pass on one translation unit: functions are put in  *)
(* the scope that declares them, the file's or the one of their `impl`     *)
(* block, unless they clash with a declaration of the same name, and the   *)
(* functions of an impl become methods of its named type.                  *)
(*                                                                         *)
(* The first pass has put the types in file scope and given each function  *)
(* its type, or left it unknown.  A function's type is abstracted to its   *)
(* parameter types, the part overloads are told apart by.                  *)
(***************************************************************************)
EXTENDS Naturals, Sequences

CONSTANTS
  Name,       \* identifiers
  Params,     \* lists of parameter types
  Function,   \* function declarations
  TypeDecl,   \* type declarations
  Unknown,    \* the unknown type
  Unnamed,    \* the types that are neither unknown nor named
  Programs    \* the translation units considered

\* An item is a function or an impl of a type, which is written by its name or
\* (aliased) by the name of a `use`.
Item == [impl : BOOLEAN, target : TypeDecl \union {Unknown, Unnamed},
         aliased : BOOLEAN, funcs : Seq(Function)]

\* types: the file's SymbolTable after the first pass.
Program == [name : [Function -> Name],
            params : [Function -> Params \union {Unknown}],
            types : [Name -> Seq(TypeDecl)],
            items : Seq(Item)]

ASSUME ProgramAssumption ==
  /\ Programs \subseteq Program
  /\ Unknown \notin Params \union TypeDecl
  /\ Unnamed \notin TypeDecl \union {Unknown}
  /\ Function \intersect TypeDecl = {}
  /\ \A p \in Programs :
       /\ \A x \in Name : Len(p.types[x]) <= 1
       /\ \A i \in DOMAIN p.items : ~p.items[i].impl => Len(p.items[i].funcs) = 1
       /\ \A i \in DOMAIN p.items : i \notin Function

\* A declaration is at one place of the tree.
ASSUME PlaceAssumption ==
  \A p \in Programs : \A i, j \in DOMAIN p.items :
    \A k \in DOMAIN p.items[i].funcs, l \in DOMAIN p.items[j].funcs :
      p.items[i].funcs[k] = p.items[j].funcs[l] => i = j /\ k = l

VARIABLES
  prog,      \* the translation unit
  phase,     \* "declare", "done", or "assert" once an assertion has failed
  item,      \* the item to visit next, or being visited
  methods,   \* the functions of the impl being visited, still to visit
  table,     \* SymbolTable of each scope: scope -> name -> declarations
  impls,     \* NamedType::Impls of each type
  diags      \* errors emitted, each with the declaration its note shows

vars == <<prog, phase, item, methods, table, impls, diags>>

Decl == Function \union TypeDecl

\* The scope of the file and of each impl, which has the number of its item.
FileScope == 0
Scope == {FileScope} \union DOMAIN prog.items
-----------------------------------------------------------------------------
Init ==
  /\ prog \in Programs
  /\ phase = "declare"
  /\ item = 1
  /\ methods = <<>>
  /\ table = [s \in {FileScope} \union DOMAIN prog.items |->
                IF s = FileScope THEN prog.types ELSE [x \in Name |-> <<>>]]
  /\ impls = [t \in TypeDecl |-> <<>>]
  /\ diags = <<>>

IsFunction(d) == d \in Function

\* What ends the loop over the declarations of f's name at d, if anything.
Clash(d, f) ==
  IF ~IsFunction(d) THEN "symbol"
  ELSE IF prog.params[f] = Unknown THEN "untyped"
  ELSE IF prog.params[d] = Unknown THEN "assert"
  ELSE IF prog.params[d] = prog.params[f] THEN "overload" ELSE "none"

\* The declarations of f's name in scope s.
Existing(s, f) == table[s][prog.name[f]]

\* Mutant: only the last overload is looked at.
ClashesWithLast(s, f) ==
  {k \in DOMAIN Existing(s, f) :
     k = Len(Existing(s, f)) /\ Clash(Existing(s, f)[k], f) # "none"}

\* Those that end the loop.
Clashes(s, f) == {k \in DOMAIN Existing(s, f) : Clash(Existing(s, f)[k], f) # "none"}

IsFirst(k, S) == k \in S /\ \A j \in S : k <= j

\* visit(FuncDecl) without a clash: the function is declared.
Declare(s, f) ==
  /\ Clashes(s, f) = {}
  /\ table' = [table EXCEPT ![s][prog.name[f]] = Append(@, f)]
  /\ UNCHANGED <<phase, diags>>

\* Mutant: the error is emitted, but the function is declared all the same.
RejectAndDeclare(s, f) ==
  /\ Clashes(s, f) # {}
  /\ table' = [table EXCEPT ![s][prog.name[f]] = Append(@, f)]
  /\ diags' = Append(diags, [error |-> "overload", decl |-> f, note |-> Existing(s, f)[1]])
  /\ UNCHANGED phase

\* visit(FuncDecl) that stops at the first clash: with an error, silently when
\* the function's type is unknown, or on assert(BaseFT).
Reject(s, f) ==
  \E k \in DOMAIN Existing(s, f) :
    LET d == Existing(s, f)[k]
        clash == Clash(d, f)
    IN  /\ IsFirst(k, Clashes(s, f))
        /\ phase' = IF clash = "assert" THEN "assert" ELSE phase
        /\ diags' = IF clash \in {"symbol", "overload"}
                    THEN Append(diags, [error |-> clash, decl |-> f, note |-> d]) ELSE diags
        /\ UNCHANGED table

VisitFunction ==
  /\ phase = "declare"
  /\ methods = <<>>
  /\ item \in DOMAIN prog.items
  /\ ~prog.items[item].impl
  /\ \/ Declare(FileScope, Head(prog.items[item].funcs))
     \/ Reject(FileScope, Head(prog.items[item].funcs))
  /\ item' = item + 1
  /\ UNCHANGED <<prog, methods, impls>>

AtImpl ==
  /\ phase = "declare"
  /\ methods = <<>>
  /\ item \in DOMAIN prog.items
  /\ prog.items[item].impl

NextItem == item' = item + 1 /\ UNCHANGED methods

\* Mutant: no return after the error.
SkipImplFallsThrough ==
  /\ AtImpl
  /\ prog.items[item].target \notin TypeDecl
  /\ \/ NextItem
     \/ methods' = prog.items[item].funcs /\ methods' # <<>> /\ UNCHANGED item
  /\ UNCHANGED <<prog, phase, table, impls, diags>>

\* An impl of an unknown type is passed over in silence, one of a type without
\* name with an error.
SkipImpl ==
  /\ AtImpl
  /\ prog.items[item].target \notin TypeDecl
  /\ diags' = IF prog.items[item].target = Unnamed
              THEN Append(diags, [error |-> "impl", decl |-> item, note |-> item]) ELSE diags
  /\ NextItem
  /\ UNCHANGED <<prog, phase, table, impls>>

EnterImpl ==
  /\ AtImpl
  /\ prog.items[item].target \in TypeDecl
  /\ IF prog.items[item].funcs = <<>>
     THEN NextItem
     ELSE methods' = prog.items[item].funcs /\ UNCHANGED item
  /\ UNCHANGED <<prog, phase, table, impls, diags>>

\* TypeContext::addImpl.  Its assertion that the context has the named type cannot
\* fail and is left out: an impl block gets its NamedType from the same context.
AddImpl(t, f) == impls' = [impls EXCEPT ![t] = Append(@, f)]

LeaveMethod ==
  /\ methods' = Tail(methods)
  /\ item' = IF Tail(methods) = <<>> THEN item + 1 ELSE item

\* Mutant: a function becomes a method whether it was declared or not.
VisitMethodAnyway ==
  /\ phase = "declare"
  /\ methods # <<>>
  /\ Declare(item, Head(methods)) \/ Reject(item, Head(methods))
  /\ AddImpl(prog.items[item].target, Head(methods))
  /\ LeaveMethod
  /\ UNCHANGED prog

VisitMethod ==
  /\ phase = "declare"
  /\ methods # <<>>
  /\ \/ Declare(item, Head(methods)) /\ AddImpl(prog.items[item].target, Head(methods))
     \/ Reject(item, Head(methods)) /\ UNCHANGED impls
  /\ LeaveMethod
  /\ UNCHANGED prog

Finish ==
  /\ phase = "declare"
  /\ methods = <<>>
  /\ item \notin DOMAIN prog.items
  /\ phase' = "done"
  /\ UNCHANGED <<prog, item, methods, table, impls, diags>>

Next == VisitFunction \/ SkipImpl \/ EnterImpl \/ VisitMethod \/ Finish

Spec == Init /\ [][Next]_vars
-----------------------------------------------------------------------------
(* Properties.                                                             *)

Error == [error : {"symbol", "overload"}, decl : Function, note : Decl]
           \union [error : {"impl"}, decl : DOMAIN prog.items, note : DOMAIN prog.items]

TypeOK ==
  /\ prog \in Programs
  /\ phase \in {"declare", "assert", "done"}
  /\ item \in 1..(Len(prog.items) + 1)
  /\ methods \in Seq(Function)
  /\ methods # <<>> => /\ item \in DOMAIN prog.items
                       /\ prog.items[item].impl
                       /\ prog.items[item].target \in TypeDecl
  /\ table \in [Scope -> [Name -> Seq(Decl)]]
  /\ impls \in [TypeDecl -> Seq(Function)]
  /\ diags \in Seq(Error)

\* Declarations that share a name in one scope are functions of known types,
\* and no two of them have the same parameter types, so a call can be resolved.
\* In particular a type and a function never share a name, whatever their
\* order in the file.
OverloadsDistinct ==
  \A s \in Scope : \A x \in Name : \A i, j \in DOMAIN table[s][x] :
    i # j => /\ IsFunction(table[s][x][i])
             /\ prog.params[table[s][x][i]] # Unknown
             /\ prog.params[table[s][x][i]] # prog.params[table[s][x][j]]

ImplsOf(t) == {i \in DOMAIN prog.items : prog.items[i].impl /\ prog.items[i].target = t}

\* The methods of a type are the functions declared in the scopes of its impls,
\* those of all its impl blocks and no other.
MethodsAreDeclared ==
  \A t \in TypeDecl : \A f \in Function :
    (\E k \in DOMAIN impls[t] : impls[t][k] = f)
      <=> \E i \in ImplsOf(t) : \E x \in Name : \E k \in DOMAIN table[i][x] : table[i][x][k] = f

Declared(s, f) == \E k \in DOMAIN Existing(s, f) : Existing(s, f)[k] = f
Reported(f) == {k \in DOMAIN diags : diags[k].decl = f}

ScopeOf(i) == IF prog.items[i].impl THEN i ELSE FileScope

\* When the pass is over, a function was declared or reported, once, unless its
\* own type or the type its impl is for has been reported already; the note of
\* a clash shows a declaration of that name that was there before.
EveryFunctionAnswered ==
  phase = "done" =>
    \A i \in DOMAIN prog.items : \A k \in DOMAIN prog.items[i].funcs :
      LET f == prog.items[i].funcs[k]
      IN  IF prog.items[i].impl /\ prog.items[i].target \notin TypeDecl
          THEN /\ ~Declared(i, f) /\ Reported(f) = {}
               /\ (prog.items[i].target = Unnamed <=> Reported(i) # {})
          ELSE /\ Declared(ScopeOf(i), f) => Reported(f) = {}
               /\ ~Declared(ScopeOf(i), f) =>
                    \/ prog.params[f] = Unknown
                    \/ \E r \in DOMAIN diags :
                         /\ Reported(f) = {r}
                         /\ \E m \in DOMAIN Existing(ScopeOf(i), f) :
                              Existing(ScopeOf(i), f)[m] = diags[r].note

\* assert(BaseFT && "Must be a function type"): a function that is compared
\* with has a function type.
ComparedAreTyped == phase # "assert"

=============================================================================
