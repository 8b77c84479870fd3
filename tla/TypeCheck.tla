------------------------------ MODULE TypeCheck ------------------------------
(***************************************************************************)
(* The last semantic pass on one translation unit: TypeCheck, which walks  *)
(* the whole tree (bodies of functions and blocks included), puts the      *)
(* variables and parameters in the scope they are declared in, compares    *)
(* initializers with declared types and gives literals their types.        *)
(*                                                                         *)
(* A numeric literal takes its type from the top of HintStack, on which    *)
(* each initialised declaration pushes its declared type.  How many hints  *)
(* are popped at the end of a declaration is the size the stack had before *)
(* the push, so the stack does not always shrink by one.                   *)
(*                                                                         *)
(* The tree is given flat: nodes are numbered, a node names its children   *)
(* in the order the walk visits them, and a statement that only wraps one  *)
(* child is that child.                                                    *)
(***************************************************************************)
EXTENDS Naturals, Sequences, FiniteSets

CONSTANTS
  Name,      \* identifiers
  Other,     \* types that are not builtin: named types, pointers, ...
  Programs   \* the translation units considered

Integer == {"i1", "i8", "i16", "i32", "i64"}
Floating == {"f32", "f64"}
Builtin == Integer \union Floating \union {"string"}

Unknown == "unknown"
Type == Builtin \union Other \union {Unknown}

\* A declaration without a type.
NoType == "none"

Variable == {"Var", "Param"}

ScopedKinds == {"Program", "Impl", "Func", "Block"}

Fixed == [Bool |-> "i1", Char |-> "i8", Text |-> "string"]

\* "Expr" is any expression whose visit only visits its parts; "Ref" names a
\* declaration; "TypeDecl" is a `type` or a `use`.
Kind == Variable \union ScopedKinds \union DOMAIN Fixed
          \union {"Int", "Float", "Expr", "Ref", "TypeDecl"}

\* A missing child that is visited all the same.
Null == 0
Root == 1

Node == [kind : Kind, name : Name, declared : Type \union {NoType}, kids : Seq(Nat)]

ASSUME ProgramAssumption ==
  /\ Other \intersect (Builtin \union {Unknown, NoType}) = {}
  /\ \A p \in Programs :
       /\ DOMAIN p \subseteq Nat \ {Null}
       /\ \A n \in DOMAIN p : p[n] \in Node
       /\ Root \in DOMAIN p /\ p[Root].kind = "Program"
       /\ \A n \in DOMAIN p : \A k \in DOMAIN p[n].kids :
            \/ p[n].kids[k] = Null
            \/ p[n].kids[k] \in DOMAIN p /\ p[n].kids[k] > n

\* Each node but the root is one kid of one node; literals and names have no
\* kids; and variables stand in a scope, never right in an expression (a branch
\* of an `if` that is no block is given one when the tree is built).
ASSUME TreeAssumption ==
  \A p \in Programs :
    /\ \A n \in DOMAIN p \ {Root} :
         \E q \in DOMAIN p : \E k \in DOMAIN p[q].kids : p[q].kids[k] = n
    /\ \A q, r \in DOMAIN p : \A j \in DOMAIN p[q].kids, k \in DOMAIN p[r].kids :
         p[q].kids[j] = p[r].kids[k] => p[q].kids[j] = Null \/ (q = r /\ j = k)
    /\ \A n \in DOMAIN p :
         /\ p[n].kids # <<>> => p[n].kind \in Variable \union ScopedKinds \union {"Expr"}
         /\ \A k \in DOMAIN p[n].kids :
              p[n].kids[k] # Null /\ p[p[n].kids[k]].kind \in Variable => p[n].kind \in ScopedKinds

\* Nodes are numbered in the order of the walk: a node and all that is below it
\* come before the kid that follows it.
ASSUME OrderAssumption ==
  \A p \in Programs : \A q \in DOMAIN p : \A j, k \in DOMAIN p[q].kids :
    j < k /\ p[q].kids[j] # Null /\ p[q].kids[k] # Null =>
      /\ p[q].kids[j] < p[q].kids[k]
      /\ \A r \in p[q].kids[j]..(p[q].kids[k] - 1) : r \in DOMAIN p =>
           \A i \in DOMAIN p[r].kids : p[r].kids[i] < p[q].kids[k]

VARIABLES
  prog,       \* the translation unit
  phase,      \* "check", "done", or how the process stopped
  todo,       \* the visits that have still to begin or to end, first one first
  scopes,     \* CurrentScope: the scoped nodes being visited, innermost last
  table,      \* the SymbolTable of each scope
  hints,      \* HintStack
  result,     \* what the last visit returned (the top of ResultStack)
  exprType,   \* ExprType of each node
  diags       \* diagnostics emitted, in order: what, and at which node

vars == <<prog, phase, todo, scopes, table, hints, result, exprType, diags>>

ScopeNodes == {n \in DOMAIN prog : prog[n].kind \in ScopedKinds}
Variables == {n \in DOMAIN prog : prog[n].kind \in Variable}

Begin(n) == [op |-> "begin", node |-> n, size |-> 0]
End(n, size) == [op |-> "end", node |-> n, size |-> size]
Visits(kids) == [k \in DOMAIN kids |-> Begin(kids[k])]

\* The top-level declarations of one kind and name, in the order of the file.
OfKind(p, kind, x) ==
  LET before[k \in 0..Len(p[Root].kids)] ==
        IF k = 0 THEN <<>>
        ELSE LET n == p[Root].kids[k]
             IN  IF n # Null /\ p[n].kind = kind /\ p[n].name = x
                 THEN Append(before[k - 1], n) ELSE before[k - 1]
  IN  before[Len(p[Root].kids)]

\* What the passes before have put in the file scope: the first type of the name,
\* with which any function of the name clashes, or else the functions.  Those
\* that clash with an earlier overload are in the list, too, which nobody sees:
\* the first one never does, and the pass looks at no other.
DeclaredBefore(p, x) ==
  LET types == OfKind(p, "TypeDecl", x)
  IN  IF types # <<>> THEN <<types[1]>> ELSE OfKind(p, "Func", x)

Init ==
  /\ prog \in Programs
  /\ phase = "check"
  /\ todo = <<Begin(Root)>>
  /\ scopes = <<>>
  /\ table = [s \in ScopeNodes |-> [x \in Name |-> IF s = Root THEN DeclaredBefore(prog, x)
                                                    ELSE <<>>]]
  /\ hints = <<>>
  /\ result = Unknown
  /\ exprType = [n \in DOMAIN prog |-> Unknown]
  /\ diags = <<>>
-----------------------------------------------------------------------------
Beginning(kinds) ==
  /\ phase = "check"
  /\ todo # <<>>
  /\ Head(todo).op = "begin"
  /\ Head(todo).node # Null
  /\ prog[Head(todo).node].kind \in kinds

Ending(kinds) ==
  /\ phase = "check"
  /\ todo # <<>>
  /\ Head(todo).op = "end"
  /\ prog[Head(todo).node].kind \in kinds

This == Head(todo).node

\* Mutant: declarations in blocks belong to the file.
OutermostScope == scopes[1]

Scope == scopes[Len(scopes)]

Report(what, n) == diags' = Append(diags, <<what, n>>)

Emptied(n) == prog[n].kids = <<>>
-----------------------------------------------------------------------------
(***************************************************************************)
(* What RecursiveASTVisitor does by default.                               *)
(***************************************************************************)
\* Mutant: the scope of a node that already has one is not entered again.
EnterNewScopesOnly ==
  /\ Beginning(ScopedKinds)
  /\ scopes' = IF prog[This].kind = "Block" THEN Append(scopes, This) ELSE scopes
  /\ todo' = Visits(prog[This].kids) \o <<End(This, 0)>> \o Tail(todo)
  /\ result' = Unknown
  /\ UNCHANGED <<prog, phase, table, hints, exprType, diags>>

EnterScope ==
  /\ Beginning(ScopedKinds)
  /\ scopes' = Append(scopes, This)
  /\ todo' = Visits(prog[This].kids) \o <<End(This, 0)>> \o Tail(todo)
  /\ result' = Unknown
  /\ UNCHANGED <<prog, phase, table, hints, exprType, diags>>

LeaveScope ==
  /\ Ending(ScopedKinds)
  /\ scopes' = IF scopes = <<>> THEN scopes ELSE SubSeq(scopes, 1, Len(scopes) - 1)
  /\ todo' = Tail(todo)
  /\ UNCHANGED <<prog, phase, table, hints, result, exprType, diags>>

\* The value of an expression is the value of the part visited last.
VisitParts ==
  /\ Beginning({"Expr"})
  /\ todo' = Visits(prog[This].kids) \o Tail(todo)
  /\ result' = Unknown
  /\ UNCHANGED <<prog, phase, scopes, table, hints, exprType, diags>>

\* A reference to a declaration is not looked up; a type declaration in a
\* block is not recorded.
VisitUntyped ==
  /\ Beginning({"Ref", "TypeDecl"})
  /\ todo' = Tail(todo)
  /\ result' = Unknown
  /\ UNCHANGED <<prog, phase, scopes, table, hints, exprType, diags>>

\* `return` without a value.
VisitNull ==
  /\ phase = "check"
  /\ todo # <<>>
  /\ Head(todo) = Begin(Null)
  /\ phase' = "null"
  /\ UNCHANGED <<prog, todo, scopes, table, hints, result, exprType, diags>>
-----------------------------------------------------------------------------
(***************************************************************************)
(* Variables and parameters.                                               *)
(***************************************************************************)
IsDeclared(x) == table[Scope][x] # <<>>

Drop ==
  /\ todo' = Tail(todo)
  /\ result' = Unknown
  /\ UNCHANGED <<prog, phase, scopes, table, hints, exprType>>

\* checkAndEmitRedeclaration.  Both locations are set on the error, so it is
\* the previous declaration that it points at, and the note at nothing.
RejectRedeclared ==
  /\ Beginning(Variable)
  /\ IsDeclared(prog[This].name)
  /\ diags' = diags \o <<<<"redefinition", table[Scope][prog[This].name][1]>>, <<"previous", Null>>>>
  /\ Drop

RejectBare ==
  /\ Beginning(Variable)
  /\ ~IsDeclared(prog[This].name)
  /\ prog[This].declared = NoType
  /\ Emptied(This)
  /\ Report("untyped", This)
  /\ Drop

\* The declared type was reported as undefined, or was never looked up, as
\* are all types in blocks.
SkipUnknown ==
  /\ Beginning(Variable)
  /\ ~IsDeclared(prog[This].name)
  /\ prog[This].declared = Unknown
  /\ UNCHANGED diags
  /\ Drop

DeclaredType(n) == IF prog[n].declared = NoType THEN Unknown ELSE prog[n].declared

\* Mutant: the size is taken after the push.
PushHintFirst ==
  /\ Beginning(Variable)
  /\ ~IsDeclared(prog[This].name)
  /\ prog[This].declared # Unknown
  /\ ~(prog[This].declared = NoType /\ Emptied(This))
  /\ hints' = Append(hints, DeclaredType(This))
  /\ todo' = Visits(prog[This].kids) \o <<End(This, Len(hints) + 1)>> \o Tail(todo)
  /\ UNCHANGED <<prog, phase, scopes, table, result, exprType, diags>>

\* checkAndDeduceVarInit up to the visit of the initializer.
PushHint ==
  /\ Beginning(Variable)
  /\ ~IsDeclared(prog[This].name)
  /\ prog[This].declared # Unknown
  /\ ~(prog[This].declared = NoType /\ Emptied(This))
  /\ hints' = Append(hints, DeclaredType(This))
  /\ todo' = Visits(prog[This].kids) \o <<End(This, Len(hints))>> \o Tail(todo)
  /\ UNCHANGED <<prog, phase, scopes, table, result, exprType, diags>>

Mismatch(n) ==
  /\ ~Emptied(n)
  /\ DeclaredType(n) \notin {Unknown, result}

VariableType(n) ==
  IF Mismatch(n) THEN Unknown
  ELSE IF DeclaredType(n) = Unknown THEN result ELSE DeclaredType(n)

\* Mutant: a declaration leaves its hint behind.
PoppedNone(size) == hints

\* The destructor of HintCtxExit: pop_back_n of the size before the push.
Popped(size) == SubSeq(hints, 1, Len(hints) - size)

\* Mutant: a variable whose type could not be found is not inserted.
InsertTyped ==
  /\ Ending(Variable)
  /\ diags' = IF Mismatch(This) THEN Append(diags, <<"mismatch", This>>) ELSE diags
  /\ IF Len(hints) < Head(todo).size
     THEN phase' = "underflow" /\ UNCHANGED <<todo, table, hints, result>>
     ELSE /\ todo' = Tail(todo)
          /\ hints' = Popped(Head(todo).size)
          /\ table' = IF VariableType(This) = Unknown THEN table
                      ELSE [table EXCEPT ![Scope][prog[This].name] = Append(@, This)]
          /\ result' = VariableType(This)
          /\ UNCHANGED phase
  /\ UNCHANGED <<prog, scopes, exprType>>

\* The rest of it, the end of HintCtxExit and the insertion.  To pop
\* more hints than there are fails the assertion of pop_back_n.
InsertVariable ==
  /\ Ending(Variable)
  /\ diags' = IF Mismatch(This) THEN Append(diags, <<"mismatch", This>>) ELSE diags
  /\ IF Len(hints) < Head(todo).size
     THEN phase' = "underflow" /\ UNCHANGED <<todo, table, hints, result>>
     ELSE /\ todo' = Tail(todo)
          /\ hints' = Popped(Head(todo).size)
          /\ table' = [table EXCEPT ![Scope][prog[This].name] = Append(@, This)]
          /\ result' = VariableType(This)
          /\ UNCHANGED phase
  /\ UNCHANGED <<prog, scopes, exprType>>
-----------------------------------------------------------------------------
(***************************************************************************)
(* Literals.                                                               *)
(***************************************************************************)
TypeLiteral(t) ==
  /\ todo' = Tail(todo)
  /\ exprType' = [exprType EXCEPT ![This] = t]
  /\ result' = t
  /\ UNCHANGED <<prog, phase, scopes, table, hints>>

VisitFixed ==
  /\ Beginning(DOMAIN Fixed)
  /\ TypeLiteral(Fixed[prog[This].kind])
  /\ UNCHANGED diags

\* deduceNumericType; the i1 of an integer for which i8 is wanted is the code's.
Deduce(kind, t) ==
  IF kind = "Int"
  THEN IF t = "i8" THEN "i1" ELSE IF t \in Integer \union Floating THEN t ELSE Unknown
  ELSE IF t \in Floating THEN t ELSE Unknown

NumberType(kind, hint) ==
  IF hint # Unknown THEN Deduce(kind, hint)
  ELSE IF kind = "Int" THEN "i64" ELSE "f64"

\* Mutant: the first hint is taken, not the last.
VisitNumberFirstHint ==
  /\ Beginning({"Int", "Float"})
  /\ hints # <<>>
  /\ LET t == NumberType(prog[This].kind, hints[1])
     IN  TypeLiteral(t) /\ UNCHANGED diags

VisitNumber ==
  /\ Beginning({"Int", "Float"})
  /\ hints # <<>>
  /\ LET hint == hints[Len(hints)]
         t == NumberType(prog[This].kind, hint)
     IN  /\ TypeLiteral(t)
         /\ IF t = Unknown /\ hint \in Builtin
            THEN Report("undeduced", This)
            ELSE UNCHANGED diags

\* back() of an empty HintStack fails its assertion.
VisitNumberUnhinted ==
  /\ Beginning({"Int", "Float"})
  /\ hints = <<>>
  /\ phase' = "unhinted"
  /\ UNCHANGED <<prog, todo, scopes, table, hints, result, exprType, diags>>

Finish ==
  /\ phase = "check"
  /\ todo = <<>>
  /\ phase' = "done"
  /\ UNCHANGED <<prog, todo, scopes, table, hints, result, exprType, diags>>

Next ==
  \/ EnterScope \/ LeaveScope \/ VisitParts \/ VisitUntyped \/ VisitNull
  \/ RejectRedeclared \/ RejectBare \/ SkipUnknown \/ PushHint \/ InsertVariable
  \/ VisitFixed \/ VisitNumber \/ VisitNumberUnhinted
  \/ Finish

Spec == Init /\ [][Next]_vars
-----------------------------------------------------------------------------
(***************************************************************************)
(* Properties.                                                             *)
(***************************************************************************)
\* Kids have greater numbers than their parents, so `up` ends.
Parent(n) == CHOOSE q \in DOMAIN prog : \E k \in DOMAIN prog[q].kids : prog[q].kids[k] = n

Above ==
  LET up[n \in DOMAIN prog] == IF n = Root THEN {} ELSE {Parent(n)} \union up[Parent(n)]
  IN  up

Enclosing(d) == Above[d] \intersect Variables

\* Every variable of the unit has a value of its type, and whenever a node
\* other than the root is visited there is a current scope to visit it in.
TypeOK ==
  /\ phase \in {"check", "done", "null", "underflow", "unhinted"}
  /\ \A i \in DOMAIN todo :
       /\ todo[i].op \in {"begin", "end"}
       /\ todo[i].node \in DOMAIN prog \union {Null}
       /\ todo[i].size \in Nat
  /\ \A i \in DOMAIN scopes : scopes[i] \in ScopeNodes
  /\ scopes = <<>> => \A i \in DOMAIN todo : todo[i].node = Root
  /\ DOMAIN table = ScopeNodes
  /\ \A s \in ScopeNodes : DOMAIN table[s] = Name
  /\ \A i \in DOMAIN hints : hints[i] \in Type
  /\ result \in Type
  /\ exprType \in [DOMAIN prog -> Type]

\* A variable shares its name with no other declaration of its scope, although
\* the name is looked up before the initializer is visited and inserted after,
\* and blocks of the initializer declare names in between
\* (checkAndEmitRedeclaration, visit(VarDecl), visit(FuncParamDecl)).
NamesDistinct ==
  \A s \in ScopeNodes, x \in Name :
    (\E i \in DOMAIN table[s][x] : table[s][x][i] \in Variables) => Len(table[s][x]) = 1

\* A number in an initializer that declares nothing itself is typed after the
\* variable it initializes, whatever hints earlier or enclosing declarations
\* have left on HintStack (visit(NumLiteral), HintCtxExit).
HintsReachNumbers ==
  \A n \in {m \in DOMAIN prog : prog[m].kind \in {"Int", "Float"} /\ exprType[m] # Unknown} :
    \A d \in Enclosing(n) :
      (\A e \in Variables : d \notin Enclosing(e)) =>
        exprType[n] = NumberType(prog[n].kind, DeclaredType(d))

Nesting(d) == Cardinality(Enclosing(d))

\* The pass stops early only on a `return` without a value, on a number in no
\* initializer, or after a declaration in an initializer in an initializer.  Only
\* the declaration that is left can have caused an underflow, by what it has in
\* its own initializer, and HintStack is empty for a number in an initializer
\* only by what one of the initializers around it has in it: nesting anywhere
\* else in the unit does no harm (HintCtxExit, visit(NumLiteral),
\* visit(ReturnStmt)).
StopsExplained ==
  /\ phase = "null" => \E n \in DOMAIN prog : \E k \in DOMAIN prog[n].kids : prog[n].kids[k] = Null
  /\ phase = "underflow" => \E d \in Variables : Nesting(d) >= 2 /\ This \in Enclosing(d)
  /\ phase = "unhinted" =>
       \/ Enclosing(This) = {}
       \/ \E d \in Variables : Nesting(d) >= 2 /\ Enclosing(d) \intersect Enclosing(This) # {}

ScopeOf(d) ==
  CHOOSE s \in Above[d] \intersect ScopeNodes :
    \A t \in Above[d] \intersect ScopeNodes : t <= s

Inserted(d) == \E i \in DOMAIN table[ScopeOf(d)][prog[d].name] : table[ScopeOf(d)][prog[d].name][i] = d
Reported(what, d) == \E i \in DOMAIN diags : diags[i] = <<what, d>>

\* When the pass is over, each variable is in its scope or was rejected for one
\* of the three reasons, or the variable it would initialise was: nothing is
\* lost in the early returns (visit(VarDecl), visit(FuncParamDecl)).
EveryVariableAnswered ==
  phase = "done" =>
    \A d \in Variables :
      \/ Inserted(d)
      \/ Reported("untyped", d)
      \/ prog[d].declared = Unknown
      \/ \E e \in Enclosing(d) : ~Inserted(e)
      \/ LET decls == table[ScopeOf(d)][prog[d].name]
         IN  decls # <<>> /\ Reported("redefinition", decls[1])

\* A number outside initializers takes its type from the first variable that was
\* checked in the unit, whose hint alone is never popped, and from no later one,
\* as long as no variable is nested in the initializer of another.  (The numbers
\* are in the order of the walk.)  (HintCtxExit, visit(NumLiteral).)
StrayNumbersTyped ==
  (\A d \in Variables : Nesting(d) = 0) =>
    \A n \in {m \in DOMAIN prog : prog[m].kind \in {"Int", "Float"} /\ exprType[m] # Unknown} :
      Enclosing(n) = {} =>
        \E d \in Variables :
          /\ Inserted(d)
          /\ \A e \in Variables : Inserted(e) => d <= e
          /\ exprType[n] = NumberType(prog[n].kind, DeclaredType(d))
=============================================================================
