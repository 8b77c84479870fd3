------------------------ MODULE ForwardDeclareProofs -----------------------
(***************************************************************************)
(* Proofs about the declaration of functions, for every translation unit,  *)
(* however many functions, scopes, types and parameter lists it has.       *)
(***************************************************************************)
EXTENDS ForwardDeclareFunctions, TLAPS

IInv == TypeOK /\ OverloadsDistinct /\ MethodsAreDeclared

LEMMA Appended ==
  ASSUME NEW S, NEW old \in Seq(S), NEW g \in S
  PROVE  /\ DOMAIN Append(old, g) = 1..(Len(old) + 1) /\ DOMAIN old = 1..Len(old) /\ Len(old) \in Nat
         /\ \A k \in 1..Len(old) : Append(old, g)[k] = old[k]
         /\ Append(old, g)[Len(old) + 1] = g
OBVIOUS

\* What a translation unit is made of.
LEMMA ProgramType ==
  ASSUME prog \in Programs
  PROVE  /\ prog.name \in [Function -> Name]
         /\ prog.params \in [Function -> Params \union {Unknown}]
         /\ prog.types \in [Name -> Seq(TypeDecl)]
         /\ \A x \in Name : Len(prog.types[x]) <= 1
         /\ prog.items \in Seq(Item)
         /\ \A i \in DOMAIN prog.items :
              /\ prog.items[i] \in Item
              /\ i # FileScope
              /\ ~prog.items[i].impl => Head(prog.items[i].funcs) \in Function
<1>1. prog \in Program
  BY ProgramAssumption
<1>2. \A i \in DOMAIN prog.items : prog.items[i] \in Item /\ i # FileScope
  BY <1>1 DEF Program, FileScope
<1>3. ASSUME NEW i \in DOMAIN prog.items, ~prog.items[i].impl
      PROVE  Head(prog.items[i].funcs) \in Function
  <2>1. prog.items[i].funcs \in Seq(Function) /\ Len(prog.items[i].funcs) = 1
    BY <1>2, <1>3, ProgramAssumption DEF Item
  <2> QED BY <2>1
<1> QED BY <1>1, <1>2, <1>3, ProgramAssumption DEF Program

\* Where the next item or method is.
LEMMA NextItemType ==
  ASSUME TypeOK, item \in DOMAIN prog.items
  PROVE  item + 1 \in 1..(Len(prog.items) + 1)
BY ProgramType DEF TypeOK

LEMMA MethodType ==
  ASSUME TypeOK, methods # <<>>
  PROVE  /\ Head(methods) \in Function
         /\ Tail(methods) \in Seq(Function)
         /\ item \in DOMAIN prog.items
         /\ item \in Scope /\ item # FileScope
         /\ prog.items[item].impl
         /\ prog.items[item].target \in TypeDecl
BY ProgramType DEF TypeOK, Scope

\* A declared function has no clash with the earlier ones of its name.
LEMMA DeclareStep ==
  ASSUME TypeOK, OverloadsDistinct, prog' = prog,
         NEW s \in Scope, NEW f \in Function, Declare(s, f)
  PROVE  /\ table' \in [Scope -> [Name -> Seq(Decl)]]
         /\ OverloadsDistinct'
         /\ \A r \in Scope, x \in Name : r # s \/ x # prog.name[f] => table'[r][x] = table[r][x]
         /\ table'[s][prog.name[f]] = Append(table[s][prog.name[f]], f)
<1> DEFINE x0 == prog.name[f]
<1>1. x0 \in Name /\ table \in [Scope -> [Name -> Seq(Decl)]]
  BY ProgramType DEF TypeOK
<1>2. f \in Decl /\ table[s][x0] \in Seq(Decl)
  BY <1>1 DEF Decl
<1>3. table' = [table EXCEPT ![s][x0] = Append(table[s][x0], f)]
  BY DEF Declare
<1>4. /\ table' \in [Scope -> [Name -> Seq(Decl)]]
      /\ \A r \in Scope, x \in Name : r # s \/ x # x0 => table'[r][x] = table[r][x]
      /\ table'[s][x0] = Append(table[s][x0], f)
  <2>1. Append(table[s][x0], f) \in Seq(Decl)
    BY <1>2
  <2> QED BY <1>1, <1>3, <2>1
<1>5. ASSUME NEW k \in DOMAIN table[s][x0]
      PROVE  /\ IsFunction(table[s][x0][k])
             /\ prog.params[f] # Unknown
             /\ prog.params[table[s][x0][k]] # Unknown
             /\ prog.params[table[s][x0][k]] # prog.params[f]
  <2>1. Clash(table[s][x0][k], f) = "none"
    BY DEF Declare, Clashes, Existing
  <2> QED BY <2>1 DEF Clash
<1>6. OverloadsDistinct'
  <2> SUFFICES ASSUME NEW r \in Scope, NEW x \in Name,
                      NEW i \in DOMAIN table'[r][x], NEW j \in DOMAIN table'[r][x], i # j
               PROVE  /\ IsFunction(table'[r][x][i])
                      /\ prog.params[table'[r][x][i]] # Unknown
                      /\ prog.params[table'[r][x][i]] # prog.params[table'[r][x][j]]
    BY DEF OverloadsDistinct, Scope
  <2>1. CASE r # s \/ x # x0
    BY <1>4, <2>1 DEF OverloadsDistinct
  <2>2. CASE r = s /\ x = x0
    <3> DEFINE old == table[s][x0]
    <3>1. table'[r][x] = Append(old, f) /\ old \in Seq(Decl)
      BY <1>2, <1>4, <2>2
    <3>2. /\ DOMAIN Append(old, f) = 1..(Len(old) + 1) /\ DOMAIN old = 1..Len(old)
          /\ \A k \in DOMAIN old : Append(old, f)[k] = old[k]
          /\ Append(old, f)[Len(old) + 1] = f
      <4> HIDE DEF old
      <4> QED BY <1>2, <3>1, Appended
    <3>3. \A k \in DOMAIN old : Append(old, f)[k] = old[k]
      BY <3>2
    <3>4. Append(old, f)[Len(old) + 1] = f
      BY <3>2
    <3>5. CASE i \in DOMAIN old /\ j \in DOMAIN old
      BY <2>2, <3>1, <3>3, <3>5 DEF OverloadsDistinct
    <3>6. CASE i \in DOMAIN old /\ j = Len(old) + 1
      BY <1>5, <2>2, <3>1, <3>3, <3>4, <3>6
    <3>7. CASE i = Len(old) + 1 /\ j \in DOMAIN old
      BY <1>5, <2>2, <3>1, <3>3, <3>4, <3>7 DEF IsFunction
    <3> HIDE DEF old
    <3>8. i \in 1..(Len(old) + 1) /\ j \in 1..(Len(old) + 1)
      BY <3>1, <3>2
    <3>9. Len(old) \in Nat
      BY <3>1
    <3> QED BY <3>2, <3>5, <3>6, <3>7, <3>8, <3>9
  <2> QED BY <2>1, <2>2
<1> QED BY <1>4, <1>6

\* A rejected function changes no table; the error notes a declaration.
LEMMA RejectStep ==
  ASSUME TypeOK, OverloadsDistinct, prog' = prog,
         NEW s \in Scope, NEW f \in Function, Reject(s, f)
  PROVE  /\ table' = table
         /\ phase' \in {phase, "assert"}
         /\ diags' \in Seq(Error)
         /\ OverloadsDistinct'
<1>1. PICK k \in DOMAIN Existing(s, f) :
        /\ phase' = IF Clash(Existing(s, f)[k], f) = "assert" THEN "assert" ELSE phase
        /\ diags' = IF Clash(Existing(s, f)[k], f) \in {"symbol", "overload"}
                    THEN Append(diags, [error |-> Clash(Existing(s, f)[k], f), decl |-> f,
                                        note |-> Existing(s, f)[k]])
                    ELSE diags
        /\ table' = table
  BY DEF Reject
<1>2. Existing(s, f)[k] \in Decl
  <2>1. table[s][prog.name[f]] \in Seq(Decl)
    BY ProgramType DEF TypeOK
  <2> QED BY <2>1 DEF Existing
<1>3. diags' \in Seq(Error)
  <2>1. CASE Clash(Existing(s, f)[k], f) \in {"symbol", "overload"}
    <3>1. [error |-> Clash(Existing(s, f)[k], f), decl |-> f, note |-> Existing(s, f)[k]] \in Error
      BY <1>2, <2>1 DEF Error
    <3> QED BY <1>1, <2>1, <3>1 DEF TypeOK
  <2>2. CASE Clash(Existing(s, f)[k], f) \notin {"symbol", "overload"}
    BY <1>1, <2>2 DEF TypeOK
  <2> QED BY <2>1, <2>2
<1>4. OverloadsDistinct'
  BY <1>1 DEF OverloadsDistinct, Scope
<1> QED BY <1>1, <1>3, <1>4

-----------------------------------------------------------------------------
(* The method tables.                                                      *)

Holds(seq, f) == \E k \in DOMAIN seq : seq[k] = f

LEMMA HoldsAppend ==
  ASSUME NEW S, NEW seq \in Seq(S), NEW f \in S, NEW g
  PROVE  Holds(Append(seq, f), g) <=> (g = f \/ Holds(seq, g))
<1>1. DOMAIN Append(seq, f) = 1..(Len(seq) + 1) /\ DOMAIN seq = 1..Len(seq) /\ Len(seq) \in Nat
  OBVIOUS
<1>2. \A k \in DOMAIN seq : Append(seq, f)[k] = seq[k]
  OBVIOUS
<1>3. Append(seq, f)[Len(seq) + 1] = f
  OBVIOUS
<1>4. \A k \in 1..(Len(seq) + 1) : k \in 1..Len(seq) \/ k = Len(seq) + 1
  BY <1>1
<1>5. 1..Len(seq) \subseteq 1..(Len(seq) + 1) /\ Len(seq) + 1 \in 1..(Len(seq) + 1)
  BY <1>1
<1> QED BY <1>1, <1>2, <1>3, <1>4, <1>5 DEF Holds

\* A function declared in the scope of an impl is added to its type.
LEMMA MethodStep ==
  ASSUME IInv, prog' = prog, methods # <<>>,
         Declare(item, Head(methods)), AddImpl(prog.items[item].target, Head(methods))
  PROVE  impls' \in [TypeDecl -> Seq(Function)] /\ MethodsAreDeclared'
<1> DEFINE f == Head(methods)
           t0 == prog.items[item].target
           x0 == prog.name[f]
<1> USE DEF IInv
<1>1. /\ f \in Function /\ item \in DOMAIN prog.items /\ item \in Scope
      /\ prog.items[item].impl /\ t0 \in TypeDecl /\ x0 \in Name
  BY MethodType, ProgramType DEF TypeOK
<1>2. /\ \A r \in Scope, x \in Name : r # item \/ x # x0 => table'[r][x] = table[r][x]
      /\ table'[item][x0] = Append(table[item][x0], f)
  BY <1>1, DeclareStep
<1>3. /\ impls' \in [TypeDecl -> Seq(Function)]
      /\ \A t \in TypeDecl : t # t0 => impls'[t] = impls[t]
      /\ impls'[t0] = Append(impls[t0], f)
  <2>1. impls \in [TypeDecl -> Seq(Function)] /\ Append(impls[t0], f) \in Seq(Function)
    BY <1>1 DEF TypeOK
  <2> QED BY <1>1, <2>1 DEF AddImpl
<1>4. \A t \in TypeDecl : ImplsOf(t)' = ImplsOf(t) /\ ImplsOf(t) \subseteq Scope
  BY DEF ImplsOf, Scope
<1>5. item \in ImplsOf(t0) /\ \A t \in TypeDecl : item \in ImplsOf(t) => t = t0
  BY <1>1 DEF ImplsOf
<1>6. ASSUME NEW g \in Function
      PROVE  /\ Holds(impls'[t0], g) <=> (g = f \/ Holds(impls[t0], g))
             /\ Holds(table'[item][x0], g) <=> (g = f \/ Holds(table[item][x0], g))
  <2>1. impls[t0] \in Seq(Function) /\ table[item][x0] \in Seq(Decl) /\ f \in Decl
    BY <1>1 DEF TypeOK, Decl
  <2>2. Holds(Append(impls[t0], f), g) <=> (g = f \/ Holds(impls[t0], g))
    BY <1>1, <2>1, HoldsAppend
  <2>3. Holds(Append(table[item][x0], f), g) <=> (g = f \/ Holds(table[item][x0], g))
    BY <2>1, HoldsAppend
  <2> QED BY <1>2, <1>3, <2>2, <2>3
<1>7. \A t \in TypeDecl, g \in Function :
        Holds(impls[t], g) <=> \E i \in ImplsOf(t) : \E x \in Name : Holds(table[i][x], g)
  BY DEF MethodsAreDeclared, Holds
<1> HIDE DEF f, t0, x0
<1>8. ASSUME NEW t \in TypeDecl, NEW g \in Function
      PROVE  Holds(impls'[t], g)
               <=> \E i \in ImplsOf(t) : \E x \in Name : Holds(table'[i][x], g)
  <2>1. CASE t # t0
    <3>1. \A i \in ImplsOf(t), x \in Name : table'[i][x] = table[i][x]
      BY <1>2, <1>4, <1>5, <2>1
    <3> QED BY <1>3, <1>7, <2>1, <3>1
  <2>2. CASE t = t0 /\ g # f
    <3>1. \A i \in ImplsOf(t), x \in Name : Holds(table'[i][x], g) <=> Holds(table[i][x], g)
      BY <1>2, <1>4, <1>6, <2>2
    <3> QED BY <1>6, <1>7, <2>2, <3>1
  <2>3. CASE t = t0 /\ g = f
    BY <1>1, <1>5, <1>6, <2>3
  <2> QED BY <2>1, <2>2, <2>3
<1>9. MethodsAreDeclared'
  BY <1>4, <1>8 DEF MethodsAreDeclared, Holds
<1> QED BY <1>3, <1>9

\* Where only the file's scope changes, or none, the methods stay as they are.
LEMMA MethodsKept ==
  ASSUME IInv, prog' = prog, impls' = impls,
         \A i \in DOMAIN prog.items, x \in Name : table'[i][x] = table[i][x]
  PROVE  MethodsAreDeclared'
<1>1. \A t \in TypeDecl : ImplsOf(t)' = ImplsOf(t) /\ ImplsOf(t) \subseteq DOMAIN prog.items
  BY DEF ImplsOf
<1> QED BY <1>1 DEF IInv, MethodsAreDeclared

-----------------------------------------------------------------------------
(* The inductive invariant.                                                *)

LEMMA ShortListsDistinct ==
  ASSUME \A s \in Scope, x \in Name : table[s][x] \in Seq(Decl) /\ Len(table[s][x]) <= 1
  PROVE  OverloadsDistinct
<1>1. ASSUME NEW s \in Scope, NEW x \in Name,
             NEW i \in DOMAIN table[s][x], NEW j \in DOMAIN table[s][x]
      PROVE  i = j
  <2>1. table[s][x] \in Seq(Decl) /\ Len(table[s][x]) <= 1
    OBVIOUS
  <2>2. i \in 1..Len(table[s][x]) /\ j \in 1..Len(table[s][x]) /\ Len(table[s][x]) \in Nat
    BY <2>1
  <2> QED BY <2>1, <2>2
<1> QED BY <1>1 DEF OverloadsDistinct

LEMMA NoMethodsYet ==
  ASSUME \A i \in DOMAIN prog.items, x \in Name : table[i][x] = <<>>,
         \A t \in TypeDecl : impls[t] = <<>>
  PROVE  MethodsAreDeclared
<1>1. \A k : k \notin DOMAIN <<>>
  OBVIOUS
<1>2. \A t \in TypeDecl : \A i \in ImplsOf(t) : i \in DOMAIN prog.items
  BY DEF ImplsOf
<1> QED BY <1>1, <1>2 DEF MethodsAreDeclared

LEMMA InitIInv == Init => IInv
<1> SUFFICES ASSUME Init PROVE IInv
  OBVIOUS
<1> USE DEF Init
<1>1. \A s \in Scope, x \in Name :
        table[s][x] \in Seq(Decl) /\ Len(table[s][x]) <= 1 /\ (s # FileScope => table[s][x] = <<>>)
  <2> SUFFICES ASSUME NEW s \in Scope, NEW x \in Name
               PROVE  /\ table[s][x] \in Seq(Decl) /\ Len(table[s][x]) <= 1
                      /\ s # FileScope => table[s][x] = <<>>
    OBVIOUS
  <2>1. table[s] = IF s = FileScope THEN prog.types ELSE [y \in Name |-> <<>>]
    BY DEF Scope
  <2>2. prog.types[x] \in Seq(TypeDecl) /\ Len(prog.types[x]) <= 1
    BY ProgramType
  <2>3. prog.types[x] \in Seq(Decl)
    BY <2>2 DEF Decl
  <2>4. CASE s = FileScope
    BY <2>1, <2>2, <2>3, <2>4
  <2>5. CASE s # FileScope
    <3>1. table[s][x] = <<>>
      BY <2>1, <2>5
    <3>2. <<>> \in Seq(Decl) /\ Len(<<>>) <= 1
      OBVIOUS
    <3> QED BY <3>1, <3>2
  <2> QED BY <2>4, <2>5
<1>2. TypeOK
  <2>1. Len(prog.items) \in Nat /\ 1 \in 1..(Len(prog.items) + 1)
    BY ProgramType
  <2>2. table \in [Scope -> [Name -> Seq(Decl)]]
    BY <1>1, ProgramType DEF Scope
  <2> QED BY <2>1, <2>2 DEF TypeOK
<1>3. OverloadsDistinct
  <2>1. \A s \in Scope, x \in Name : table[s][x] \in Seq(Decl) /\ Len(table[s][x]) <= 1
    BY <1>1
  <2> QED BY <2>1, ShortListsDistinct
<1>4. MethodsAreDeclared
  <2>1. \A i \in DOMAIN prog.items : i \in Scope /\ i # FileScope
    BY ProgramType DEF Scope
  <2>2. \A i \in DOMAIN prog.items, x \in Name : table[i][x] = <<>>
    BY <1>1, <2>1
  <2>3. \A t \in TypeDecl : impls[t] = <<>>
    OBVIOUS
  <2> QED BY <2>2, <2>3, NoMethodsYet
<1> QED BY <1>2, <1>3, <1>4 DEF IInv

LEMMA StepIInv == IInv /\ [Next]_vars => IInv'
<1> SUFFICES ASSUME IInv, [Next]_vars PROVE IInv'
  OBVIOUS
<1> USE DEF IInv
<1>1. CASE VisitFunction
  <2> DEFINE f == Head(prog.items[item].funcs)
  <2> USE <1>1 DEF VisitFunction
  <2>1. f \in Function /\ FileScope \in Scope /\ \A i \in DOMAIN prog.items : i # FileScope
    BY ProgramType DEF TypeOK, Scope
  <2>2. item' \in 1..(Len(prog'.items) + 1) /\ prog' = prog /\ impls' = impls /\ methods' = <<>>
    BY NextItemType
  <2>3. CASE Declare(FileScope, f)
    <3>1. /\ table' \in [Scope -> [Name -> Seq(Decl)]] /\ OverloadsDistinct'
          /\ \A i \in DOMAIN prog.items, x \in Name : table'[i][x] = table[i][x]
      <4>1. /\ table' \in [Scope -> [Name -> Seq(Decl)]] /\ OverloadsDistinct'
            /\ \A r \in Scope, x \in Name : r # FileScope => table'[r][x] = table[r][x]
        BY <2>1, <2>2, <2>3, DeclareStep
      <4> QED BY <2>1, <4>1 DEF Scope
    <3>2. TypeOK'
      BY <2>2, <2>3, <3>1 DEF Declare, TypeOK, Scope, Error
    <3> QED BY <2>2, <3>1, <3>2, MethodsKept
  <2>4. CASE Reject(FileScope, f)
    <3>1. table' = table /\ phase' \in {phase, "assert"} /\ diags' \in Seq(Error) /\ OverloadsDistinct'
      BY <2>1, <2>2, <2>4, RejectStep
    <3>2. TypeOK'
      BY <2>2, <3>1 DEF TypeOK, Scope, Error
    <3> QED BY <2>2, <3>1, <3>2, MethodsKept
  <2> QED BY <2>3, <2>4
<1>2. CASE SkipImpl
  <2> USE <1>2 DEF SkipImpl, AtImpl, NextItem
  <2>1. [error |-> "impl", decl |-> item, note |-> item] \in Error
    BY DEF Error
  <2>2. diags' \in Seq(Error)
    BY <2>1 DEF TypeOK
  <2>3. TypeOK'
    BY <2>2, NextItemType DEF TypeOK, Scope, Error
  <2>4. OverloadsDistinct'
    BY DEF OverloadsDistinct, Scope
  <2> QED BY <2>3, <2>4, MethodsKept
<1>3. CASE EnterImpl
  <2> USE <1>3 DEF EnterImpl, AtImpl, NextItem
  <2>1. prog.items[item].funcs \in Seq(Function)
    BY ProgramType DEF TypeOK, Item
  <2>2. TypeOK'
    BY <2>1, NextItemType DEF TypeOK, Scope, Error
  <2>3. OverloadsDistinct'
    BY DEF OverloadsDistinct, Scope
  <2> QED BY <2>2, <2>3, MethodsKept
<1>4. CASE VisitMethod
  <2> DEFINE f == Head(methods)
  <2> USE <1>4 DEF VisitMethod
  <2>1. /\ f \in Function /\ item \in Scope /\ item \in DOMAIN prog.items
        /\ prog.items[item].impl /\ prog.items[item].target \in TypeDecl
        /\ Tail(methods) \in Seq(Function) /\ prog' = prog
    BY MethodType
  <2>2. /\ methods' \in Seq(Function) /\ item' \in 1..(Len(prog.items) + 1)
        /\ methods' # <<>> => item' = item
    BY <2>1, NextItemType DEF LeaveMethod, TypeOK
  <2>3. CASE Declare(item, f) /\ AddImpl(prog.items[item].target, f)
    <3>1. table' \in [Scope -> [Name -> Seq(Decl)]] /\ OverloadsDistinct'
      BY <2>1, <2>3, DeclareStep
    <3>2. impls' \in [TypeDecl -> Seq(Function)] /\ MethodsAreDeclared'
      BY <2>1, <2>3, MethodStep
    <3>3. TypeOK'
      BY <2>1, <2>2, <2>3, <3>1, <3>2 DEF Declare, TypeOK, Scope, Error
    <3> QED BY <3>1, <3>2, <3>3
  <2>4. CASE Reject(item, f) /\ UNCHANGED impls
    <3>1. table' = table /\ phase' \in {phase, "assert"} /\ diags' \in Seq(Error) /\ OverloadsDistinct'
      BY <2>1, <2>4, RejectStep
    <3>2. TypeOK'
      BY <2>1, <2>2, <2>4, <3>1 DEF TypeOK, Scope, Error
    <3> QED BY <2>1, <2>4, <3>1, <3>2, MethodsKept
  <2> QED BY <2>3, <2>4
<1>5. CASE Finish
  <2> USE <1>5 DEF Finish
  <2>1. TypeOK'
    BY DEF TypeOK, Scope, Error
  <2>2. OverloadsDistinct'
    BY DEF OverloadsDistinct, Scope
  <2> QED BY <2>1, <2>2, MethodsKept
<1>6. CASE UNCHANGED vars
  <2> USE <1>6 DEF vars
  <2>1. TypeOK'
    BY DEF TypeOK, Scope, Error
  <2>2. OverloadsDistinct'
    BY DEF OverloadsDistinct, Scope
  <2> QED BY <2>1, <2>2, MethodsKept
<1> QED BY <1>1, <1>2, <1>3, <1>4, <1>5, <1>6 DEF Next

THEOREM Invariance == Spec => []IInv
<1> QED BY InitIInv, StepIInv, PTL DEF Spec

\* The scopes, method tables and diagnostics keep their types.
THEOREM TypeCorrect == Spec => []TypeOK
<1>1. IInv => TypeOK
  BY DEF IInv
<1> QED BY <1>1, Invariance, PTL

\* In a scope, two functions of one name always have different, known parameter
\* types, and no function has the name of a type: visit(FuncDecl) compares with
\* every earlier overload.
THEOREM OverloadsAreDistinct == Spec => []OverloadsDistinct
<1>1. IInv => OverloadsDistinct
  BY DEF IInv
<1> QED BY <1>1, Invariance, PTL

\* TypeContext::addImpl and LexicalScope::insert agree: the methods of a type
\* are the functions its impl blocks declared.
THEOREM MethodTables == Spec => []MethodsAreDeclared
<1>1. IInv => MethodsAreDeclared
  BY DEF IInv
<1> QED BY <1>1, Invariance, PTL

-----------------------------------------------------------------------------
(* Every function is answered for.                                         *)

\* `methods` is the end of the functions of the impl being visited.
MethodsAreEnd ==
  methods # <<>> =>
    /\ Len(methods) <= Len(prog.items[item].funcs)
    /\ \A j \in 1..Len(methods) :
         methods[j] = prog.items[item].funcs[Len(prog.items[item].funcs) - Len(methods) + j]

\* The k-th function of item i has been visited, or passed over with its impl.
Visited(i, k) ==
  \/ i < item
  \/ i = item /\ methods # <<>> /\ k <= Len(prog.items[item].funcs) - Len(methods)

\* The answer that EveryFunctionAnswered asks for the function f of item i.
Answered(i, f) ==
  IF prog.items[i].impl /\ prog.items[i].target \notin TypeDecl
  THEN /\ ~Declared(i, f) /\ Reported(f) = {}
       /\ (prog.items[i].target = Unnamed <=> Reported(i) # {})
  ELSE /\ Declared(ScopeOf(i), f) => Reported(f) = {}
       /\ ~Declared(ScopeOf(i), f) =>
            \/ prog.params[f] = Unknown
            \/ \E r \in DOMAIN diags :
                 /\ Reported(f) = {r}
                 /\ \E m \in DOMAIN Existing(ScopeOf(i), f) :
                      Existing(ScopeOf(i), f)[m] = diags[r].note

\* A function whose turn has not come is in no scope and no error.
Untouched(f) == (\A s \in Scope : ~Declared(s, f)) /\ Reported(f) = {}

\* The functions visited are answered, the others are in no scope and no error,
\* and no impl to come is in an error.
PlacesInv ==
  /\ \A i \in DOMAIN prog.items : \A k \in DOMAIN prog.items[i].funcs :
       IF Visited(i, k) THEN Answered(i, prog.items[i].funcs[k])
                        ELSE Untouched(prog.items[i].funcs[k])
  /\ \A i \in DOMAIN prog.items : i >= item => Reported(i) = {}

AnswersInv ==
  /\ MethodsAreEnd
  /\ phase = "done" => item = Len(prog.items) + 1
  /\ phase # "assert" => PlacesInv

LEMMA FuncsType ==
  ASSUME prog \in Programs, NEW i \in DOMAIN prog.items
  PROVE  /\ i \in Nat \ {0} /\ i \notin Function /\ i \in Scope /\ ScopeOf(i) \in Scope
         /\ prog.items[i].funcs \in Seq(Function)
         /\ \A k \in DOMAIN prog.items[i].funcs : prog.items[i].funcs[k] \in Function
         /\ ~prog.items[i].impl => DOMAIN prog.items[i].funcs = {1}
<1>1. prog.items[i].funcs \in Seq(Function) /\ i \in Nat \ {0}
  BY ProgramType DEF Item
<1>2. i \notin Function /\ (~prog.items[i].impl => Len(prog.items[i].funcs) = 1)
  BY ProgramAssumption
<1>3. DOMAIN prog.items[i].funcs = 1..Len(prog.items[i].funcs)
  BY <1>1
<1>4. ~prog.items[i].impl => DOMAIN prog.items[i].funcs = {1}
  <2>1. \A n : n = 1 => 1..n = {1}
    OBVIOUS
  <2> QED BY <1>2, <1>3, <2>1
<1> QED BY <1>1, <1>2, <1>4 DEF Scope, ScopeOf

LEMMA InitAnswers == Init => AnswersInv
<1> SUFFICES ASSUME Init PROVE AnswersInv
  OBVIOUS
<1>1. prog \in Programs /\ methods = <<>> /\ item = 1 /\ phase = "declare" /\ diags = <<>>
  BY DEF Init
<1>2. \A x : Reported(x) = {}
  BY <1>1 DEF Reported
<1>3. ASSUME NEW f \in Function, NEW s \in Scope PROVE ~Declared(s, f)
  <2>1. prog.name[f] \in Name /\ prog.types[prog.name[f]] \in Seq(TypeDecl)
    BY <1>1, ProgramType
  <2>2. Existing(s, f) = IF s = FileScope THEN prog.types[prog.name[f]] ELSE <<>>
    BY <2>1 DEF Init, Existing, Scope
  <2>3. \A k \in DOMAIN Existing(s, f) : Existing(s, f)[k] \in TypeDecl
    BY <2>1, <2>2
  <2> QED BY <2>3, ProgramAssumption DEF Declared
<1>4. \A i \in DOMAIN prog.items : \A k : ~Visited(i, k)
  BY <1>1, FuncsType DEF Visited
<1>5. \A i \in DOMAIN prog.items : \A k \in DOMAIN prog.items[i].funcs : Untouched(prog.items[i].funcs[k])
  BY <1>1, <1>2, <1>3, FuncsType DEF Untouched
<1> QED BY <1>1, <1>2, <1>4, <1>5 DEF AnswersInv, PlacesInv, MethodsAreEnd

LEMMA UpToNext ==
  ASSUME NEW n \in Nat
  PROVE  \A k : k \in 1..(n + 1) <=> k \in 1..n \/ k = n + 1
OBVIOUS

\* Declaring g adds it to one list and leaves the other functions where they are.
LEMMA OthersDeclared ==
  ASSUME TypeOK, OverloadsDistinct, prog' = prog,
         NEW s \in Scope, NEW g \in Function, Declare(s, g)
  PROVE  /\ Declared(s, g)'
         /\ \A f \in Function, r \in Scope :
              /\ f # g => (Declared(r, f)' <=> Declared(r, f))
              /\ \A m \in DOMAIN Existing(r, f) :
                   m \in DOMAIN Existing(r, f)' /\ Existing(r, f)'[m] = Existing(r, f)[m]
<1> PICK x0, old : x0 = prog.name[g] /\ old = table[s][prog.name[g]]
  OBVIOUS
<1>1. /\ \A r \in Scope, x \in Name : r # s \/ x # x0 => table'[r][x] = table[r][x]
      /\ table'[s][x0] = Append(old, g) /\ old = table[s][x0]
  BY DeclareStep
<1>2. /\ old \in Seq(Decl) /\ g \in Decl /\ x0 \in Name
  BY ProgramType DEF TypeOK, Decl
<1>3. /\ DOMAIN Append(old, g) = 1..(Len(old) + 1) /\ DOMAIN old = 1..Len(old) /\ Len(old) \in Nat
      /\ \A k \in 1..Len(old) : Append(old, g)[k] = old[k]
      /\ Append(old, g)[Len(old) + 1] = g
  BY <1>2, Appended
<1>4. \A k : k \in 1..(Len(old) + 1) <=> k \in 1..Len(old) \/ k = Len(old) + 1
  BY <1>3, UpToNext
<1>5. Declared(s, g)'
  <2>1. Existing(s, g)' = Append(old, g) /\ Len(old) + 1 \in DOMAIN Append(old, g)
    BY <1>1, <1>3, <1>4 DEF Existing
  <2> QED BY <1>3, <2>1 DEF Declared
<1>6. ASSUME NEW f \in Function, NEW r \in Scope
      PROVE  /\ f # g => (Declared(r, f)' <=> Declared(r, f))
             /\ \A m \in DOMAIN Existing(r, f) :
                  m \in DOMAIN Existing(r, f)' /\ Existing(r, f)'[m] = Existing(r, f)[m]
  <2>0. prog.name[f] \in Name /\ prog'.name[f] = prog.name[f]
    BY ProgramType DEF TypeOK
  <2>1. CASE r # s \/ prog.name[f] # x0
    <3>1. Existing(r, f)' = Existing(r, f)
      BY <1>1, <2>0, <2>1 DEF Existing
    <3> QED BY <3>1 DEF Declared
  <2>2. CASE r = s /\ prog.name[f] = x0
    <3>1. Existing(r, f)' = Append(old, g) /\ Existing(r, f) = old
      BY <1>1, <2>0, <2>2 DEF Existing
    <3>2. f # g => (Declared(r, f)' <=> Declared(r, f))
      BY <1>3, <1>4, <3>1 DEF Declared
    <3> QED BY <1>3, <1>4, <3>1, <3>2
  <2> QED BY <2>1, <2>2
<1> QED BY <1>5, <1>6

\* One more error is counted for its declaration only.
LEMMA OneMoreError ==
  ASSUME TypeOK, NEW e \in Error, diags' = Append(diags, e)
  PROVE  /\ \A x : x # e.decl => Reported(x)' = Reported(x)
         /\ Reported(e.decl)' = Reported(e.decl) \union {Len(diags) + 1}
         /\ Len(diags) + 1 \in DOMAIN diags' /\ diags'[Len(diags) + 1] = e
         /\ \A r \in DOMAIN diags : r \in DOMAIN diags' /\ diags'[r] = diags[r]
<1> PICK D, S : D = diags /\ S = Error
  OBVIOUS
<1>1. D \in Seq(S) /\ e \in S
  BY DEF TypeOK
<1>2. /\ DOMAIN Append(D, e) = 1..(Len(D) + 1) /\ DOMAIN D = 1..Len(D) /\ Len(D) \in Nat
      /\ \A k \in 1..Len(D) : Append(D, e)[k] = D[k]
      /\ Append(D, e)[Len(D) + 1] = e
  BY <1>1
<1>3. \A k : k \in 1..(Len(D) + 1) <=> k \in 1..Len(D) \/ k = Len(D) + 1
  BY <1>2, UpToNext
<1>4. \A x : Reported(x) = {k \in DOMAIN D : D[k].decl = x}
  BY DEF Reported
<1>5. \A x : Reported(x)' = {k \in DOMAIN Append(D, e) : Append(D, e)[k].decl = x}
  BY DEF Reported
<1>6. \A x : x # e.decl => Reported(x)' = Reported(x)
  BY <1>2, <1>3, <1>4, <1>5
<1>7. Reported(e.decl)' = Reported(e.decl) \union {Len(D) + 1}
  BY <1>2, <1>3, <1>4, <1>5
<1> QED BY <1>2, <1>3, <1>6, <1>7

\* What a rejection does: which declaration stopped it, and how.
LEMMA Rejection ==
  ASSUME TypeOK, NEW s \in Scope, NEW f \in Function, Reject(s, f)
  PROVE  /\ table' = table
         /\ \/ phase' = "assert"
            \/ phase' = phase /\ diags' = diags /\ prog.params[f] = Unknown
            \/ /\ phase' = phase
               /\ \E e \in Error : /\ diags' = Append(diags, e) /\ e.decl = f
                                   /\ \E m \in DOMAIN Existing(s, f) : Existing(s, f)[m] = e.note
<1>1. PICK k \in DOMAIN Existing(s, f) :
        /\ k \in Clashes(s, f)
        /\ phase' = IF Clash(Existing(s, f)[k], f) = "assert" THEN "assert" ELSE phase
        /\ diags' = IF Clash(Existing(s, f)[k], f) \in {"symbol", "overload"}
                    THEN Append(diags, [error |-> Clash(Existing(s, f)[k], f), decl |-> f,
                                        note |-> Existing(s, f)[k]])
                    ELSE diags
        /\ table' = table
  BY DEF Reject, IsFirst
<1> PICK c, d : c = Clash(Existing(s, f)[k], f) /\ d = Existing(s, f)[k]
  OBVIOUS
<1>2. d \in Decl
  <2>1. table[s][prog.name[f]] \in Seq(Decl)
    BY ProgramType DEF TypeOK
  <2> QED BY <2>1 DEF Existing
<1>3. /\ c \in {"symbol", "untyped", "assert", "overload", "none"} /\ c # "none"
      /\ c = "untyped" => prog.params[f] = Unknown
  BY <1>1 DEF Clash, Clashes
<1>4. CASE c \in {"symbol", "overload"}
  <2>1. PICK e : e = [error |-> c, decl |-> f, note |-> d]
    OBVIOUS
  <2>2. e \in Error /\ e.decl = f /\ e.note = d
    BY <1>2, <1>4, <2>1 DEF Error
  <2>3. diags' = Append(diags, e) /\ phase' = phase
    BY <1>1, <1>4, <2>1
  <2> QED BY <1>1, <2>2, <2>3
<1>5. CASE c = "untyped"
  BY <1>1, <1>3, <1>5
<1>6. CASE c = "assert"
  BY <1>1, <1>6
<1> QED BY <1>3, <1>4, <1>5, <1>6

\* The visit of one function leaves the answers of the others as they are.
LEMMA OthersAnswered ==
  ASSUME TypeOK, OverloadsDistinct, prog' = prog, phase' # "assert",
         NEW s \in Scope, NEW g \in Function, Declare(s, g) \/ Reject(s, g)
  PROVE  /\ \A f \in Function : f # g /\ Untouched(f) => Untouched(f)'
         /\ \A i \in DOMAIN prog.items :
              /\ Reported(i)' = Reported(i)
              /\ \A f \in Function : f # g /\ Answered(i, f) => Answered(i, f)'
<1>1. \A x : x # g => Reported(x)' = Reported(x)
  <2>1. CASE diags' = diags
    BY <2>1 DEF Reported
  <2>2. CASE diags' # diags
    <3>1. \E e \in Error : diags' = Append(diags, e) /\ e.decl = g
      BY <2>2, Rejection DEF Declare
    <3> QED BY <3>1, OneMoreError
  <2> QED BY <2>1, <2>2
<1>2. \A r \in DOMAIN diags : r \in DOMAIN diags' /\ diags'[r] = diags[r]
  <2>1. CASE diags' = diags
    BY <2>1
  <2>2. CASE diags' # diags
    <3>1. \E e \in Error : diags' = Append(diags, e) /\ e.decl = g
      BY <2>2, Rejection DEF Declare
    <3> QED BY <3>1, OneMoreError
  <2> QED BY <2>1, <2>2
<1>3. \A f \in Function, r \in Scope :
        /\ f # g => (Declared(r, f)' <=> Declared(r, f))
        /\ \A m \in DOMAIN Existing(r, f) :
             m \in DOMAIN Existing(r, f)' /\ Existing(r, f)'[m] = Existing(r, f)[m]
  <2>1. CASE Declare(s, g)
    BY <2>1, OthersDeclared
  <2>2. CASE Reject(s, g)
    <3>1. table' = table
      BY <2>2, Rejection
    <3>2. \A f, r : Existing(r, f)' = Existing(r, f)
      BY <3>1 DEF Existing
    <3> QED BY <3>2 DEF Declared
  <2> QED BY <2>1, <2>2
<1>4. ASSUME NEW f \in Function, f # g, Untouched(f) PROVE Untouched(f)'
  <2>1. Scope' = Scope
    BY DEF Scope
  <2> QED BY <1>1, <1>3, <1>4, <2>1 DEF Untouched
<1>5. ASSUME NEW i \in DOMAIN prog.items
      PROVE  /\ Reported(i)' = Reported(i)
             /\ \A f \in Function : f # g /\ Answered(i, f) => Answered(i, f)'
  <2>1. i # g /\ i \in Scope /\ ScopeOf(i) \in Scope /\ ScopeOf(i)' = ScopeOf(i)
    BY FuncsType DEF ScopeOf, TypeOK
  <2>2. Reported(i)' = Reported(i)
    BY <1>1, <2>1
  <2> SUFFICES ASSUME NEW f \in Function, f # g, Answered(i, f) PROVE Answered(i, f)'
    BY <2>2
  <2>3. Reported(f)' = Reported(f)
    BY <1>1
  <2>4. (Declared(i, f)' <=> Declared(i, f)) /\ (Declared(ScopeOf(i), f)' <=> Declared(ScopeOf(i), f))
    BY <1>3, <2>1
  <2>5. CASE prog.items[i].impl /\ prog.items[i].target \notin TypeDecl
    BY <2>2, <2>3, <2>4, <2>5 DEF Answered
  <2>6. CASE ~(prog.items[i].impl /\ prog.items[i].target \notin TypeDecl)
    <3>1. CASE Declared(ScopeOf(i), f)
      BY <2>3, <2>4, <2>6, <3>1 DEF Answered
    <3>2. CASE ~Declared(ScopeOf(i), f) /\ prog.params[f] = Unknown
      BY <2>4, <2>6, <3>2 DEF Answered
    <3>3. CASE ~Declared(ScopeOf(i), f) /\ prog.params[f] # Unknown
      <4>1. PICK r \in DOMAIN diags :
              /\ Reported(f) = {r}
              /\ \E m \in DOMAIN Existing(ScopeOf(i), f) : Existing(ScopeOf(i), f)[m] = diags[r].note
        BY <2>6, <3>3 DEF Answered
      <4>2. PICK m \in DOMAIN Existing(ScopeOf(i), f) : Existing(ScopeOf(i), f)[m] = diags[r].note
        BY <4>1
      <4>3. r \in DOMAIN diags' /\ diags'[r] = diags[r]
        BY <1>2
      <4>4. m \in DOMAIN Existing(ScopeOf(i), f)' /\ Existing(ScopeOf(i), f)'[m] = Existing(ScopeOf(i), f)[m]
        <5>1. PICK q : q = ScopeOf(i)
          OBVIOUS
        <5>2. Existing(ScopeOf(i), f)' = Existing(q, f)' /\ q \in Scope
          BY <2>1, <5>1 DEF Existing
        <5> QED BY <1>3, <5>1, <5>2
      <4>5. \E n \in DOMAIN Existing(ScopeOf(i), f)' : Existing(ScopeOf(i), f)'[n] = diags'[r].note
        BY <4>2, <4>3, <4>4
      <4>6. ~Declared(ScopeOf(i), f)' /\ Reported(f)' = {r}
        BY <2>3, <2>4, <3>3, <4>1
      <4> QED BY <2>6, <4>3, <4>5, <4>6 DEF Answered
    <3> QED BY <3>1, <3>2, <3>3
  <2> QED BY <2>5, <2>6
<1> QED BY <1>4, <1>5

\* The visit of a function answers it.
LEMMA VisitedAnswered ==
  ASSUME TypeOK, OverloadsDistinct, prog' = prog, phase' # "assert",
         NEW s \in Scope, NEW g \in Function, Declare(s, g) \/ Reject(s, g), Untouched(g),
         NEW i \in DOMAIN prog.items, ScopeOf(i) = s,
         ~(prog.items[i].impl /\ prog.items[i].target \notin TypeDecl)
  PROVE  Answered(i, g)'
<1>1. ScopeOf(i)' = s /\ ~(prog'.items[i].impl /\ prog'.items[i].target \notin TypeDecl)
  BY DEF ScopeOf
<1>2. CASE Declare(s, g)
  <2>1. diags' = diags
    BY <1>2 DEF Declare
  <2>2. Reported(g)' = {}
    BY <2>1 DEF Reported, Untouched
  <2>3. Declared(s, g)'
    BY <1>2, OthersDeclared
  <2>4. Declared(ScopeOf(i), g)' = Declared(s, g)'
    BY <1>1 DEF Declared, Existing
  <2> QED BY <1>1, <2>2, <2>3, <2>4 DEF Answered
<1>3. CASE Reject(s, g)
  <2>1. table' = table
    BY <1>3, Rejection
  <2>2. Existing(ScopeOf(i), g)' = Existing(s, g)
    BY <1>1, <2>1 DEF Existing
  <2>3. ~Declared(ScopeOf(i), g)'
    BY <2>2 DEF Declared, Untouched
  <2>4. CASE prog.params[g] = Unknown
    BY <1>1, <2>3, <2>4 DEF Answered
  <2>5. CASE prog.params[g] # Unknown
    <3>1. PICK e \in Error : /\ diags' = Append(diags, e) /\ e.decl = g
                             /\ \E m \in DOMAIN Existing(s, g) : Existing(s, g)[m] = e.note
      BY <1>3, <2>5, Rejection
    <3>2. PICK r : r = Len(diags) + 1
      OBVIOUS
    <3>3. r \in DOMAIN diags' /\ diags'[r] = e /\ Reported(g)' = {r}
      BY <3>1, <3>2, OneMoreError DEF Untouched
    <3>4. \E m \in DOMAIN Existing(ScopeOf(i), g)' : Existing(ScopeOf(i), g)'[m] = diags'[r].note
      BY <2>2, <3>1, <3>3
    <3> QED BY <1>1, <2>3, <3>3, <3>4 DEF Answered
  <2> QED BY <2>4, <2>5
<1> QED BY <1>2, <1>3

\* The places after the visit of the k0-th function of `item`, when only that
\* place becomes a visited one.
LEMMA PlacesAnswered ==
  ASSUME TypeOK, OverloadsDistinct, AnswersInv, prog' = prog, phase' # "assert", phase = "declare",
         item \in DOMAIN prog.items, NEW k0 \in DOMAIN prog.items[item].funcs,
         ~Visited(item, k0),
         ~(prog.items[item].impl /\ prog.items[item].target \notin TypeDecl),
         NEW g, g = prog.items[item].funcs[k0],
         Declare(ScopeOf(item), g) \/ Reject(ScopeOf(item), g),
         item' \in Nat, item' >= item,
         \A i \in DOMAIN prog.items : \A k \in DOMAIN prog.items[i].funcs :
           Visited(i, k)' <=> Visited(i, k) \/ (i = item /\ k = k0)
  PROVE  /\ \A i \in DOMAIN prog.items : \A k \in DOMAIN prog.items[i].funcs :
              IF Visited(i, k)' THEN Answered(i, prog.items[i].funcs[k])'
                                ELSE Untouched(prog.items[i].funcs[k])'
         /\ \A i \in DOMAIN prog.items : i >= item' => Reported(i)' = {}
<1>0. prog \in Programs /\ item \in Nat /\ phase # "assert"
  BY DEF TypeOK
<1>1. g \in Function /\ ScopeOf(item) \in Scope
  BY <1>0, FuncsType
<1>2. Untouched(g)
  BY <1>0 DEF AnswersInv, PlacesInv
<1>3. /\ \A f \in Function : f # g /\ Untouched(f) => Untouched(f)'
      /\ \A i \in DOMAIN prog.items :
           /\ Reported(i)' = Reported(i)
           /\ \A f \in Function : f # g /\ Answered(i, f) => Answered(i, f)'
  BY <1>1, OthersAnswered
<1>4. PICK j : j = item
  OBVIOUS
<1>5. Answered(j, g)'
  BY <1>1, <1>2, <1>4, VisitedAnswered
<1>6. ASSUME NEW i \in DOMAIN prog.items, NEW k \in DOMAIN prog.items[i].funcs, ~(i = j /\ k = k0)
      PROVE  prog.items[i].funcs[k] \in Function /\ prog.items[i].funcs[k] # g
  <2>1. prog.items[i].funcs[k] = prog.items[j].funcs[k0] => i = j /\ k = k0
    BY <1>0, <1>4, PlaceAssumption
  <2> QED BY <1>0, <1>4, <1>6, <2>1, FuncsType
<1>7. ASSUME NEW i \in DOMAIN prog.items, NEW k \in DOMAIN prog.items[i].funcs
      PROVE  IF Visited(i, k)' THEN Answered(i, prog.items[i].funcs[k])'
                               ELSE Untouched(prog.items[i].funcs[k])'
  <2>1. PICK f : f = prog.items[i].funcs[k]
    OBVIOUS
  <2>2. Answered(i, prog.items[i].funcs[k])' = Answered(i, f)' /\ Untouched(prog.items[i].funcs[k])' = Untouched(f)'
    BY <2>1 DEF Answered, Untouched, Declared, Existing, Reported
  <2>3. CASE i = j /\ k = k0
    <3>1. Visited(i, k)' /\ f = g
      BY <1>4, <2>1, <2>3
    <3> QED BY <1>5, <2>2, <2>3, <3>1
  <2>4. CASE ~(i = j /\ k = k0)
    <3>1. f \in Function /\ f # g
      BY <1>6, <2>1, <2>4
    <3>2. Visited(i, k)' <=> Visited(i, k)
      BY <1>4, <2>4
    <3>3. IF Visited(i, k) THEN Answered(i, f) ELSE Untouched(f)
      BY <1>0, <2>1 DEF AnswersInv, PlacesInv
    <3> QED BY <1>3, <2>2, <3>1, <3>2, <3>3
  <2> QED BY <2>3, <2>4
<1>8. ASSUME NEW i \in DOMAIN prog.items, i >= item' PROVE Reported(i)' = {}
  <2>1. i >= item
    BY <1>0, <1>8, FuncsType
  <2> QED BY <1>0, <1>3, <2>1 DEF AnswersInv, PlacesInv
<1> QED BY <1>7, <1>8

\* Where no function is visited and no error is emitted, nothing changes.
LEMMA PlacesKept ==
  ASSUME TypeOK, AnswersInv, prog' = prog, phase # "assert", UNCHANGED <<table, diags>>,
         item' \in Nat, item' >= item,
         \A i \in DOMAIN prog.items : \A k \in DOMAIN prog.items[i].funcs :
           Visited(i, k)' <=> Visited(i, k)
  PROVE  /\ \A i \in DOMAIN prog.items : \A k \in DOMAIN prog.items[i].funcs :
              IF Visited(i, k)' THEN Answered(i, prog.items[i].funcs[k])'
                                ELSE Untouched(prog.items[i].funcs[k])'
         /\ \A i \in DOMAIN prog.items : i >= item' => Reported(i)' = {}
<1>1. /\ \A i, f : Answered(i, f)' <=> Answered(i, f)
      /\ \A f : Untouched(f)' <=> Untouched(f)
      /\ \A x : Reported(x)' = Reported(x)
  BY DEF Answered, Untouched, Declared, Existing, Reported, ScopeOf, Scope
<1>2. ASSUME NEW i \in DOMAIN prog.items, NEW k \in DOMAIN prog.items[i].funcs
      PROVE  IF Visited(i, k)' THEN Answered(i, prog.items[i].funcs[k])'
                               ELSE Untouched(prog.items[i].funcs[k])'
  <2>1. PICK f : f = prog.items[i].funcs[k]
    OBVIOUS
  <2>2. Answered(i, prog.items[i].funcs[k])' = Answered(i, f)' /\ Untouched(prog.items[i].funcs[k])' = Untouched(f)'
    BY <2>1 DEF Answered, Untouched, Declared, Existing, Reported
  <2>3. IF Visited(i, k) THEN Answered(i, f) ELSE Untouched(f)
    BY <2>1 DEF AnswersInv, PlacesInv
  <2> QED BY <1>1, <2>2, <2>3
<1>3. ASSUME NEW i \in DOMAIN prog.items, i >= item' PROVE Reported(i)' = {}
  <2>1. i >= item
    BY <1>3, FuncsType DEF TypeOK
  <2> QED BY <1>1, <2>1 DEF AnswersInv, PlacesInv
<1> QED BY <1>2, <1>3

\* An error about an item leaves the answers for the functions of other items.
LEMMA OtherItemsAnswered ==
  ASSUME prog \in Programs, prog' = prog, table' = table, NEW j, j \notin Function,
         \A x : x # j => Reported(x)' = Reported(x),
         \A r \in DOMAIN diags : r \in DOMAIN diags' /\ diags'[r] = diags[r]
  PROVE  /\ \A f \in Function : Untouched(f) => Untouched(f)'
         /\ \A i \in DOMAIN prog.items : i # j =>
              \A f \in Function : Answered(i, f) => Answered(i, f)'
<1>1. \A s, f : Existing(s, f)' = Existing(s, f)
  BY DEF Existing
<1>2. \A s, f : Declared(s, f)' <=> Declared(s, f)
  BY <1>1 DEF Declared
<1>3. \A f \in Function : Reported(f)' = Reported(f)
  BY Zenon
<1>4. ASSUME NEW f \in Function, Untouched(f) PROVE Untouched(f)'
  BY <1>2, <1>3, <1>4 DEF Untouched, Scope
<1>5. ASSUME NEW i \in DOMAIN prog.items, i # j, NEW f \in Function, Answered(i, f)
      PROVE  Answered(i, f)'
  <2>1. Reported(i)' = Reported(i) /\ Reported(f)' = Reported(f)
    BY <1>3, <1>5
  <2>2. PICK q : q = ScopeOf(i)
    OBVIOUS
  <2>3. ScopeOf(i)' = q
    BY <2>2 DEF ScopeOf
  <2>4. CASE prog.items[i].impl /\ prog.items[i].target \notin TypeDecl
    BY <1>2, <1>5, <2>1, <2>4 DEF Answered
  <2>5. CASE ~(prog.items[i].impl /\ prog.items[i].target \notin TypeDecl)
    <3>1. CASE Declared(q, f)
      <4>1. Declared(ScopeOf(i), f)' = Declared(q, f)'
        BY <2>3 DEF Declared, Existing
      <4> QED BY <1>2, <1>5, <2>1, <2>2, <2>5, <3>1, <4>1 DEF Answered
    <3>2. CASE ~Declared(q, f)
      <4>1. ~Declared(ScopeOf(i), f)'
        <5>1. Declared(ScopeOf(i), f)' = Declared(q, f)'
          BY <2>3 DEF Declared, Existing
        <5> QED BY <1>2, <3>2, <5>1
      <4>2. CASE prog.params[f] = Unknown
        BY <2>5, <4>1, <4>2 DEF Answered
      <4>3. CASE prog.params[f] # Unknown
        <5>1. PICK r \in DOMAIN diags :
                /\ Reported(f) = {r}
                /\ \E m \in DOMAIN Existing(q, f) : Existing(q, f)[m] = diags[r].note
          BY <1>5, <2>2, <2>5, <3>2, <4>3 DEF Answered
        <5>2. r \in DOMAIN diags' /\ diags'[r] = diags[r] /\ Reported(f)' = {r}
          BY <2>1, <5>1
        <5>3. Existing(ScopeOf(i), f)' = Existing(q, f)
          BY <2>3 DEF Existing
        <5>4. \E m \in DOMAIN Existing(ScopeOf(i), f)' :
                Existing(ScopeOf(i), f)'[m] = diags'[r].note
          BY <5>1, <5>2, <5>3
        <5> QED BY <2>5, <4>1, <5>2, <5>4 DEF Answered
      <4> QED BY <4>2, <4>3
    <3> QED BY <3>1, <3>2
  <2> QED BY <2>4, <2>5
<1> QED BY <1>4, <1>5

\* An impl that is passed over: its functions are answered by the error, if
\* any, about the impl.
LEMMA PlacesSkipped ==
  ASSUME TypeOK, AnswersInv, SkipImpl
  PROVE  /\ \A i \in DOMAIN prog.items : \A k \in DOMAIN prog.items[i].funcs :
              IF Visited(i, k)' THEN Answered(i, prog.items[i].funcs[k])'
                                ELSE Untouched(prog.items[i].funcs[k])'
         /\ \A i \in DOMAIN prog.items : i >= item' => Reported(i)' = {}
<1>0. PICK j : j = item
  OBVIOUS
<1>1. /\ prog \in Programs /\ prog' = prog /\ phase = "declare" /\ methods = <<>> /\ methods' = <<>>
      /\ j \in DOMAIN prog.items /\ prog.items[j].impl /\ prog.items[j].target \notin TypeDecl
      /\ item' = j + 1 /\ table' = table /\ j \in Nat /\ j \notin Function
  BY <1>0, FuncsType DEF SkipImpl, AtImpl, NextItem, TypeOK
<1>2. /\ \A x : x # j => Reported(x)' = Reported(x)
      /\ \A r \in DOMAIN diags : r \in DOMAIN diags' /\ diags'[r] = diags[r]
      /\ prog.items[j].target = Unnamed <=> Reported(j)' # {}
  <2>1. Reported(j) = {}
    BY <1>0, <1>1 DEF AnswersInv, PlacesInv
  <2>2. CASE prog.items[j].target = Unnamed
    <3>1. PICK e : e = [error |-> "impl", decl |-> j, note |-> j]
      OBVIOUS
    <3>2. e \in Error /\ e.decl = j /\ diags' = Append(diags, e)
      BY <1>0, <1>1, <2>2, <3>1 DEF Error, SkipImpl
    <3>3. \A x : x # j => Reported(x)' = Reported(x)
      BY <3>2, OneMoreError
    <3>4. Reported(j)' = Reported(j) \union {Len(diags) + 1}
      BY <3>2, OneMoreError
    <3>5. \A r \in DOMAIN diags : r \in DOMAIN diags' /\ diags'[r] = diags[r]
      BY <3>2, OneMoreError
    <3> QED BY <2>2, <3>3, <3>4, <3>5
  <2>3. CASE prog.items[j].target # Unnamed
    <3>1. diags' = diags
      BY <1>0, <1>1, <2>3 DEF SkipImpl
    <3>2. \A x : Reported(x)' = Reported(x)
      BY <3>1 DEF Reported
    <3> QED BY <2>1, <2>3, <3>1, <3>2
  <2> QED BY <2>2, <2>3
<1>3. /\ \A f \in Function : Untouched(f) => Untouched(f)'
      /\ \A i \in DOMAIN prog.items : i # j =>
           \A f \in Function : Answered(i, f) => Answered(i, f)'
  BY <1>1, <1>2, OtherItemsAnswered
<1>4. ASSUME NEW i \in DOMAIN prog.items, NEW k \in DOMAIN prog.items[i].funcs
      PROVE  IF Visited(i, k)' THEN Answered(i, prog.items[i].funcs[k])'
                               ELSE Untouched(prog.items[i].funcs[k])'
  <2>1. PICK f : f = prog.items[i].funcs[k]
    OBVIOUS
  <2>2. Answered(i, prog.items[i].funcs[k])' = Answered(i, f)' /\ Untouched(prog.items[i].funcs[k])' = Untouched(f)'
    BY <1>1, <2>1 DEF Answered, Untouched, Declared, Existing, Reported
  <2>3. f \in Function /\ i \in Nat
    BY <1>1, <2>1, FuncsType
  <2>4. /\ Visited(i, k) <=> i < j
        /\ Visited(i, k)' <=> i < j + 1
    BY <1>0, <1>1 DEF Visited
  <2>5. IF Visited(i, k) THEN Answered(i, f) ELSE Untouched(f)
    BY <1>1, <2>1 DEF AnswersInv, PlacesInv
  <2>6. CASE i = j
    <3>1. Visited(i, k)'
      BY <1>1, <2>4, <2>6
    <3>2. Untouched(f)
      BY <1>1, <2>4, <2>5, <2>6
    <3>3. ~Declared(i, f)' /\ Reported(f)' = {}
      BY <1>1, <1>3, <2>3, <2>6, <3>2 DEF Untouched, Scope
    <3>4. prog.items[i].target = Unnamed <=> Reported(i)' # {}
      BY <1>2, <2>6 DEF Reported
    <3>5. Answered(i, f)'
      BY <1>1, <2>6, <3>3, <3>4 DEF Answered
    <3> QED BY <2>2, <3>1, <3>5
  <2>7. CASE i # j
    <3>1. Visited(i, k)' <=> Visited(i, k)
      BY <1>1, <2>3, <2>4, <2>7
    <3> QED BY <1>3, <2>2, <2>3, <2>5, <2>7, <3>1
  <2> QED BY <2>6, <2>7
<1>5. ASSUME NEW i \in DOMAIN prog.items, i >= item' PROVE Reported(i)' = {}
  <2>1. i \in Nat /\ i # j /\ i >= item
    BY <1>0, <1>1, <1>5, FuncsType
  <2> QED BY <1>1, <1>2, <2>1 DEF AnswersInv, PlacesInv
<1> QED BY <1>4, <1>5


LEMMA FunctionPlaces ==
  ASSUME TypeOK, OverloadsDistinct, AnswersInv, VisitFunction, phase' # "assert"
  PROVE  PlacesInv'
<1>0. PICK j, g : j = item /\ g = prog.items[j].funcs[1]
  OBVIOUS
<1>1. /\ prog \in Programs /\ prog' = prog /\ phase = "declare" /\ methods = <<>> /\ methods' = <<>>
      /\ j \in DOMAIN prog.items /\ ~prog.items[j].impl /\ item' = j + 1
      /\ Declare(FileScope, Head(prog.items[j].funcs)) \/ Reject(FileScope, Head(prog.items[j].funcs))
  BY <1>0 DEF VisitFunction, TypeOK
<1>2. /\ j \in Nat /\ DOMAIN prog.items[j].funcs = {1} /\ \A i \in DOMAIN prog.items : i \in Nat
  BY <1>1, FuncsType
<1>3. Head(prog.items[j].funcs) = g
  <2>1. prog.items[j].funcs \in Seq(Function) /\ 1 \in DOMAIN prog.items[j].funcs
    BY <1>1, <1>2, FuncsType
  <2> QED BY <1>0, <2>1
<1>4. ScopeOf(item) = FileScope
  BY <1>0, <1>1 DEF ScopeOf
<1>5. \A i \in DOMAIN prog.items : \A k \in DOMAIN prog.items[i].funcs :
        Visited(i, k)' <=> Visited(i, k) \/ (i = item /\ k = 1)
  <2> SUFFICES ASSUME NEW i \in DOMAIN prog.items, NEW k \in DOMAIN prog.items[i].funcs
               PROVE  Visited(i, k)' <=> Visited(i, k) \/ (i = item /\ k = 1)
    OBVIOUS
  <2>1. (Visited(i, k) <=> i < j) /\ (Visited(i, k)' <=> i < j + 1)
    BY <1>0, <1>1 DEF Visited
  <2>2. i = j => k = 1
    BY <1>2
  <2> QED BY <1>0, <1>2, <2>1, <2>2
<1>6. ~Visited(item, 1) /\ 1 \in DOMAIN prog.items[item].funcs /\ item \in DOMAIN prog.items
  BY <1>0, <1>1, <1>2 DEF Visited
<1>7. Declare(ScopeOf(item), g) \/ Reject(ScopeOf(item), g)
  BY <1>1, <1>3, <1>4
<1>8. item' \in Nat /\ item' >= item
  BY <1>0, <1>1, <1>2
<1>9. g = prog.items[item].funcs[1] /\ ~(prog.items[item].impl /\ prog.items[item].target \notin TypeDecl)
  BY <1>0, <1>1
<1>10. /\ \A i \in DOMAIN prog.items : \A k \in DOMAIN prog.items[i].funcs :
            IF Visited(i, k)' THEN Answered(i, prog.items[i].funcs[k])'
                              ELSE Untouched(prog.items[i].funcs[k])'
       /\ \A i \in DOMAIN prog.items : i >= item' => Reported(i)' = {}
  BY <1>1, <1>5, <1>6, <1>7, <1>8, <1>9, PlacesAnswered
<1> QED BY <1>1, <1>10 DEF PlacesInv

LEMMA EmptyList ==
  ASSUME NEW S, NEW t \in Seq(S)
  PROVE  t = <<>> <=> Len(t) = 0
OBVIOUS

LEMMA MethodPlaces ==
  ASSUME TypeOK, OverloadsDistinct, AnswersInv, VisitMethod
  PROVE  MethodsAreEnd' /\ (phase' # "assert" => PlacesInv')
<1>0. PICK j, L, n, l, g :
        j = item /\ L = prog.items[j].funcs /\ n = Len(L) /\ l = Len(methods) /\ g = Head(methods)
  OBVIOUS
<1>1. /\ prog \in Programs /\ prog' = prog /\ phase = "declare" /\ methods # <<>>
      /\ methods' = Tail(methods) /\ item' = IF Tail(methods) = <<>> THEN j + 1 ELSE j
      /\ j \in DOMAIN prog.items /\ prog.items[j].impl /\ prog.items[j].target \in TypeDecl
      /\ Declare(j, g) \/ Reject(j, g)
  BY <1>0, MethodType DEF VisitMethod, LeaveMethod, TypeOK
<1>2. /\ j \in Nat /\ \A i \in DOMAIN prog.items : i \in Nat
      /\ L \in Seq(Function) /\ methods \in Seq(Function)
  BY <1>0, <1>1, FuncsType DEF TypeOK
<1>3. /\ n \in Nat /\ l \in Nat /\ l # 0 /\ l <= n /\ DOMAIN L = 1..n
      /\ \A m \in 1..l : methods[m] = L[n - l + m]
  BY <1>0, <1>1, <1>2 DEF AnswersInv, PlacesInv, MethodsAreEnd
<1>4. PICK k0 : k0 = n - l + 1
  OBVIOUS
<1>5. k0 \in 1..n /\ g = L[k0]
  <2>1. g = methods[1] /\ 1 \in 1..l
    BY <1>0, <1>1, <1>2, <1>3
  <2> QED BY <1>3, <1>4, <2>1
<1>6. /\ Tail(methods) \in Seq(Function) /\ Len(Tail(methods)) = l - 1
      /\ \A m \in 1..(l - 1) : Tail(methods)[m] = methods[m + 1]
      /\ Tail(methods) = <<>> <=> l = 1
  <2>1. PICK r : r = methods
    OBVIOUS
  <2>2. r \in Seq(Function) /\ r # <<>> /\ Len(r) = l
    BY <1>0, <1>1, <1>2, <2>1
  <2>3. /\ Tail(r) \in Seq(Function) /\ Len(Tail(r)) = l - 1
        /\ \A m \in 1..(l - 1) : Tail(r)[m] = r[m + 1]
    BY <1>3, <2>2
  <2>4. Tail(r) = <<>> <=> l = 1
    <3>1. PICK t : t = Tail(r)
      OBVIOUS
    <3>2. t \in Seq(Function) /\ Len(t) = l - 1
      BY <2>3, <3>1
    <3>3. t = <<>> <=> Len(t) = 0
      BY <3>2, EmptyList
    <3>4. l - 1 = 0 <=> l = 1
      BY <1>3
    <3> QED BY <3>1, <3>2, <3>3, <3>4
  <2> QED BY <2>1, <2>3, <2>4
<1>7. MethodsAreEnd'
  <2>1. CASE l = 1
    BY <1>1, <1>6, <2>1 DEF MethodsAreEnd
  <2>2. CASE l # 1
    <3>1. item' = j
      BY <1>1, <1>6, <2>2
    <3>2. \A m \in 1..(l - 1) : Tail(methods)[m] = L[n - (l - 1) + m]
      <4> SUFFICES ASSUME NEW m \in 1..(l - 1) PROVE Tail(methods)[m] = L[n - (l - 1) + m]
        OBVIOUS
      <4>1. m + 1 \in 1..l /\ n - l + (m + 1) = n - (l - 1) + m
        BY <1>3
      <4>2. methods[m + 1] = L[n - l + (m + 1)]
        BY <1>3, <4>1
      <4> QED BY <1>6, <4>1, <4>2
    <3>3. l - 1 <= n
      BY <1>3
    <3> QED BY <1>0, <1>1, <1>6, <3>1, <3>2, <3>3 DEF MethodsAreEnd
  <2> QED BY <2>1, <2>2
<1>8. \A i \in DOMAIN prog.items : \A k \in DOMAIN prog.items[i].funcs :
        Visited(i, k)' <=> Visited(i, k) \/ (i = item /\ k = k0)
  <2> SUFFICES ASSUME NEW i \in DOMAIN prog.items, NEW k \in DOMAIN prog.items[i].funcs
               PROVE  Visited(i, k)' <=> Visited(i, k) \/ (i = item /\ k = k0)
    OBVIOUS
  <2>1. Visited(i, k) <=> i < j \/ (i = j /\ k <= n - l)
    BY <1>0, <1>1 DEF Visited
  <2>2. CASE i = j
    <3>1. k \in 1..n
      BY <1>0, <1>3, <2>2
    <3>2. CASE l = 1
      <4>1. Visited(i, k)' <=> i < j + 1
        BY <1>1, <1>6, <3>2 DEF Visited
      <4> QED BY <1>0, <1>2, <1>3, <1>4, <2>1, <2>2, <3>1, <3>2, <4>1
    <3>3. CASE l # 1
      <4>1. Visited(i, k)' <=> i < j \/ (i = j /\ k <= n - (l - 1))
        BY <1>0, <1>1, <1>6, <3>3 DEF Visited
      <4>2. k <= n - (l - 1) <=> k <= n - l \/ k = k0
        BY <1>3, <1>4, <3>1
      <4> QED BY <1>0, <1>2, <2>1, <2>2, <4>1, <4>2
    <3> QED BY <3>2, <3>3
  <2>3. CASE i # j
    <3>1. Visited(i, k)' <=> i < j
      <4>1. CASE l = 1
        <5>1. Visited(i, k)' <=> i < j + 1
          BY <1>1, <1>6, <4>1 DEF Visited
        <5> QED BY <1>2, <2>3, <5>1
      <4>2. CASE l # 1
        BY <1>1, <1>6, <2>3, <4>2 DEF Visited
      <4> QED BY <4>1, <4>2
    <3> QED BY <1>0, <2>1, <2>3, <3>1
  <2> QED BY <2>2, <2>3
<1>9. ~Visited(item, k0) /\ k0 \in DOMAIN prog.items[item].funcs /\ item \in DOMAIN prog.items
  <2>1. ~(k0 <= n - l)
    BY <1>3, <1>4
  <2>2. ~(j < j)
    BY <1>2
  <2> QED BY <1>0, <1>1, <1>3, <1>5, <2>1, <2>2 DEF Visited
<1>10. ScopeOf(item) = j
  BY <1>0, <1>1 DEF ScopeOf
<1>11. Declare(ScopeOf(item), g) \/ Reject(ScopeOf(item), g)
  BY <1>1, <1>10
<1>12. item' \in Nat /\ item' >= item
  BY <1>0, <1>1, <1>2
<1>13. g = prog.items[item].funcs[k0] /\ ~(prog.items[item].impl /\ prog.items[item].target \notin TypeDecl)
  BY <1>0, <1>1, <1>5
<1>14. ASSUME phase' # "assert" PROVE PlacesInv'
  <2>1. /\ \A i \in DOMAIN prog.items : \A k \in DOMAIN prog.items[i].funcs :
             IF Visited(i, k)' THEN Answered(i, prog.items[i].funcs[k])'
                               ELSE Untouched(prog.items[i].funcs[k])'
        /\ \A i \in DOMAIN prog.items : i >= item' => Reported(i)' = {}
    BY <1>1, <1>8, <1>9, <1>11, <1>12, <1>13, <1>14, PlacesAnswered
  <2> QED BY <1>1, <2>1 DEF PlacesInv
<1> QED BY <1>7, <1>14

\* Entering an impl, leaving the last item, and standing still.
LEMMA QuietPlaces ==
  ASSUME TypeOK, AnswersInv, EnterImpl \/ Finish \/ UNCHANGED vars, phase # "assert"
  PROVE  PlacesInv'
<1>0. PICK j : j = item
  OBVIOUS
<1>1. /\ prog \in Programs /\ prog' = prog /\ table' = table /\ diags' = diags /\ j \in Nat
      /\ \A i \in DOMAIN prog.items : i \in Nat
  <2>1. prog \in Programs /\ prog' = prog /\ table' = table /\ diags' = diags /\ j \in Nat
    BY <1>0 DEF EnterImpl, Finish, vars, TypeOK
  <2> QED BY <2>1, FuncsType
<1>2. item' \in Nat /\ item' >= item
  BY <1>0, <1>1 DEF EnterImpl, NextItem, Finish, vars
<1>3. \A i \in DOMAIN prog.items : \A k \in DOMAIN prog.items[i].funcs : Visited(i, k)' <=> Visited(i, k)
  <2> SUFFICES ASSUME NEW i \in DOMAIN prog.items, NEW k \in DOMAIN prog.items[i].funcs
               PROVE  Visited(i, k)' <=> Visited(i, k)
    OBVIOUS
  <2>1. CASE Finish \/ UNCHANGED vars
    BY <2>1 DEF Finish, vars, Visited
  <2>2. CASE EnterImpl
    <3>0. PICK L : L = prog.items[j].funcs
      OBVIOUS
    <3>1. methods = <<>> /\ j \in DOMAIN prog.items /\ (Visited(i, k) <=> i < j)
      BY <1>0, <2>2 DEF EnterImpl, AtImpl, Visited
    <3>2. CASE L = <<>>
      <4>1. item' = j + 1 /\ methods' = <<>>
        BY <1>0, <2>2, <3>0, <3>1, <3>2 DEF EnterImpl, AtImpl, NextItem
      <4>2. i # j
        <5>1. DOMAIN L = {}
          BY <3>2
        <5>2. i = j => k \in DOMAIN L
          BY <3>0
        <5> QED BY <5>1, <5>2
      <4> QED BY <1>1, <3>1, <4>1, <4>2 DEF Visited
    <3>3. CASE L # <<>>
      <4>1. item' = j /\ methods' = L
        BY <1>0, <2>2, <3>0, <3>3 DEF EnterImpl, AtImpl
      <4>2. L \in Seq(Function) /\ Len(L) - Len(L) = 0 /\ (i = j => k \in 1..Len(L))
        <5>1. L \in Seq(Function)
          BY <1>1, <3>0, <3>1, FuncsType
        <5> QED BY <3>0, <5>1
      <4>3. ~(i = j /\ k <= Len(L) - Len(L))
        BY <4>2
      <4> QED BY <1>1, <3>0, <3>1, <4>1, <4>3 DEF Visited
    <3> QED BY <3>2, <3>3
  <2> QED BY <2>1, <2>2
<1>4. /\ \A i \in DOMAIN prog.items : \A k \in DOMAIN prog.items[i].funcs :
           IF Visited(i, k)' THEN Answered(i, prog.items[i].funcs[k])'
                             ELSE Untouched(prog.items[i].funcs[k])'
      /\ \A i \in DOMAIN prog.items : i >= item' => Reported(i)' = {}
  BY <1>1, <1>2, <1>3, PlacesKept
<1> QED BY <1>1, <1>4 DEF PlacesInv

LEMMA NextAnswers == IInv /\ AnswersInv /\ [Next]_vars => AnswersInv'
<1> SUFFICES ASSUME TypeOK, OverloadsDistinct, AnswersInv, [Next]_vars PROVE AnswersInv'
  BY DEF IInv
<1>1. prog \in Programs /\ prog' = prog /\ item \in Nat
  BY DEF TypeOK, Next, VisitFunction, SkipImpl, AtImpl, EnterImpl, VisitMethod, Finish, vars
<1>2. MethodsAreEnd'
  <2>1. CASE VisitMethod
    BY <2>1, MethodPlaces
  <2>2. CASE EnterImpl
    <3>0. PICK L : L = prog.items[item].funcs
      OBVIOUS
    <3>1. L \in Seq(Function)
      BY <1>1, <2>2, <3>0, FuncsType DEF EnterImpl, AtImpl
    <3>2. \A m \in 1..Len(L) : L[m] = L[Len(L) - Len(L) + m]
      BY <3>1
    <3>3. CASE L = <<>>
      BY <2>2, <3>0, <3>3 DEF EnterImpl, AtImpl, NextItem, MethodsAreEnd
    <3>4. CASE L # <<>>
      <4>1. methods' = L /\ item' = item
        BY <2>2, <3>0, <3>4 DEF EnterImpl
      <4> QED BY <1>1, <3>0, <3>1, <3>2, <4>1 DEF MethodsAreEnd
    <3> QED BY <3>3, <3>4
  <2>3. CASE VisitFunction \/ SkipImpl
    BY <2>3 DEF VisitFunction, SkipImpl, AtImpl, NextItem, MethodsAreEnd
  <2>4. CASE Finish \/ UNCHANGED vars
    BY <2>4 DEF Finish, vars, AnswersInv, PlacesInv, MethodsAreEnd
  <2> QED BY <2>1, <2>2, <2>3, <2>4 DEF Next
<1>3. phase' = "done" => item' = Len(prog'.items) + 1
  <2>1. CASE Finish
    <3>1. item \in 1..(Len(prog.items) + 1) /\ item \notin 1..Len(prog.items)
      BY <1>1, <2>1, ProgramType DEF Finish, TypeOK
    <3>2. Len(prog.items) \in Nat
      BY <1>1, ProgramType
    <3>3. item = Len(prog.items) + 1
      BY <3>1, <3>2
    <3> QED BY <1>1, <2>1, <3>3 DEF Finish
  <2>2. CASE UNCHANGED vars
    BY <2>2 DEF vars, AnswersInv, PlacesInv
  <2>3. CASE VisitFunction \/ SkipImpl \/ EnterImpl \/ VisitMethod
    <3>1. phase' = phase \/ phase' = "assert"
      BY <2>3 DEF VisitFunction, SkipImpl, EnterImpl, VisitMethod, Declare, Reject
    <3>2. phase = "declare"
      BY <2>3 DEF VisitFunction, SkipImpl, EnterImpl, AtImpl, VisitMethod
    <3> QED BY <3>1, <3>2
  <2> QED BY <2>1, <2>2, <2>3 DEF Next
<1>4. ASSUME phase' # "assert" PROVE PlacesInv'
  <2>1. phase # "assert"
    BY <1>4 DEF Next, VisitFunction, SkipImpl, AtImpl, EnterImpl, VisitMethod, Finish, vars
  <2>2. CASE VisitFunction
    BY <1>4, <2>2, FunctionPlaces
  <2>3. CASE SkipImpl
    BY <1>1, <2>3, PlacesSkipped DEF PlacesInv
  <2>4. CASE VisitMethod
    BY <1>4, <2>4, MethodPlaces
  <2>5. CASE EnterImpl \/ Finish \/ UNCHANGED vars
    BY <2>1, <2>5, QuietPlaces
  <2> QED BY <2>2, <2>3, <2>4, <2>5 DEF Next
<1> QED BY <1>2, <1>3, <1>4 DEF AnswersInv, PlacesInv

\* When the pass is over, every function of the file, and every one of its
\* impls, was declared or has one error, whose note shows a declaration of the
\* same name; only a function whose own type, or whose impl's type, the first
\* pass reported goes without: visit(FuncDecl) and visit(ImplDecl) return early
\* for those.
THEOREM FunctionsAnswered == Spec => []EveryFunctionAnswered
<1>1. Init => AnswersInv
  BY InitAnswers
<1>2. IInv /\ AnswersInv /\ [Next]_vars => AnswersInv'
  BY NextAnswers
<1>3. Spec => []AnswersInv
  BY <1>1, <1>2, Invariance, PTL DEF Spec
<1>4. IInv /\ AnswersInv => EveryFunctionAnswered
  <2> SUFFICES ASSUME TypeOK, AnswersInv, phase = "done",
                      NEW i \in DOMAIN prog.items, NEW k \in DOMAIN prog.items[i].funcs
               PROVE  Answered(i, prog.items[i].funcs[k])
    BY DEF IInv, EveryFunctionAnswered, Answered
  <2>1. prog \in Programs /\ item = Len(prog.items) + 1
    BY DEF TypeOK, AnswersInv, PlacesInv
  <2>2. i \in 1..Len(prog.items) /\ Len(prog.items) \in Nat
    BY <2>1, ProgramType
  <2>3. Visited(i, k)
    BY <2>1, <2>2 DEF Visited
  <2> QED BY <2>3 DEF AnswersInv, PlacesInv
<1> QED BY <1>3, <1>4, Invariance, PTL
=============================================================================
