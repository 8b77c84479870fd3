---------------------------- MODULE TypeContext -----------------------------
(***************************************************************************)
(* TypeContext: the owner of all type objects, one for the whole program.  *)
(* A QualType is the address of a type object and a `mut` flag; passes ask *)
(* whether two types are the same by comparing QualTypes, so the context   *)
(* must not make a second object for a type that it has made before.       *)
(*                                                                         *)
(* A client asks for types made of those it has been given, in any order   *)
(* and any number of times, as MaterializeType does unit by unit.  (It     *)
(* never sets `mut`, the unit tests do.)  It never passes the unknown type *)
(* on, which getPointerType and getArrayType would not survive, being the  *)
(* empty key of their tables.  Methods are added by                        *)
(* ForwardDeclareFunctions, and modelled there.                            *)
(***************************************************************************)
EXTENDS Naturals, Sequences

CONSTANTS
  Native,      \* the unit type and the builtin ones, in order
  Decl,        \* type declarations of all units
  Field,       \* names of fields and members
  None,        \* no leaf
  MaxParams,   \* bound on the parameters of a function type
  MaxObjects   \* bound on the type objects

ASSUME TypeContextAssumption ==
  /\ Len(Native) \in Nat \ {0} /\ DOMAIN Native = 1..Len(Native)
  /\ \A i, j \in DOMAIN Native : Native[i] = Native[j] => i = j
  /\ MaxParams \in Nat
  /\ MaxObjects \in Nat

VARIABLES
  objects,   \* all type objects made; the address of one is its index
  table,     \* NamedCtx, PointerCtx, ArrayCtx, FuncCtx: key -> address
  records,   \* ObjCtx, EnumCtx: addresses
  last       \* the last request, and the address that it was answered with

vars == <<objects, table, records, last>>

Address == DOMAIN objects
QualTypes == [ty : Address, mut : BOOLEAN]

\* What a type object holds.  Builtin and named types are leaves; a pointer or
\* an array has one part, a function its parameters and its result; the fields
\* of an object and the members of an enum are pairs of a name and a type.
Content(kind, leaf, parts, fields) ==
  [kind |-> kind, leaf |-> leaf, parts |-> parts, fields |-> fields]

Builtin(n) == Content("builtin", n, <<>>, {})
NamedType(d) == Content("named", d, <<>>, {})
PointerType(q) == Content("pointer", None, <<q>>, {})
ArrayType(q) == Content("array", None, <<q>>, {})
FuncType(ps, q) == Content("func", None, Append(ps, q), {})
Record(kind, names, types) ==
  Content(kind, None, <<>>, {<<x, types[x]>> : x \in names})

Init ==
  /\ objects = [i \in 1..Len(Native) |-> Builtin(Native[i])]
  /\ table = [c \in {} |-> 0]
  /\ records = {}
  /\ last = [want |-> objects[1], got |-> 1]

Answer(c, a) == last' = [want |-> c, got |-> a]

\* Fault: the pointer is taken from the unique_ptr that the table has moved from.
NewAddressMoved == 0

NewAddress == Len(objects) + 1

\* An object for c, at the next address.
Make(c) ==
  /\ Len(objects) < MaxObjects
  /\ objects' = Append(objects, c)
  /\ Answer(c, NewAddress)

\* Fault: the tables compare addresses without the qualifiers.
KeyUnqualified(c) == [c EXCEPT !.parts = [k \in DOMAIN c.parts |-> c.parts[k].ty]]

\* The key of a type in its table: for a function, hash and == of FuncType.
Key(c) == c

\* Fault: the table is not consulted first.
NeverContained(c) == FALSE

IsKnown(c) == Key(c) \in DOMAIN table

Reuse(c) ==
  /\ IsKnown(c)
  /\ Answer(c, table[Key(c)])
  /\ UNCHANGED <<objects, table, records>>

\* The object that the table had under this key, if any, is destroyed.
Intern(c) ==
  /\ ~IsKnown(c)
  /\ Make(c)
  /\ table' = [k \in DOMAIN table \union {Key(c)} |->
                 IF k = Key(c) THEN NewAddress ELSE table[k]]
  /\ UNCHANGED records

GetNamedType == \E d \in Decl : Reuse(NamedType(d)) \/ Intern(NamedType(d))

GetPointerType == \E q \in QualTypes : Reuse(PointerType(q)) \/ Intern(PointerType(q))

GetArrayType == \E q \in QualTypes : Reuse(ArrayType(q)) \/ Intern(ArrayType(q))

GetFuncType ==
  \E n \in 0..MaxParams : \E ps \in [1..n -> QualTypes], q \in QualTypes :
    Reuse(FuncType(ps, q)) \/ Intern(FuncType(ps, q))

\* The hash of a StringMap starts from a variable that is never initialised:
\* whether an equal record is looked at, and which one, is up to the build.
Insert(c) ==
  \/ \E a \in {b \in records : objects[b] = c} :
       Answer(c, a) /\ UNCHANGED <<objects, table, records>>
  \/ /\ Make(c)
     /\ records' = records \union {NewAddress}
     /\ UNCHANGED table

GetRecord(kind) ==
  \E names \in (SUBSET Field) \ {{}} : \E types \in [names -> QualTypes] : Insert(Record(kind, names, types))

GetObjectType == GetRecord("object")

GetEnumType == GetRecord("enum")

Next ==
  \/ GetNamedType
  \/ GetPointerType
  \/ GetArrayType
  \/ GetFuncType
  \/ GetObjectType
  \/ GetEnumType

Spec == Init /\ [][Next]_vars

-----------------------------------------------------------------------------
(* Properties.                                                             *)

Interned == {"named", "pointer", "array", "func"}
Hashed == {"object", "enum"}

\* Any address, whether or not there is something there.
Pointer == [ty : Nat, mut : BOOLEAN]

TypeObject ==
  [kind : {"builtin"} \union Interned \union Hashed,
   leaf : {Native[i] : i \in DOMAIN Native} \union Decl \union {None},
   parts : Seq(Pointer),
   fields : SUBSET (Field \X Pointer)]

PartsOf(c) == {c.parts[k] : k \in DOMAIN c.parts} \union {f[2] : f \in c.fields}

\* The types that an object refers to were made before it.
TypeOK ==
  /\ objects \in Seq(TypeObject)
  /\ \A a \in Address : \A q \in PartsOf(objects[a]) : q.ty \in 1..(a - 1)
  /\ \A k \in DOMAIN table : table[k] \in Address
  /\ records \subseteq Address
  /\ last.got \in Address

\* An address stands for the type that was asked for, with its qualifiers, and
\* stays good: every object that has been given out is still owned by the context.
AnswersHold ==
  /\ objects[last.got] = last.want
  /\ \A a \in Address : \/ objects[a].kind = "builtin"
                        \/ a \in records
                        \/ \E k \in DOMAIN table : table[k] = a

\* What an address stands for when all addresses in it have been followed: m
\* gives it for every address, h whether there is an object or an enum in it.
Unfold(m, a) ==
  LET c == objects[a]
  IN  [kind |-> c.kind, leaf |-> c.leaf,
       parts |-> [k \in DOMAIN c.parts |-> <<c.parts[k].mut, m[c.parts[k].ty]>>],
       fields |-> {<<f[1], f[2].mut, m[f[2].ty]>> : f \in c.fields}]

IsMeaning(m) == \A a \in Address : m[a] = Unfold(m, a)

HoldsRecord(h, a) == a \in records \/ \E q \in PartsOf(objects[a]) : h[q.ty]

FindsRecords(h) == \A a \in Address : h[a] <=> HoldsRecord(h, a)

OneAddressEach(m, h) == \A a, b \in Address : ~h[a] /\ m[a] = m[b] => a = b

Meaning == LET m[a \in Address] == Unfold(m, a) IN m

HasRecord == LET h[a \in Address] == HoldsRecord(h, a) IN h

\* Comparing addresses is comparing types: the same type, built twice by
\* different routes and in different units, has one address all the way up,
\* unless it has an object or an enum in it.
Canonical == OneAddressEach(Meaning, HasRecord)

\* The object types that the unit test of the context expects to be one are.
RecordsShared ==
  \A a, b \in records : Meaning[a] = Meaning[b] => a = b
=============================================================================
