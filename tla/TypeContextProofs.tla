-------------------------- MODULE TypeContextProofs --------------------------
(***************************************************************************)
(* Proofs about the type objects, for every set of builtin types, type     *)
(* declarations and field names and any number of objects.                 *)
(***************************************************************************)
EXTENDS TypeContext, WellFoundedInduction, TLAPS

\* The tables and the objects agree, and the builtin types are where the
\* constructor has put them.
TablesAgree ==
  /\ \A k \in DOMAIN table : objects[table[k]] = k
  /\ \A a \in Address :
       /\ objects[a].kind \in Interned => objects[a] \in DOMAIN table /\ table[objects[a]] = a
       /\ objects[a].kind \in Hashed <=> a \in records
       /\ objects[a].kind = "builtin" => a \in DOMAIN Native /\ objects[a].leaf = Native[a]
       /\ objects[a].kind \notin Hashed => objects[a].fields = {}

IInv == TypeOK /\ AnswersHold /\ TablesAgree

\* What a client may ask for: a type made of addresses it may have.
IsRequest(c) ==
  /\ c \in TypeObject
  /\ c.kind # "builtin"
  /\ \A q \in PartsOf(c) : q.ty \in Address
  /\ c.kind \notin Hashed => c.fields = {}

LEMMA QualTypesArePointers == ASSUME TypeOK PROVE QualTypes \subseteq Pointer
BY DEF TypeOK, QualTypes, Pointer, Address

LEMMA NamedRequest ==
  ASSUME NEW d \in Decl PROVE IsRequest(NamedType(d)) /\ NamedType(d).kind \in Interned
<1> DEFINE c == NamedType(d)
<1>1. /\ c.kind = "named" /\ c.leaf = d /\ c.parts = <<>> /\ c.fields = {}
      /\ c = [kind |-> "named", leaf |-> d, parts |-> <<>>, fields |-> {}]
  BY DEF NamedType, Content
<1>2. c \in TypeObject
  BY <1>1 DEF TypeObject, Interned
<1>3. PartsOf(c) = {}
  BY <1>1 DEF PartsOf
<1> QED BY <1>1, <1>2, <1>3 DEF IsRequest, Interned

LEMMA PointerRequest ==
  ASSUME TypeOK, NEW q \in QualTypes
  PROVE  /\ IsRequest(PointerType(q)) /\ PointerType(q).kind \in Interned
         /\ IsRequest(ArrayType(q)) /\ ArrayType(q).kind \in Interned
<1>1. q \in Pointer /\ q.ty \in Address
  BY QualTypesArePointers DEF QualTypes
<1>2. ASSUME NEW c, NEW kind \in {"pointer", "array"}, c = Content(kind, None, <<q>>, {})
      PROVE  IsRequest(c) /\ c.kind \in Interned
  <2>1. c.kind = kind /\ c.parts = <<q>> /\ c.fields = {}
    BY <1>2 DEF Content
  <2>2. <<q>> \in Seq(Pointer)
    BY <1>1
  <2>3. c \in TypeObject
    BY <1>2, <2>2 DEF Content, TypeObject, Interned
  <2>4. PartsOf(c) = {q}
    BY <2>1 DEF PartsOf
  <2> QED BY <1>1, <2>1, <2>3, <2>4 DEF IsRequest, Interned
<1> QED BY <1>2 DEF PointerType, ArrayType

LEMMA FuncRequest ==
  ASSUME TypeOK, NEW n \in Nat, NEW ps \in [1..n -> QualTypes], NEW q \in QualTypes
  PROVE  IsRequest(FuncType(ps, q)) /\ FuncType(ps, q).kind \in Interned
<1> DEFINE c == FuncType(ps, q)
<1>1. ps \in Seq(QualTypes)
  OBVIOUS
<1>2. Append(ps, q) \in Seq(QualTypes)
  BY <1>1
<1>3. Append(ps, q) \in Seq(Pointer)
  BY <1>2, QualTypesArePointers
<1>4. c.kind = "func" /\ c.parts = Append(ps, q) /\ c.fields = {}
  BY DEF FuncType, Content
<1>5. c \in TypeObject
  BY <1>3 DEF FuncType, Content, TypeObject, Interned
<1>6. PartsOf(c) \subseteq QualTypes
  <2>1. \A k \in DOMAIN Append(ps, q) : Append(ps, q)[k] \in QualTypes
    BY <1>2
  <2> QED BY <2>1, <1>4 DEF PartsOf
<1> QED BY <1>4, <1>5, <1>6 DEF IsRequest, Interned, QualTypes

LEMMA RecordRequest ==
  ASSUME TypeOK, NEW kind \in Hashed, NEW names \in SUBSET Field, NEW types \in [names -> QualTypes]
  PROVE  IsRequest(Record(kind, names, types)) /\ Record(kind, names, types).kind = kind
<1> DEFINE c == Record(kind, names, types)
<1>1. c.kind = kind /\ c.parts = <<>> /\ c.fields = {<<x, types[x]>> : x \in names}
  BY DEF Record, Content
<1>2. {<<x, types[x]>> : x \in names} \in SUBSET (Field \X Pointer)
  BY QualTypesArePointers
<1>3. c \in TypeObject
  BY <1>2 DEF Record, Content, TypeObject
<1>4. PartsOf(c) \subseteq QualTypes
  BY <1>1 DEF PartsOf
<1> QED BY <1>1, <1>3, <1>4 DEF IsRequest, QualTypes, Hashed

\* Every operation is a request for a type object, which is looked up in a
\* table or inserted into a set.
LEMMA Requests ==
  ASSUME TypeOK, Next
  PROVE  \E c : /\ IsRequest(c)
                /\ \/ c.kind \in Interned /\ (Reuse(c) \/ Intern(c))
                   \/ c.kind \in Hashed /\ Insert(c)
<1>1. CASE GetNamedType
  BY <1>1, NamedRequest DEF GetNamedType
<1>2. CASE GetPointerType
  BY <1>2, PointerRequest DEF GetPointerType
<1>3. CASE GetArrayType
  BY <1>3, PointerRequest DEF GetArrayType
<1>4. CASE GetFuncType
  <2>1. 0..MaxParams \subseteq Nat
    BY TypeContextAssumption
  <2> QED BY <1>4, <2>1, FuncRequest DEF GetFuncType
<1>5. ASSUME NEW kind \in Hashed, GetRecord(kind)
      PROVE  \E c : IsRequest(c) /\ c.kind \in Hashed /\ Insert(c)
  BY <1>5, RecordRequest DEF GetRecord
<1> QED BY <1>1, <1>2, <1>3, <1>4, <1>5 DEF Next, GetObjectType, GetEnumType, Hashed

\* After a new object has been made, the earlier ones are as they were.
LEMMA MakeStep ==
  ASSUME TypeOK, NEW c, IsRequest(c), Make(c)
  PROVE  /\ objects' \in Seq(TypeObject)
         /\ Address' = Address \union {NewAddress}
         /\ NewAddress \notin Address /\ NewAddress \in Nat
         /\ objects'[NewAddress] = c
         /\ \A a \in Address : objects'[a] = objects[a]
         /\ \A a \in Address' : \A q \in PartsOf(objects'[a]) : q.ty \in 1..(a - 1)
         /\ last' = [want |-> c, got |-> NewAddress]
<1>1. objects \in Seq(TypeObject) /\ c \in TypeObject /\ objects' = Append(objects, c)
  BY DEF TypeOK, Make, IsRequest
<1>2. /\ Address = 1..Len(objects)
      /\ Len(objects) \in Nat
  BY <1>1 DEF Address
<1>3. /\ objects' \in Seq(TypeObject)
      /\ Len(objects') = Len(objects) + 1
      /\ DOMAIN objects' = 1..(Len(objects) + 1)
      /\ objects'[Len(objects) + 1] = c
      /\ \A a \in 1..Len(objects) : objects'[a] = objects[a]
  BY <1>1
<1>4. Address' = Address \union {NewAddress} /\ NewAddress \notin Address /\ NewAddress \in Nat
  BY <1>2, <1>3 DEF NewAddress, Address
<1>5. \A a \in Address : \A q \in PartsOf(objects'[a]) : q.ty \in 1..(a - 1)
  BY <1>2, <1>3 DEF TypeOK
<1>6. \A q \in PartsOf(objects'[NewAddress]) : q.ty \in 1..(NewAddress - 1)
  BY <1>2, <1>3 DEF IsRequest, NewAddress
<1> QED BY <1>2, <1>3, <1>4, <1>5, <1>6 DEF NewAddress, Make, Answer

LEMMA IInvInit == ASSUME Init PROVE IInv
<1>1. /\ Len(Native) \in Nat \ {0}
      /\ DOMAIN Native = 1..Len(Native)
      /\ objects = [i \in 1..Len(Native) |-> Builtin(Native[i])]
      /\ table = [c \in {} |-> 0] /\ records = {}
      /\ last = [want |-> objects[1], got |-> 1]
  BY TypeContextAssumption DEF Init
<1>2. \A i \in 1..Len(Native) :
        /\ objects[i] = [kind |-> "builtin", leaf |-> Native[i], parts |-> <<>>, fields |-> {}]
        /\ objects[i] \in TypeObject
  BY <1>1 DEF Builtin, Content, TypeObject
<1>3. objects \in Seq(TypeObject) /\ Address = 1..Len(Native)
  BY <1>1, <1>2 DEF Address
<1>4. \A a \in Address : /\ PartsOf(objects[a]) = {}
                         /\ objects[a].kind = "builtin" /\ objects[a].leaf = Native[a]
                         /\ objects[a].fields = {}
  <2> SUFFICES ASSUME NEW a \in Address
               PROVE  /\ PartsOf(objects[a]) = {}
                      /\ objects[a].kind = "builtin" /\ objects[a].leaf = Native[a]
                      /\ objects[a].fields = {}
    OBVIOUS
  <2>1. /\ objects[a].parts = <<>> /\ objects[a].fields = {}
        /\ objects[a].kind = "builtin" /\ objects[a].leaf = Native[a]
    <3>1. objects[a] = [kind |-> "builtin", leaf |-> Native[a], parts |-> <<>>, fields |-> {}]
      BY <1>2, <1>3
    <3> QED BY <3>1
  <2>2. DOMAIN objects[a].parts = {}
    BY <2>1
  <2> QED BY <2>1, <2>2 DEF PartsOf
<1>5. DOMAIN table = {} /\ 1 \in Address
  BY <1>1, <1>3
<1>6. TypeOK
  BY <1>1, <1>3, <1>4, <1>5 DEF TypeOK
<1>7. AnswersHold
  <2>1. last.got = 1 /\ last.want = objects[1]
    BY <1>1
  <2> QED BY <1>4, <2>1 DEF AnswersHold
<1>8. TablesAgree
  BY <1>1, <1>3, <1>4, <1>5 DEF TablesAgree, Interned, Hashed
<1> QED BY <1>6, <1>7, <1>8 DEF IInv

LEMMA ReuseStep ==
  ASSUME IInv, NEW c, IsRequest(c), Reuse(c)
  PROVE  IInv'
<1>1. /\ objects' = objects /\ table' = table /\ records' = records
      /\ last' = [want |-> c, got |-> table[c]]
      /\ c \in DOMAIN table
  BY DEF Reuse, Answer, Key, IsKnown
<1>2. table[c] \in Address /\ objects[table[c]] = c
  BY <1>1 DEF IInv, TypeOK, TablesAgree
<1>3. Address' = Address
  BY <1>1 DEF Address
<1>4. TypeOK'
  BY <1>1, <1>2, <1>3 DEF IInv, TypeOK
<1>5. AnswersHold'
  BY <1>1, <1>2, <1>3 DEF IInv, AnswersHold
<1>6. TablesAgree'
  BY <1>1, <1>3 DEF IInv, TablesAgree
<1> QED BY <1>4, <1>5, <1>6 DEF IInv

LEMMA InternStep ==
  ASSUME IInv, NEW c, IsRequest(c), c.kind \in Interned, Intern(c)
  PROVE  IInv'
<1> DEFINE new == NewAddress
<1>1. /\ objects' \in Seq(TypeObject)
      /\ Address' = Address \union {new}
      /\ new \notin Address /\ new \in Nat
      /\ objects'[new] = c
      /\ \A a \in Address : objects'[a] = objects[a]
      /\ \A a \in Address' : \A q \in PartsOf(objects'[a]) : q.ty \in 1..(a - 1)
      /\ last' = [want |-> c, got |-> new]
  BY MakeStep DEF IInv, Intern
<1>2. /\ c \notin DOMAIN table
      /\ DOMAIN table' = DOMAIN table \union {c}
      /\ table'[c] = new
      /\ \A k \in DOMAIN table : table'[k] = table[k]
      /\ records' = records
  BY DEF Intern, IsKnown, Key
<1> HIDE DEF new
<1>3. c.kind # "builtin" /\ c.kind \notin Hashed
  BY DEF Interned, Hashed
<1>4. TypeOK'
  <2>1. \A k \in DOMAIN table' : table'[k] \in Address'
    BY <1>1, <1>2 DEF IInv, TypeOK
  <2> QED BY <1>1, <1>2, <2>1 DEF IInv, TypeOK
<1>5. TablesAgree'
  <2>1. \A k \in DOMAIN table' : objects'[table'[k]] = k
    BY <1>1, <1>2 DEF IInv, TypeOK, TablesAgree
  <2>2. ASSUME NEW a \in Address'
        PROVE  /\ objects'[a].kind \in Interned =>
                    objects'[a] \in DOMAIN table' /\ table'[objects'[a]] = a
               /\ objects'[a].kind \in Hashed <=> a \in records'
               /\ objects'[a].kind = "builtin" => a \in DOMAIN Native /\ objects'[a].leaf = Native[a]
               /\ objects'[a].kind \notin Hashed => objects'[a].fields = {}
    <3>1. CASE a = new
      BY <1>1, <1>2, <1>3, <3>1 DEF IInv, TypeOK, IsRequest
    <3>2. CASE a \in Address
      BY <1>1, <1>2, <3>2 DEF IInv, TablesAgree
    <3> QED BY <1>1, <3>1, <3>2
  <2> QED BY <2>1, <2>2 DEF TablesAgree
<1>6. AnswersHold'
  <2>1. ASSUME NEW a \in Address'
        PROVE  objects'[a].kind = "builtin" \/ a \in records' \/ \E k \in DOMAIN table' : table'[k] = a
    BY <1>1, <1>2 DEF IInv, AnswersHold
  <2> QED BY <1>1, <2>1 DEF AnswersHold
<1> QED BY <1>4, <1>5, <1>6 DEF IInv

LEMMA InsertStep ==
  ASSUME IInv, NEW c, IsRequest(c), c.kind \in Hashed, Insert(c)
  PROVE  IInv'
<1> DEFINE new == NewAddress
<1>1. CASE UNCHANGED <<objects, table, records>> /\ \E a \in {b \in records : objects[b] = c} : Answer(c, a)
  <2>1. PICK a \in records : objects[a] = c /\ Answer(c, a)
    BY <1>1
  <2>2. a \in Address /\ last' = [want |-> c, got |-> a] /\ Address' = Address
        /\ objects' = objects /\ table' = table /\ records' = records
    BY <1>1, <2>1 DEF IInv, TypeOK, Answer, Address
  <2>3. TypeOK'
    BY <2>2 DEF IInv, TypeOK
  <2>4. AnswersHold'
    BY <2>1, <2>2 DEF IInv, AnswersHold
  <2>5. TablesAgree'
    BY <2>2 DEF IInv, TablesAgree
  <2> QED BY <2>3, <2>4, <2>5 DEF IInv
<1>2. CASE Make(c) /\ records' = records \union {new} /\ UNCHANGED table
  <2>1. /\ objects' \in Seq(TypeObject)
        /\ Address' = Address \union {new}
        /\ new \notin Address /\ new \in Nat
        /\ objects'[new] = c
        /\ \A a \in Address : objects'[a] = objects[a]
        /\ \A a \in Address' : \A q \in PartsOf(objects'[a]) : q.ty \in 1..(a - 1)
        /\ last' = [want |-> c, got |-> new]
    BY <1>2, MakeStep DEF IInv
  <2>2. records' = records \union {new} /\ table' = table
    BY <1>2
  <2> HIDE DEF new
  <2>3. c.kind # "builtin" /\ c.kind \notin Interned
    BY DEF Interned, Hashed
  <2>4. TypeOK'
    BY <2>1, <2>2 DEF IInv, TypeOK
  <2>5. TablesAgree'
    <3>1. \A k \in DOMAIN table' : objects'[table'[k]] = k
      BY <2>1, <2>2 DEF IInv, TypeOK, TablesAgree
    <3>2. ASSUME NEW a \in Address'
          PROVE  /\ objects'[a].kind \in Interned =>
                      objects'[a] \in DOMAIN table' /\ table'[objects'[a]] = a
                 /\ objects'[a].kind \in Hashed <=> a \in records'
                 /\ objects'[a].kind = "builtin" => a \in DOMAIN Native /\ objects'[a].leaf = Native[a]
                 /\ objects'[a].kind \notin Hashed => objects'[a].fields = {}
      <4>1. CASE a = new
        BY <2>1, <2>2, <2>3, <4>1
      <4>2. CASE a \in Address
        BY <2>1, <2>2, <4>2 DEF IInv, TablesAgree
      <4> QED BY <2>1, <4>1, <4>2
    <3> QED BY <3>1, <3>2 DEF TablesAgree
  <2>6. AnswersHold'
    <3>1. ASSUME NEW a \in Address'
          PROVE  objects'[a].kind = "builtin" \/ a \in records' \/ \E k \in DOMAIN table' : table'[k] = a
      BY <2>1, <2>2 DEF IInv, AnswersHold
    <3> QED BY <2>1, <3>1 DEF AnswersHold
  <2> QED BY <2>4, <2>5, <2>6 DEF IInv
<1> QED BY <1>1, <1>2 DEF Insert

LEMMA IInvStep == ASSUME IInv, [Next]_vars PROVE IInv'
<1>1. CASE Next
  <2>1. PICK c : /\ IsRequest(c)
                 /\ \/ c.kind \in Interned /\ (Reuse(c) \/ Intern(c))
                    \/ c.kind \in Hashed /\ Insert(c)
    BY <1>1, Requests DEF IInv
  <2> QED BY <2>1, ReuseStep, InternStep, InsertStep
<1>2. CASE UNCHANGED vars
  <2>1. objects' = objects /\ table' = table /\ records' = records /\ last' = last
    BY <1>2 DEF vars
  <2> QED BY <2>1 DEF IInv, TypeOK, AnswersHold, TablesAgree, Address
<1> QED BY <1>1, <1>2

\* The inductive invariant, on which the theorems rest.
LEMMA Invariance == Spec => []IInv
<1>1. Init => IInv
  BY IInvInit
<1>2. IInv /\ [Next]_vars => IInv'
  BY IInvStep
<1> QED BY <1>1, <1>2, PTL DEF Spec

\* The objects keep their shape, and the types in an object are older than it:
\* there are no cyclic types.
THEOREM TypeCorrect == Spec => []TypeOK
<1>1. IInv => TypeOK
  BY DEF IInv
<1> QED BY <1>1, Invariance, PTL

\* An address stands for the type that it was given out for, and the context
\* owns every object that it has given out.
THEOREM AddressesHold == Spec => []AnswersHold
<1>1. IInv => AnswersHold
  BY DEF IInv
<1> QED BY <1>1, Invariance, PTL

\* Two objects that are no records and hold the same are one.
LEMMA SameContent ==
  ASSUME IInv, NEW a \in Address, NEW b \in Address,
         objects[a].kind \notin Hashed, objects[a] = objects[b]
  PROVE  a = b
<1>1. objects[a].kind \in {"builtin"} \union Interned
  <2>1. objects[a] \in TypeObject
    BY DEF IInv, TypeOK, Address
  <2> QED BY <2>1 DEF TypeObject
<1>2. CASE objects[a].kind = "builtin"
  BY <1>2, TypeContextAssumption DEF IInv, TablesAgree
<1>3. CASE objects[a].kind \in Interned
  BY <1>3 DEF IInv, TablesAgree
<1> QED BY <1>1, <1>2, <1>3

\* A set of addresses has a least one.
LEMMA LeastAddress ==
  ASSUME NEW T, T \subseteq Nat, T # {}
  PROVE  \E a \in T : \A b \in T : ~(b < a)
<1> DEFINE R == OpToRel(<, Nat)
<1>1. IsWellFoundedOn(R, Nat)
  BY NatLessThanWellFounded
<1>2. \A a, b \in Nat : a < b => <<a, b>> \in R
  BY DEF OpToRel
<1> HIDE DEF R
<1>3. PICK a \in T : \A b \in T : ~(<<b, a>> \in R)
  BY <1>1, WFMin
<1> QED BY <1>2, <1>3

\* Of two addresses of one meaning, follow the smaller one down to where the
\* addresses below are the same: there, the objects hold the same.
LEMMA OneAddress ==
  ASSUME IInv, NEW m, NEW h, IsMeaning(m), FindsRecords(h)
  PROVE  OneAddressEach(m, h)
<1> DEFINE Twin(a, b) == ~h[a] /\ m[a] = m[b] /\ a # b
           T == {a \in Address : \E b \in Address : Twin(a, b)}
<1>1. Address \subseteq Nat
  BY DEF IInv, TypeOK, Address
<1>2. ASSUME T # {} PROVE FALSE
  <2>1. PICK a \in T : \A c \in T : ~(c < a)
    BY <1>1, <1>2, LeastAddress
  <2>2. PICK b \in Address : Twin(a, b)
    OBVIOUS
  <2>3. a \in Address /\ a \in Nat /\ a \notin records
    BY <1>1, <2>2 DEF FindsRecords, HoldsRecord
  <2>4. /\ objects[a].kind = objects[b].kind
        /\ objects[a].leaf = objects[b].leaf
        /\ Unfold(m, a).parts = Unfold(m, b).parts
    <3>1. Unfold(m, a) = Unfold(m, b)
      BY <2>2, <2>3 DEF IsMeaning
    <3>2. /\ Unfold(m, a).kind = objects[a].kind /\ Unfold(m, a).leaf = objects[a].leaf
          /\ Unfold(m, b).kind = objects[b].kind /\ Unfold(m, b).leaf = objects[b].leaf
      BY DEF Unfold
    <3> QED BY <3>1, <3>2
  <2>5. objects[a] \in TypeObject /\ objects[b] \in TypeObject
    BY <2>3 DEF IInv, TypeOK, Address
  <2>6. objects[a].parts = objects[b].parts
    <3> DEFINE p == objects[a].parts
               q == objects[b].parts
    <3>1. p \in Seq(Pointer) /\ q \in Seq(Pointer)
      BY <2>5 DEF TypeObject
    <3>2. /\ DOMAIN p = DOMAIN q
          /\ \A k \in DOMAIN p : <<p[k].mut, m[p[k].ty]>> = <<q[k].mut, m[q[k].ty]>>
      BY <2>4 DEF Unfold
    <3>3. ASSUME NEW k \in DOMAIN p PROVE p[k] = q[k]
      <4>1. p[k] \in PartsOf(objects[a]) /\ q[k] \in PartsOf(objects[b])
        BY <3>2 DEF PartsOf
      <4>2. p[k].ty \in 1..(a - 1) /\ p[k].ty \in Address /\ q[k].ty \in Address
        BY <2>3, <4>1 DEF IInv, TypeOK, Address
      <4>3. ~h[p[k].ty]
        BY <2>2, <2>3, <4>1 DEF FindsRecords, HoldsRecord
      <4>4. p[k].ty < a
        BY <2>3, <4>2
      <4>5. p[k].ty = q[k].ty
        BY <2>1, <3>2, <4>2, <4>3, <4>4
      <4>6. p[k] \in Pointer /\ q[k] \in Pointer
        BY <3>1, <3>2
      <4> QED BY <3>2, <4>5, <4>6 DEF Pointer
    <3> HIDE DEF p, q
    <3>4. p = q
      BY <3>1, <3>2, <3>3
    <3> QED BY <3>4 DEF p, q
  <2>7. objects[a].kind \notin Hashed /\ objects[a].fields = {} /\ objects[b].fields = {}
    BY <2>3, <2>4 DEF IInv, TablesAgree
  <2>8. objects[a] = objects[b]
    <3>1. ASSUME NEW c \in TypeObject
          PROVE  c = [kind |-> c.kind, leaf |-> c.leaf, parts |-> c.parts, fields |-> c.fields]
      BY DEF TypeObject
    <3>2. objects[a] = [kind |-> objects[a].kind, leaf |-> objects[a].leaf,
                        parts |-> objects[a].parts, fields |-> objects[a].fields]
      BY <2>5, <3>1
    <3>3. objects[b] = [kind |-> objects[b].kind, leaf |-> objects[b].leaf,
                        parts |-> objects[b].parts, fields |-> objects[b].fields]
      BY <2>5, <3>1
    <3> QED BY <2>4, <2>6, <2>7, <3>2, <3>3
  <2>9. a = b
    BY <2>3, <2>7, <2>8, SameContent
  <2> QED BY <2>2, <2>9
<1> QED BY <1>2 DEF OneAddressEach

\* Induction up to a bound: a set that has 0 and with n also n + 1.
LEMMA CountUp ==
  ASSUME NEW N \in Nat, NEW G, 0 \in G,
         \A n \in 0..N : n \in G /\ n < N => n + 1 \in G
  PROVE  N \in G
<1> DEFINE T == {n \in 0..N : n \notin G}
<1>1. ASSUME T # {} PROVE FALSE
  <2>1. T \subseteq Nat
    OBVIOUS
  <2> HIDE DEF T
  <2>2. PICK a \in T : \A b \in T : ~(b < a)
    BY <1>1, <2>1, LeastAddress
  <2>3. a \in 0..N /\ a \notin G /\ a # 0
    BY <2>2 DEF T
  <2>4. a - 1 \in 0..N /\ a - 1 < N /\ a - 1 < a /\ (a - 1) + 1 = a
    BY <2>3
  <2>5. a - 1 \in G
    BY <2>2, <2>4 DEF T
  <2> QED BY <2>3, <2>4, <2>5
<1>2. N \in 0..N
  OBVIOUS
<1> QED BY <1>1, <1>2

\* What is below an address is all that an object refers to.
LEMMA DependsBelow ==
  ASSUME IInv, NEW a \in Address, NEW m, NEW n, \A b \in 1..(a - 1) : m[b] = n[b]
  PROVE  /\ Unfold(m, a) = Unfold(n, a)
         /\ HoldsRecord(m, a) = HoldsRecord(n, a)
<1> PICK c : c = objects[a]
  OBVIOUS
<1>1. \A q \in PartsOf(c) : m[q.ty] = n[q.ty]
  BY DEF IInv, TypeOK
<1>2. \A k \in DOMAIN c.parts : m[c.parts[k].ty] = n[c.parts[k].ty]
  BY <1>1 DEF PartsOf
<1>3. \A f \in c.fields : m[f[2].ty] = n[f[2].ty]
  BY <1>1 DEF PartsOf
<1>4. [k \in DOMAIN c.parts |-> <<c.parts[k].mut, m[c.parts[k].ty]>>]
        = [k \in DOMAIN c.parts |-> <<c.parts[k].mut, n[c.parts[k].ty]>>]
  BY <1>2
<1>5. {<<f[1], f[2].mut, m[f[2].ty]>> : f \in c.fields}
        = {<<f[1], f[2].mut, n[f[2].ty]>> : f \in c.fields}
  BY <1>3
<1>6. Unfold(m, a) = Unfold(n, a)
  BY <1>4, <1>5 DEF Unfold
<1>7. HoldsRecord(m, a) = HoldsRecord(n, a)
  BY <1>1 DEF HoldsRecord
<1> QED BY <1>6, <1>7

\* So the recursive function is defined: from the addresses up to n, it goes on
\* to the next.
LEMMA MeaningDefined ==
  ASSUME IInv
  PROVE  IsMeaning(Meaning)
<1> DEFINE N == Len(objects)
           Rec(m, n) == \A a \in 1..n : m[a] = Unfold(m, a)
           G == {n \in 0..N : \E m : Rec(m, n)}
           Def(m) == m = [a \in Address |-> Unfold(m, a)]
<1>1. N \in Nat /\ Address = 1..N
  BY DEF IInv, TypeOK, Address
<1>2. 0 \in G
  <2>1. \A m : Rec(m, 0)
    OBVIOUS
  <2> QED BY <1>1, <2>1
<1>3. ASSUME NEW n \in 0..N, n \in G, n < N PROVE n + 1 \in G
  <2>1. PICK u : Rec(u, n)
    BY <1>3
  <2> DEFINE w == [a \in 1..(n + 1) |-> IF a = n + 1 THEN Unfold(u, n + 1) ELSE u[a]]
  <2>2. /\ \A b \in 1..n : w[b] = u[b]
        /\ w[n + 1] = Unfold(u, n + 1)
    BY <1>1
  <2> HIDE DEF w
  <2>3. ASSUME NEW a \in 1..(n + 1) PROVE w[a] = Unfold(w, a)
    <3>1. a \in Address /\ \A b \in 1..(a - 1) : w[b] = u[b]
      BY <1>1, <1>3, <2>2
    <3>2. Unfold(w, a) = Unfold(u, a)
      BY <3>1, DependsBelow
    <3>3. CASE a = n + 1
      BY <2>2, <3>2, <3>3
    <3>4. CASE a # n + 1
      <4>1. a \in 1..n
        BY <1>1, <3>4
      <4> QED BY <2>1, <2>2, <3>2, <4>1
    <3> QED BY <3>3, <3>4
  <2>4. Rec(w, n + 1) /\ n + 1 \in 0..N
    BY <1>1, <1>3, <2>3
  <2> HIDE DEF Rec
  <2> QED BY <2>4
<1>4. N \in G
  <2> HIDE DEF G
  <2> QED BY <1>1, <1>2, <1>3, CountUp
<1>5. PICK u : Rec(u, N)
  BY <1>4
<1>6. Def([a \in Address |-> u[a]])
  <2> DEFINE w == [a \in Address |-> u[a]]
  <2>1. \A a \in Address : w[a] = u[a]
    OBVIOUS
  <2> HIDE DEF w
  <2>2. ASSUME NEW a \in Address PROVE w[a] = Unfold(w, a)
    <3>1. \A b \in 1..(a - 1) : b \in Address
      BY <1>1
    <3>2. Unfold(w, a) = Unfold(u, a)
      BY <2>1, <3>1, DependsBelow
    <3> QED BY <1>1, <1>5, <2>1, <3>2
  <2>3. w = [a \in Address |-> w[a]]
    BY DEF w
  <2> QED BY <2>2, <2>3 DEF w
<1>7. Meaning = CHOOSE m : Def(m)
  BY DEF Meaning
<1>8. Def(Meaning)
  <2> HIDE DEF Def
  <2> QED BY <1>6, <1>7
<1>9. ASSUME NEW a \in Address PROVE Meaning[a] = Unfold(Meaning, a)
  BY <1>8
<1> QED BY <1>9 DEF IsMeaning

\* The same for the records that are looked for.
LEMMA HasRecordDefined ==
  ASSUME IInv
  PROVE  FindsRecords(HasRecord)
<1> DEFINE N == Len(objects)
           Rec(m, n) == \A a \in 1..n : m[a] = HoldsRecord(m, a)
           G == {n \in 0..N : \E m : Rec(m, n)}
           Def(m) == m = [a \in Address |-> HoldsRecord(m, a)]
<1>1. N \in Nat /\ Address = 1..N
  BY DEF IInv, TypeOK, Address
<1>2. 0 \in G
  <2>1. \A m : Rec(m, 0)
    OBVIOUS
  <2> QED BY <1>1, <2>1
<1>3. ASSUME NEW n \in 0..N, n \in G, n < N PROVE n + 1 \in G
  <2>1. PICK u : Rec(u, n)
    BY <1>3
  <2> DEFINE w == [a \in 1..(n + 1) |-> IF a = n + 1 THEN HoldsRecord(u, n + 1) ELSE u[a]]
  <2>2. /\ \A b \in 1..n : w[b] = u[b]
        /\ w[n + 1] = HoldsRecord(u, n + 1)
    BY <1>1
  <2> HIDE DEF w
  <2>3. ASSUME NEW a \in 1..(n + 1) PROVE w[a] = HoldsRecord(w, a)
    <3>1. a \in Address /\ \A b \in 1..(a - 1) : w[b] = u[b]
      BY <1>1, <1>3, <2>2
    <3>2. HoldsRecord(w, a) = HoldsRecord(u, a)
      BY <3>1, DependsBelow
    <3>3. CASE a = n + 1
      BY <2>2, <3>2, <3>3
    <3>4. CASE a # n + 1
      <4>1. a \in 1..n
        BY <1>1, <3>4
      <4> QED BY <2>1, <2>2, <3>2, <4>1
    <3> QED BY <3>3, <3>4
  <2>4. Rec(w, n + 1) /\ n + 1 \in 0..N
    BY <1>1, <1>3, <2>3
  <2> HIDE DEF Rec
  <2> QED BY <2>4
<1>4. N \in G
  <2> HIDE DEF G
  <2> QED BY <1>1, <1>2, <1>3, CountUp
<1>5. PICK u : Rec(u, N)
  BY <1>4
<1>6. Def([a \in Address |-> u[a]])
  <2> DEFINE w == [a \in Address |-> u[a]]
  <2>1. \A a \in Address : w[a] = u[a]
    OBVIOUS
  <2> HIDE DEF w
  <2>2. ASSUME NEW a \in Address PROVE w[a] = HoldsRecord(w, a)
    <3>1. \A b \in 1..(a - 1) : b \in Address
      BY <1>1
    <3>2. HoldsRecord(w, a) = HoldsRecord(u, a)
      BY <2>1, <3>1, DependsBelow
    <3> QED BY <1>1, <1>5, <2>1, <3>2
  <2>3. w = [a \in Address |-> w[a]]
    BY DEF w
  <2> QED BY <2>2, <2>3 DEF w
<1>7. HasRecord = CHOOSE m : Def(m)
  BY DEF HasRecord
<1>8. Def(HasRecord)
  <2> HIDE DEF Def
  <2> QED BY <1>6, <1>7
<1>9. ASSUME NEW a \in Address PROVE HasRecord[a] = HoldsRecord(HasRecord, a)
  BY <1>8
<1> QED BY <1>9 DEF FindsRecords

\* Comparing the addresses of two types is comparing the types, if there is no
\* object or enum in them: however a client has built them, getPointerType,
\* getArrayType, getFuncType and getNamedType have given it one address.
THEOREM CanonicalAddresses == Spec => []Canonical
<1>1. IInv => Canonical
  BY OneAddress, MeaningDefined, HasRecordDefined DEF Canonical
<1> QED BY <1>1, Invariance, PTL
=============================================================================
