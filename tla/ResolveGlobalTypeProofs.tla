---------------------- MODULE ResolveGlobalTypeProofs ----------------------
(***************************************************************************)
(* Proofs about the first semantic pass, for every translation unit.       *)
(***************************************************************************)
EXTENDS ResolveGlobalType, FiniteSetTheorems, TLAPS

LOCAL INSTANCE SequencesExt

-----------------------------------------------------------------------------
(* Numbers and counting.                                                   *)

\* Induction up to a bound: a set that has 0 and with n also n + 1.  (From a
\* number that is not in it one could count down without end.)
LEMMA CountUp ==
  ASSUME NEW N \in Nat, NEW G, 0 \in G,
         \A n \in 0..N : n \in G /\ n < N => n + 1 \in G
  PROVE  0..N \subseteq G
<1> SUFFICES ASSUME NEW t \in 0..N, t \notin G PROVE FALSE
  OBVIOUS
<1> DEFINE B == {n \in 0..t : n \notin G}
           f == [n \in B |-> n - 1]
<1>1. t \in B /\ B \in SUBSET (0..t)
  OBVIOUS
<1>2. IsFiniteSet(B) /\ Cardinality(B) \in Nat
  <2>1. IsFiniteSet(0..t)
    BY FS_Interval
  <2> HIDE DEF B
  <2> QED BY <1>1, <2>1, FS_Subset, FS_CardinalityType
<1>3. ASSUME NEW n \in B PROVE n - 1 \in B \ {t} /\ n \in Nat
  <2>1. n \in 0..t /\ n # 0 /\ n \notin G
    BY <1>3
  <2>2. n - 1 \in 0..N /\ n - 1 < N /\ (n - 1) + 1 = n /\ n - 1 \in 0..t /\ n - 1 # t
    BY <2>1
  <2> QED BY <2>1, <2>2
<1>4. f \in [B -> B \ {t}]
  BY <1>3
<1>5. IsFiniteSet(B \ {t}) /\ Cardinality(B \ {t}) < Cardinality(B)
  <2> HIDE DEF B
  <2>1. IsFiniteSet(B \ {t}) /\ Cardinality(B \ {t}) = Cardinality(B) - 1
    BY <1>1, <1>2, FS_RemoveElement
  <2> QED BY <1>2, <2>1
<1>6. PICK x, y \in B : x # y /\ f[x] = f[y]
  <2> HIDE DEF B, f
  <2> QED BY <1>2, <1>4, <1>5, FS_PigeonHole
<1>7. x - 1 = y - 1 /\ x \in Nat /\ y \in Nat
  BY <1>3, <1>6
<1> QED BY <1>6, <1>7

\* A set of numbers has a least one.
LEMMA LeastNumber ==
  ASSUME NEW T, T \subseteq Nat, T # {}
  PROVE  \E a \in T : \A b \in T : ~(b < a)
<1> SUFFICES ASSUME \A a \in T : \E b \in T : b < a PROVE FALSE
  OBVIOUS
<1>1. PICK t \in T : TRUE
  OBVIOUS
<1> DEFINE G == {n \in 0..t : \A m \in 0..n : m \notin T}
<1>2. t \in Nat
  BY <1>1
<1>3. 0 \in G
  <2>1. \A m \in 0..0 : m = 0
    OBVIOUS
  <2>2. \A b \in T : ~(b < 0)
    OBVIOUS
  <2> QED BY <1>2, <2>1, <2>2
<1>4. ASSUME NEW n \in 0..t, n \in G, n < t PROVE n + 1 \in G
  <2>1. n + 1 \in 0..t /\ \A m \in 0..(n + 1) : m \in 0..n \/ m = n + 1
    BY <1>2, <1>4
  <2>2. \A b \in T : ~(b < n + 1)
    <3>1. \A b \in T : b < n + 1 => b \in 0..n
      BY <1>4
    <3> QED BY <1>4, <3>1
  <2> QED BY <1>4, <2>1, <2>2
<1> HIDE DEF G
<1>5. 0..t \subseteq G
  BY <1>2, <1>3, <1>4, CountUp
<1>6. t \in G
  BY <1>2, <1>5
<1> QED BY <1>1, <1>2, <1>6 DEF G

\* A finite set of numbers has a greatest one.
LEMMA GreatestNumber ==
  ASSUME NEW T, T \subseteq Nat, T # {}, IsFiniteSet(T)
  PROVE  \E a \in T : \A b \in T : ~(a < b)
<1> DEFINE More(a) == {b \in T : a < b}
           C == {Cardinality(More(a)) : a \in T}
<1>1. \A a \in T : IsFiniteSet(More(a)) /\ Cardinality(More(a)) \in Nat
  <2> TAKE a \in T
  <2>1. More(a) \in SUBSET T
    OBVIOUS
  <2> QED BY <2>1, FS_Subset, FS_CardinalityType
<1>2. C \subseteq Nat /\ C # {}
  BY <1>1
<1>3. PICK c \in C : \A d \in C : ~(d < c)
  <2> HIDE DEF C
  <2> QED BY <1>2, LeastNumber
<1>4. PICK a \in T : c = Cardinality(More(a))
  BY <1>3
<1>5. ASSUME NEW b \in T, a < b PROVE FALSE
  <2>0. \A m \in T : b < m => a < m /\ m # b
    BY <1>5
  <2>1. More(b) \in SUBSET (More(a) \ {b}) /\ b \in More(a) /\ IsFiniteSet(More(a))
    <3>1. IsFiniteSet(More(a))
      BY <1>1
    <3> QED BY <1>5, <2>0, <3>1
  <2> HIDE DEF More
  <2>2. IsFiniteSet(More(a) \ {b}) /\ Cardinality(More(a) \ {b}) = Cardinality(More(a)) - 1
    BY <2>1, FS_RemoveElement
  <2>3. Cardinality(More(b)) <= Cardinality(More(a) \ {b})
    BY <2>1, <2>2, FS_Subset
  <2>4. Cardinality(More(b)) < Cardinality(More(a))
    BY <1>1, <2>2, <2>3
  <2> QED BY <1>3, <1>4, <1>5, <2>4
<1> QED BY <1>5

-----------------------------------------------------------------------------
(* Sequences put one behind the other.                                     *)

Elements(s) == {s[k] : k \in DOMAIN s}

LEMMA JoinedElements ==
  ASSUME NEW X, NEW a \in Seq(X), NEW b \in Seq(X)
  PROVE  a \o b \in Seq(X) /\ Elements(a \o b) = Elements(a) \union Elements(b)
<1>1. /\ a \o b \in Seq(X) /\ Len(a) \in Nat /\ Len(b) \in Nat
      /\ DOMAIN a = 1..Len(a) /\ DOMAIN b = 1..Len(b)
      /\ DOMAIN (a \o b) = 1..(Len(a) + Len(b))
      /\ \A q \in 1..Len(a) : (a \o b)[q] = a[q]
      /\ \A q \in 1..Len(b) : (a \o b)[Len(a) + q] = b[q]
  OBVIOUS
<1>2. PICK m, n : m = Len(a) /\ n = Len(b)
  OBVIOUS
<1>3. \A q \in 1..m : q \in 1..(m + n)
  BY <1>1, <1>2
<1>4. \A q \in 1..n : m + q \in 1..(m + n)
  BY <1>1, <1>2
<1>5. \A q \in 1..(m + n) : q \in 1..m \/ (q - m \in 1..n /\ q = m + (q - m))
  BY <1>1, <1>2
<1>6. Elements(a) \subseteq Elements(a \o b)
  BY <1>1, <1>2, <1>3 DEF Elements
<1>7. Elements(b) \subseteq Elements(a \o b)
  BY <1>1, <1>2, <1>4 DEF Elements
<1>8. Elements(a \o b) \subseteq Elements(a) \union Elements(b)
  BY <1>1, <1>2, <1>5 DEF Elements
<1> QED BY <1>1, <1>6, <1>7, <1>8

\* The recursive function of FlattenSeq has a value.
LEMMA FlattenStages ==
  ASSUME NEW s, NEW n \in Nat, n = Len(s), n # 0
  PROVE  \E f : /\ FlattenSeq(s) = f[n]
                /\ f[1] = s[1]
                /\ \A i \in 2..n : f[i] = f[i - 1] \o s[i]
<1> DEFINE Def(f) == f = [i \in 1..Len(s) |-> IF i = 1 THEN s[i] ELSE f[i - 1] \o s[i]]
           Rec(f, k) == \A i \in 1..k : f[i] = IF i = 1 THEN s[i] ELSE f[i - 1] \o s[i]
           G == {k \in 0..n : \E f : Rec(f, k)}
<1>1. 0 \in G
  <2>1. \A f : Rec(f, 0)
    OBVIOUS
  <2> QED BY <2>1
<1>2. ASSUME NEW k \in 0..n, k \in G, k < n PROVE k + 1 \in G
  <2>1. PICK u : Rec(u, k)
    BY <1>2
  <2> DEFINE w == [i \in 1..(k + 1) |->
                     IF i = k + 1 THEN IF i = 1 THEN s[i] ELSE u[i - 1] \o s[i] ELSE u[i]]
  <2>2. ASSUME NEW i \in 1..(k + 1) PROVE w[i] = IF i = 1 THEN s[i] ELSE w[i - 1] \o s[i]
    <3>1. i # 1 => i - 1 \in 1..(k + 1) /\ w[i - 1] = u[i - 1]
      OBVIOUS
    <3>2. CASE i = k + 1
      BY <3>1, <3>2
    <3>3. CASE i # k + 1
      <4>1. i \in 1..k /\ w[i] = u[i]
        BY <3>3
      <4>2. u[i] = IF i = 1 THEN s[i] ELSE u[i - 1] \o s[i]
        BY <2>1, <4>1
      <4> HIDE DEF w
      <4> QED BY <3>1, <4>1, <4>2
    <3> QED BY <3>2, <3>3
  <2>3. Rec(w, k + 1)
    BY <2>2
  <2>4. \E f : Rec(f, k + 1)
    <3> HIDE DEF Rec, w
    <3> QED BY <2>3
  <2>5. k + 1 \in 0..n
    BY <1>2
  <2> HIDE DEF Rec
  <2> QED BY <2>4, <2>5
<1>3. n \in G
  <2> HIDE DEF G
  <2>1. 0..n \subseteq G
    BY <1>1, <1>2, CountUp
  <2> QED BY <2>1
<1>4. PICK u : Rec(u, n)
  BY <1>3
<1>5. Def([i \in 1..n |-> u[i]])
  <2> DEFINE w == [i \in 1..n |-> u[i]]
  <2>1. ASSUME NEW i \in 1..n PROVE w[i] = IF i = 1 THEN s[i] ELSE w[i - 1] \o s[i]
    <3>1. w[i] = u[i] /\ (i # 1 => i - 1 \in 1..n /\ w[i - 1] = u[i - 1])
      OBVIOUS
    <3>2. u[i] = IF i = 1 THEN s[i] ELSE u[i - 1] \o s[i]
      BY <1>4
    <3> HIDE DEF w
    <3> QED BY <3>1, <3>2
  <2> QED BY <2>1
<1>6. PICK f : f = CHOOSE g : Def(g)
  OBVIOUS
<1>7. Def(f)
  <2> HIDE DEF Def
  <2> QED BY <1>5, <1>6
<1>8. FlattenSeq(s) = f[n]
  BY <1>6 DEF FlattenSeq
<1>9. \A i \in 1..n : f[i] = IF i = 1 THEN s[i] ELSE f[i - 1] \o s[i]
  BY <1>7
<1> HIDE DEF Def
<1>10. f[1] = s[1]
  <2>1. 1 \in 1..n
    OBVIOUS
  <2> QED BY <1>9, <2>1
<1>11. ASSUME NEW i \in 2..n PROVE f[i] = f[i - 1] \o s[i]
  <2>1. i \in 1..n /\ i # 1
    OBVIOUS
  <2>2. f[i] = IF i = 1 THEN s[i] ELSE f[i - 1] \o s[i]
    BY <1>9, <2>1
  <2> QED BY <2>1, <2>2
<1> QED BY <1>8, <1>10, <1>11

\* FlattenSeq has the elements of all the sequences.
LEMMA FlattenElements ==
  ASSUME NEW X, NEW s, NEW n \in Nat, n = Len(s), DOMAIN s = 1..n, \A i \in 1..n : s[i] \in Seq(X)
  PROVE  /\ FlattenSeq(s) \in Seq(X)
         /\ Elements(FlattenSeq(s)) = UNION {Elements(s[i]) : i \in 1..n}
<1>1. CASE n = 0
  <2>1. FlattenSeq(s) = <<>>
    <3>1. s = <<>>
      BY <1>1
    <3> QED BY <1>1, <3>1 DEF FlattenSeq
  <2>2. Elements(<<>>) = {}
    BY DEF Elements
  <2>3. 1..n = {}
    BY <1>1
  <2> QED BY <2>1, <2>2, <2>3
<1>2. CASE n # 0
  <2>1. PICK f : /\ FlattenSeq(s) = f[n]
                 /\ f[1] = s[1]
                 /\ \A i \in 2..n : f[i] = f[i - 1] \o s[i]
    BY <1>2, FlattenStages
  <2> DEFINE Upto(k) == UNION {Elements(s[i]) : i \in 1..k}
             G == {k \in 0..n : k # 0 => f[k] \in Seq(X) /\ Elements(f[k]) = Upto(k)}
  <2>2. 0 \in G
    OBVIOUS
  <2>3. ASSUME NEW k \in 0..n, k \in G, k < n PROVE k + 1 \in G
    <3>1. k + 1 \in 1..n /\ k + 1 \in 0..n /\ s[k + 1] \in Seq(X)
      BY <2>3
    <3>2. Upto(k + 1) = Upto(k) \union Elements(s[k + 1])
      <4>1. 1..(k + 1) = (1..k) \union {k + 1}
        BY <2>3
      <4> QED BY <4>1
    <3>3. CASE k = 0
      <4>1. f[k + 1] = s[k + 1] /\ Upto(k) = {}
        BY <2>1, <3>3
      <4> HIDE DEF Upto
      <4> QED BY <3>1, <3>2, <4>1
    <3>4. CASE k # 0
      <4>1. k + 1 \in 2..n /\ (k + 1) - 1 = k
        BY <2>3, <3>4
      <4>2. f[k + 1] = f[k] \o s[k + 1]
        BY <2>1, <4>1
      <4>3. f[k] \in Seq(X) /\ Elements(f[k]) = Upto(k)
        BY <2>3, <3>4
      <4> HIDE DEF Upto
      <4>5. PICK u \in Seq(X), v \in Seq(X) : u = f[k] /\ v = s[k + 1]
        BY <3>1, <4>3
      <4>6. u \o v \in Seq(X) /\ Elements(u \o v) = Elements(u) \union Elements(v)
        BY JoinedElements
      <4>4. f[k + 1] \in Seq(X) /\ Elements(f[k + 1]) = Upto(k + 1)
        BY <3>2, <4>2, <4>3, <4>5, <4>6
      <4> QED BY <3>1, <4>4
    <3> QED BY <3>3, <3>4
  <2> HIDE DEF G
  <2>4. 0..n \subseteq G
    BY <2>2, <2>3, CountUp
  <2>5. n \in G
    BY <2>4
  <2> QED BY <1>2, <2>1, <2>5 DEF G
<1> QED BY <1>1, <1>2

-----------------------------------------------------------------------------
(* The translation unit.                                                   *)

\* What a translation unit is made of.
LEMMA ProgramType ==
  ASSUME prog \in Programs
  PROVE  /\ prog.items \in Seq(Item)
         /\ Len(prog.items) \in Nat
         /\ DOMAIN prog.items = 1..Len(prog.items)
         /\ \A i \in DOMAIN prog.items : prog.items[i] \in Item
         /\ \A n \in Node : n # Null /\ prog.nodes[n] \in TypeNode
<1>1. prog.items \in Seq(Item)
  BY ProgramAssumption
<1>2. \A n \in Node : n # Null /\ prog.nodes[n] \in TypeNode
  BY ProgramAssumption DEF Node
<1> QED BY <1>1, <1>2

LEMMA NodeType ==
  ASSUME prog \in Programs
  PROVE  /\ IsFiniteSet(Node) /\ Node \subseteq Nat /\ Null \notin Node
         /\ \A n \in Node :
              /\ prog.nodes[n].kind = "Ref" <=> prog.nodes[n].kids = <<>>
              /\ Len(prog.nodes[n].kids) \in Nat
              /\ DOMAIN prog.nodes[n].kids = 1..Len(prog.nodes[n].kids)
              /\ \A k \in DOMAIN prog.nodes[n].kids :
                   prog.nodes[n].kids[k] # Null =>
                     prog.nodes[n].kids[k] \in Node /\ prog.nodes[n].kids[k] > n
         /\ \A i \in DOMAIN prog.items :
              /\ prog.items[i].roots \in Seq(Node)
              /\ prog.items[i].kind # "Plain" => Len(prog.items[i].roots) = 1
<1>1. IsFiniteSet(Node) /\ Node \subseteq Nat /\ Null \notin Node
  BY ProgramAssumption DEF Node
<1>2. ASSUME NEW n \in Node
      PROVE  /\ prog.nodes[n].kind = "Ref" <=> prog.nodes[n].kids = <<>>
             /\ \A k \in DOMAIN prog.nodes[n].kids :
                  prog.nodes[n].kids[k] # Null =>
                    prog.nodes[n].kids[k] \in Node /\ prog.nodes[n].kids[k] > n
  BY ProgramAssumption DEF Node
<1>3. ASSUME NEW n \in Node
      PROVE  /\ Len(prog.nodes[n].kids) \in Nat
             /\ DOMAIN prog.nodes[n].kids = 1..Len(prog.nodes[n].kids)
  <2>1. prog.nodes[n].kids \in Seq(Nat)
    BY ProgramType DEF TypeNode
  <2> QED BY <2>1
<1>4. ASSUME NEW i \in DOMAIN prog.items
      PROVE  /\ prog.items[i].roots \in Seq(Node)
             /\ prog.items[i].kind # "Plain" => Len(prog.items[i].roots) = 1
  <2>1. prog.items[i].roots \in Seq(Nat)
    BY ProgramType DEF Item
  <2>2. /\ \A k \in DOMAIN prog.items[i].roots : prog.items[i].roots[k] \in Node
        /\ prog.items[i].kind # "Plain" => Len(prog.items[i].roots) = 1
    BY ProgramAssumption DEF Node
  <2>3. ASSUME NEW s \in Seq(Nat), \A k \in DOMAIN s : s[k] \in Node
        PROVE  s \in Seq(Node)
    BY <2>3
  <2> QED BY <2>1, <2>2, <2>3
<1> QED BY <1>1, <1>2, <1>3, <1>4

IsRef(n) == prog.nodes[n].kind = "Ref"

Kids(n) == prog.nodes[n].kids

LEMMA KidType ==
  ASSUME prog \in Programs, NEW n \in Node, NEW k \in DOMAIN Kids(n), Kids(n)[k] # Null
  PROVE  Kids(n)[k] \in Node /\ n < Kids(n)[k] /\ n \in Nat /\ Kids(n)[k] \in Nat
<1>1. Kids(n)[k] \in Node /\ Kids(n)[k] > n /\ n \in Nat
  BY NodeType DEF Kids
<1> QED BY <1>1, NodeType

\* What holds for a node when it holds for its parts holds for all nodes.
LEMMA PartsFirst ==
  ASSUME prog \in Programs, NEW S \in SUBSET Node,
         \A n \in Node : (\A k \in DOMAIN Kids(n) : Kids(n)[k] \in S \union {Null}) => n \in S
  PROVE  S = Node
<1> SUFFICES ASSUME S # Node PROVE FALSE
  OBVIOUS
<1> DEFINE T == Node \ S
<1>1. T \subseteq Nat /\ T # {} /\ IsFiniteSet(T)
  <2>1. IsFiniteSet(Node) /\ Node \subseteq Nat
    BY NodeType
  <2>2. T \in SUBSET Node
    OBVIOUS
  <2> QED BY <2>1, <2>2, FS_Subset
<1>2. PICK a \in T : \A b \in T : ~(a < b)
  <2> HIDE DEF T
  <2> QED BY <1>1, GreatestNumber
<1>3. PICK k \in DOMAIN Kids(a) : Kids(a)[k] \notin S \union {Null}
  BY <1>2
<1>4. Kids(a)[k] \in T /\ a < Kids(a)[k]
  BY <1>2, <1>3, KidType
<1> QED BY <1>2, <1>4

\* What holds for a node when it is a root or holds for a node it is part of
\* holds for all nodes.
LEMMA RootsFirst ==
  ASSUME prog \in Programs, NEW S \in SUBSET Node,
         \A i \in DOMAIN prog.items : \A k \in DOMAIN prog.items[i].roots : prog.items[i].roots[k] \in S,
         \A n \in S : \A k \in DOMAIN Kids(n) : Kids(n)[k] \in S \union {Null}
  PROVE  S = Node
<1> SUFFICES ASSUME S # Node PROVE FALSE
  OBVIOUS
<1> DEFINE T == Node \ S
<1>1. T \subseteq Nat /\ T # {}
  BY NodeType
<1>2. PICK a \in T : \A b \in T : ~(b < a)
  <2> HIDE DEF T
  <2> QED BY <1>1, LeastNumber
<1>3. PICK m \in Node : \E k \in DOMAIN Kids(m) : Kids(m)[k] = a
  BY <1>2, WalkAssumption DEF Node, Kids
<1>4. a # Null /\ m < a
  BY <1>2, <1>3, KidType, NodeType
<1>5. m \in S
  BY <1>2, <1>4
<1> QED BY <1>2, <1>3, <1>4, <1>5

-----------------------------------------------------------------------------
(* The references below a node.                                            *)

\* The recursive function of RefsBelow has a value.
LEMMA RefsUnfold ==
  ASSUME prog \in Programs, NEW n \in Node \union {Null}
  PROVE  RefsBelow(prog)[n] =
           IF n = Null \/ IsRef(n) THEN <<n>>
           ELSE FlattenSeq([k \in DOMAIN Kids(n) |-> RefsBelow(prog)[Kids(n)[k]]])
<1> DEFINE D == Node \union {Null}
           Expr(f, m) == IF m = Null \/ prog.nodes[m].kind = "Ref" THEN <<m>>
                         ELSE FlattenSeq([k \in DOMAIN prog.nodes[m].kids |-> f[prog.nodes[m].kids[k]]])
           Def(f) == f = [m \in D |-> Expr(f, m)]
           From(f, i) == f[Null] = <<Null>> /\ \A m \in Node : ~(m < i) => f[m] = Expr(f, m)
           H == {i \in Nat : \E f : From(f, i)}
<1>1. ASSUME NEW f, NEW g, NEW m \in Node, \A k \in DOMAIN Kids(m) : f[Kids(m)[k]] = g[Kids(m)[k]]
      PROVE  Expr(f, m) = Expr(g, m)
  <2>1. [k \in DOMAIN Kids(m) |-> f[Kids(m)[k]]] = [k \in DOMAIN Kids(m) |-> g[Kids(m)[k]]]
    BY <1>1
  <2> QED BY <2>1 DEF Kids
<1>2. \A f : Expr(f, Null) = <<Null>>
  OBVIOUS
<1>3. PICK N \in Nat : \A m \in Node : m < N
  <2>1. CASE Node = {}
    BY <2>1
  <2>2. CASE Node # {}
    <3>1. PICK a \in Node : \A b \in Node : ~(a < b)
      BY <2>2, NodeType, GreatestNumber
    <3>2. a \in Nat /\ \A b \in Node : b \in Nat
      BY <3>1, NodeType
    <3>3. \A b \in Node : b < a + 1
      BY <3>1, <3>2
    <3> QED BY <3>2, <3>3
  <2> QED BY <2>1, <2>2
<1>4. N \in H
  <2>1. PICK f : f = [m \in D |-> <<Null>>]
    OBVIOUS
  <2>2. f[Null] = <<Null>>
    BY <2>1
  <2>3. From(f, N)
    BY <1>3, <2>2
  <2> HIDE DEF From
  <2> QED BY <2>3
<1>5. ASSUME NEW i \in Nat, i + 1 \in H PROVE i \in H
  <2>1. PICK f : From(f, i + 1)
    BY <1>5
  <2>2. PICK w : w = [m \in D |-> IF m = i THEN Expr(f, m) ELSE f[m]]
    OBVIOUS
  <2>3. w[Null] = <<Null>>
    BY <1>2, <2>1, <2>2
  <2>4. ASSUME NEW m \in Node, ~(m < i) PROVE w[m] = Expr(w, m)
    <3>1. ASSUME NEW k \in DOMAIN Kids(m) PROVE f[Kids(m)[k]] = w[Kids(m)[k]]
      <4>1. CASE Kids(m)[k] = Null
        BY <2>1, <2>3, <4>1
      <4>2. CASE Kids(m)[k] # Null
        <5>1. Kids(m)[k] \in Node /\ Kids(m)[k] # i
          BY <2>4, <4>2, KidType
        <5> HIDE DEF Expr
        <5> QED BY <2>2, <5>1
      <4> QED BY <4>1, <4>2
    <3>2. Expr(f, m) = Expr(w, m)
      <4> HIDE DEF Expr
      <4> QED BY <1>1, <3>1
    <3>3. m \in Nat /\ (m = i \/ ~(m < i + 1))
      BY <2>4, NodeType
    <3>4. w[m] = Expr(f, m)
      <4> HIDE DEF Expr
      <4> QED BY <2>1, <2>2, <3>3
    <3> HIDE DEF Expr
    <3> QED BY <3>2, <3>4
  <2>5. From(w, i)
    <3> HIDE DEF Expr
    <3> QED BY <2>3, <2>4
  <2> HIDE DEF From
  <2> QED BY <2>5
<1>6. 0 \in H
  <2> HIDE DEF H
  <2> DEFINE G == {j \in 0..N : N - j \in H}
  <2>1. 0 \in G
    BY <1>3, <1>4
  <2>2. ASSUME NEW j \in 0..N, j \in G, j < N PROVE j + 1 \in G
    <3>1. N - (j + 1) \in Nat /\ (N - (j + 1)) + 1 = N - j /\ j + 1 \in 0..N
      BY <2>2
    <3> QED BY <1>5, <2>2, <3>1
  <2> HIDE DEF G
  <2>3. 0..N \subseteq G
    BY <2>1, <2>2, CountUp
  <2>4. N \in G
    BY <2>3
  <2> QED BY <2>4 DEF G
<1>7. PICK u : From(u, 0)
  BY <1>6
<1>8. \E f : Def(f)
  <2>1. PICK w : w = [m \in D |-> u[m]]
    OBVIOUS
  <2>2. w[Null] = <<Null>>
    BY <1>7, <2>1
  <2>3. ASSUME NEW m \in Node PROVE w[m] = Expr(w, m)
    <3>1. \A k \in DOMAIN Kids(m) : u[Kids(m)[k]] = w[Kids(m)[k]]
      BY <2>1, KidType
    <3>2. ~(m < 0)
      BY NodeType
    <3> HIDE DEF Expr
    <3> QED BY <1>1, <1>7, <2>1, <3>1, <3>2
  <2>4. \A m \in D : w[m] = Expr(w, m)
    <3> HIDE DEF Expr
    <3> QED BY <1>2, <2>2, <2>3
  <2>5. Def(w)
    <3> HIDE DEF Expr
    <3> QED BY <2>1, <2>4
  <2> HIDE DEF Def
  <2> QED BY <2>5
<1>9. PICK f : f = CHOOSE h : Def(h)
  OBVIOUS
<1>10. Def(f)
  <2> HIDE DEF Def
  <2> QED BY <1>8, <1>9
<1>11. RefsBelow(prog) = f
  BY <1>9 DEF RefsBelow, Node
<1>12. f[n] = Expr(f, n)
  <2> HIDE DEF Expr
  <2> QED BY <1>10
<1> QED BY <1>11, <1>12 DEF Kids, IsRef

Refs(n) == Elements(RefsBelow(prog)[n])

LEMMA RefsParts ==
  ASSUME prog \in Programs
  PROVE  /\ \A n \in Node \union {Null} : RefsBelow(prog)[n] \in Seq(Node \union {Null})
         /\ \A n \in Node : Refs(n) = IF IsRef(n) THEN {n}
                                      ELSE UNION {Refs(Kids(n)[k]) : k \in DOMAIN Kids(n)}
         /\ Refs(Null) = {Null}
<1> DEFINE X == Node \union {Null}
           S == {n \in Node : RefsBelow(prog)[n] \in Seq(X)}
<1>1. \A m : Elements(<<m>>) = {m}
  BY DEF Elements
<1>2. RefsBelow(prog)[Null] = <<Null>>
  BY RefsUnfold
<1>3. RefsBelow(prog)[Null] \in Seq(X) /\ Refs(Null) = {Null}
  BY <1>1, <1>2 DEF Refs
<1>4. ASSUME NEW n \in Node, \A k \in DOMAIN Kids(n) : RefsBelow(prog)[Kids(n)[k]] \in Seq(X)
      PROVE  /\ RefsBelow(prog)[n] \in Seq(X)
             /\ Refs(n) = IF IsRef(n) THEN {n}
                          ELSE UNION {Refs(Kids(n)[k]) : k \in DOMAIN Kids(n)}
  <2>0. n # Null
    BY NodeType
  <2>1. CASE IsRef(n)
    <3>1. RefsBelow(prog)[n] = <<n>>
      BY <2>1, RefsUnfold
    <3> QED BY <1>1, <2>1, <3>1 DEF Refs
  <2>2. CASE ~IsRef(n)
    <3>1. PICK s : s = [k \in DOMAIN Kids(n) |-> RefsBelow(prog)[Kids(n)[k]]]
      OBVIOUS
    <3>2. PICK c \in Nat : DOMAIN Kids(n) = 1..c
      BY NodeType DEF Kids
    <3>3. c = Len(s) /\ DOMAIN s = 1..c /\ \A i \in 1..c : s[i] \in Seq(X)
      BY <1>4, <3>1, <3>2
    <3>4. RefsBelow(prog)[n] = FlattenSeq(s)
      BY <2>0, <2>2, <3>1, RefsUnfold
    <3>5. /\ FlattenSeq(s) \in Seq(X)
          /\ Elements(FlattenSeq(s)) = UNION {Elements(s[i]) : i \in 1..c}
      BY <3>3, FlattenElements
    <3>6. \A i \in 1..c : Elements(s[i]) = Refs(Kids(n)[i])
      BY <3>1, <3>2 DEF Refs
    <3>7. UNION {Elements(s[i]) : i \in 1..c} = UNION {Refs(Kids(n)[k]) : k \in DOMAIN Kids(n)}
      BY <3>2, <3>6
    <3> QED BY <2>2, <3>4, <3>5, <3>7 DEF Refs
  <2> QED BY <2>1, <2>2
<1>5. S = Node
  <2>1. ASSUME NEW n \in Node, \A k \in DOMAIN Kids(n) : Kids(n)[k] \in S \union {Null}
        PROVE  n \in S
    BY <1>3, <1>4, <2>1
  <2> HIDE DEF S
  <2>2. S \in SUBSET Node
    BY DEF S
  <2> QED BY <2>1, <2>2, PartsFirst
<1>6. \A m \in X : RefsBelow(prog)[m] \in Seq(X)
  BY <1>3, <1>5
<1>7. ASSUME NEW n \in Node, NEW k \in DOMAIN Kids(n) PROVE Kids(n)[k] \in X
  BY <1>7, KidType
<1> HIDE DEF X, S
<1>8. \A n \in Node : Refs(n) = IF IsRef(n) THEN {n}
                                ELSE UNION {Refs(Kids(n)[k]) : k \in DOMAIN Kids(n)}
  BY <1>4, <1>6, <1>7
<1> QED BY <1>3, <1>6, <1>8 DEF X

\* What is visited on behalf of some roots.
LEMMA RefsOfRoots ==
  ASSUME prog \in Programs, NEW roots \in Seq(Node)
  PROVE  /\ RefsOf(prog, roots) \in Seq(Node \union {Null})
         /\ Elements(RefsOf(prog, roots)) = UNION {Refs(roots[k]) : k \in DOMAIN roots}
<1>1. PICK s : s = [k \in DOMAIN roots |-> RefsBelow(prog)[roots[k]]]
  OBVIOUS
<1>2. PICK c \in Nat : c = Len(roots) /\ DOMAIN roots = 1..c /\ \A k \in 1..c : roots[k] \in Node
  OBVIOUS
<1>3. c = Len(s) /\ DOMAIN s = 1..c /\ \A i \in 1..c : s[i] \in Seq(Node \union {Null})
  BY <1>1, <1>2, RefsParts
<1>4. RefsOf(prog, roots) = FlattenSeq(s)
  BY <1>1 DEF RefsOf
<1>5. \A i \in 1..c : Elements(s[i]) = Refs(roots[i])
  BY <1>1, <1>2 DEF Refs
<1>6. UNION {Elements(s[i]) : i \in 1..c} = UNION {Refs(roots[k]) : k \in DOMAIN roots}
  BY <1>2, <1>5
<1>7. /\ FlattenSeq(s) \in Seq(Node \union {Null})
      /\ Elements(FlattenSeq(s)) = UNION {Elements(s[i]) : i \in 1..c}
  BY <1>3, FlattenElements
<1> QED BY <1>4, <1>6, <1>7

LEMMA RootsType ==
  ASSUME prog \in Programs
  PROVE  /\ Roots(prog) \in Seq(Node)
         /\ Elements(Roots(prog)) = UNION {Elements(prog.items[i].roots) : i \in DOMAIN prog.items}
<1>1. PICK s : s = [i \in DOMAIN prog.items |-> prog.items[i].roots]
  OBVIOUS
<1>2. PICK c \in Nat : DOMAIN prog.items = 1..c
  BY ProgramType
<1>3. c = Len(s) /\ DOMAIN s = 1..c /\ \A i \in 1..c : s[i] \in Seq(Node)
  BY <1>1, <1>2, NodeType
<1>4. Roots(prog) = FlattenSeq(s)
  BY <1>1 DEF Roots
<1>5. UNION {Elements(s[i]) : i \in 1..c} = UNION {Elements(prog.items[i].roots) : i \in DOMAIN prog.items}
  BY <1>1, <1>2
<1> QED BY <1>3, <1>4, <1>5, FlattenElements

\* The walks reach everything.
LEMMA RootRefs ==
  ASSUME prog \in Programs, NEW n \in Node
  PROVE  Refs(n) \subseteq Elements(RefsOf(prog, Roots(prog)))
<1> DEFINE all == Elements(RefsOf(prog, Roots(prog)))
           S == {m \in Node : Refs(m) \subseteq all}
<1>1. ASSUME NEW i \in DOMAIN prog.items, NEW k \in DOMAIN prog.items[i].roots
      PROVE  prog.items[i].roots[k] \in S
  <2>0. prog.items[i].roots[k] \in Elements(prog.items[i].roots)
    BY DEF Elements
  <2>1. prog.items[i].roots[k] \in Elements(Roots(prog)) /\ Roots(prog) \in Seq(Node)
    BY <2>0, RootsType
  <2>2. PICK q \in DOMAIN Roots(prog) : prog.items[i].roots[k] = Roots(prog)[q]
    BY <2>1 DEF Elements
  <2>3. Roots(prog)[q] \in Node
    BY <2>1
  <2>4. Refs(Roots(prog)[q]) \subseteq all
    BY <2>1, RefsOfRoots
  <2> QED BY <2>2, <2>3, <2>4
<1>2. ASSUME NEW m \in S, NEW k \in DOMAIN Kids(m)
      PROVE  Kids(m)[k] \in S \union {Null}
  <2>1. m \in Node /\ Refs(m) \subseteq all
    OBVIOUS
  <2>2. ~IsRef(m)
    BY <2>1, NodeType DEF Kids, IsRef
  <2>3. Refs(Kids(m)[k]) \subseteq Refs(m)
    BY <2>1, <2>2, RefsParts
  <2> QED BY <2>1, <2>3, KidType
<1> HIDE DEF S
<1>3. S \in SUBSET Node
  BY DEF S
<1>4. S = Node
  BY <1>1, <1>2, <1>3, RootsFirst
<1> QED BY <1>4 DEF S

\* What the walks visit.
LEMMA WalkType ==
  ASSUME prog \in Programs
  PROVE  /\ Roots(prog) \in Seq(Node)
         /\ \A k \in DOMAIN Roots(prog) : Roots(prog)[k] \in Node
         /\ RefsOf(prog, Roots(prog)) \in Seq(Node \union {Null})
         /\ \A n \in Node :
              /\ prog.nodes[n].kind = "Ref" =>
                   \E k \in DOMAIN RefsOf(prog, Roots(prog)) : RefsOf(prog, Roots(prog))[k] = n
              /\ Null \in {prog.nodes[n].kids[k] : k \in DOMAIN prog.nodes[n].kids} =>
                   \E k \in DOMAIN RefsOf(prog, Roots(prog)) : RefsOf(prog, Roots(prog))[k] = Null
<1>1. Roots(prog) \in Seq(Node)
  BY RootsType
<1>2. \A k \in DOMAIN Roots(prog) : Roots(prog)[k] \in Node
  BY <1>1
<1>3. RefsOf(prog, Roots(prog)) \in Seq(Node \union {Null})
  BY <1>1, RefsOfRoots
<1>4. ASSUME NEW n \in Node, NEW m \in Refs(n)
      PROVE  \E k \in DOMAIN RefsOf(prog, Roots(prog)) : RefsOf(prog, Roots(prog))[k] = m
  <2>1. m \in Elements(RefsOf(prog, Roots(prog)))
    BY <1>4, RootRefs
  <2> QED BY <2>1 DEF Elements
<1>5. \A n \in Node : IsRef(n) => n \in Refs(n)
  BY RefsParts
<1>6. ASSUME NEW n \in Node, NEW k \in DOMAIN Kids(n), Kids(n)[k] = Null
      PROVE  Null \in Refs(n)
  <2>1. ~IsRef(n)
    BY NodeType DEF Kids, IsRef
  <2>2. Refs(Kids(n)[k]) \subseteq Refs(n)
    BY <2>1, RefsParts
  <2> QED BY <1>6, <2>2, RefsParts
<1> QED BY <1>1, <1>2, <1>3, <1>4, <1>5, <1>6 DEF IsRef, Kids

\* A set of nodes that has the roots, and with a node its parts, has all nodes.
LEMMA TreeType ==
  ASSUME prog \in Programs, NEW S \in SUBSET Node,
         \A k \in DOMAIN Roots(prog) : Roots(prog)[k] \in S,
         \A n \in S : \A k \in DOMAIN prog.nodes[n].kids :
           prog.nodes[n].kids[k] \in S \union {Null}
  PROVE  S = Node
<1>1. ASSUME NEW i \in DOMAIN prog.items, NEW k \in DOMAIN prog.items[i].roots
      PROVE  prog.items[i].roots[k] \in S
  <2>0. prog.items[i].roots[k] \in Elements(prog.items[i].roots)
    BY DEF Elements
  <2>1. prog.items[i].roots[k] \in Elements(Roots(prog))
    BY <2>0, RootsType
  <2> QED BY <2>1 DEF Elements
<1> QED BY <1>1, RootsFirst DEF Kids

-----------------------------------------------------------------------------
(* The declarations of a name, and the one that counts.                    *)

\* How many items the first walk has visited.
Visited == Len(prog.items) - Len(todo)

Declares(i, x) == i \in Decls /\ prog.items[i].name = x

\* The scope holds the first declaration of a name, if it has any, once the
\* walk has come past it, and nothing else.
ScopeIs(s, x, visited) ==
  IF \E i \in Decls : Declares(i, x) /\ i <= visited
  THEN \E i \in Decls : FirstDecl(x) = {i} /\ s[x] = <<i>>
  ELSE s[x] = <<>>

Declaring ==
  /\ todo \in Seq(DOMAIN prog.items)
  /\ Len(todo) <= Len(prog.items)
  /\ \A k \in DOMAIN todo : todo[k] = Visited + k
  /\ \A n \in Node : declNode[n] = Indeterminate
  /\ \A x \in Name : ScopeIs(scope, x, Visited)

Declared == \A x \in Name : ScopeIs(scope, x, Len(prog.items))

\* The process stops at a null pointer in the first walk or in the second.
NamesInv ==
  /\ prog \in Programs
  /\ scope \in [Name -> Seq(Decls)]
  /\ phase = "declare" => Declaring
  /\ phase \notin {"declare", "null"} => Declared
  /\ phase = "resolve" => todo \in Seq(Node \union {Null})
  /\ DOMAIN declNode = Node
  /\ \A n \in Node : declNode[n][1] \in {"indeterminate", "file", "global"}
  /\ FirstDeclarationWins

\* A reference is resolved to the one declaration in the scope.
LEMMA FirstDeclIsFirst ==
  ASSUME NEW x, NEW i, NEW j, Declares(i, x), FirstDecl(x) = {j}
  PROVE  j \in Decls /\ prog.items[j].name = x /\ j <= i
BY DEF FirstDecl, Declares

\* An item that is declared while its name is new is the first of its name.
LEMMA NewNameIsFirst ==
  ASSUME prog \in Programs, phase = "declare", Declaring, todo # <<>>,
         Head(todo) \in Decls, ~IsDeclared(scope, prog.items[Head(todo)].name)
  PROVE  FirstDecl(prog.items[Head(todo)].name) = {Head(todo)}
<1> DEFINE i == Head(todo)
           x == prog.items[i].name
<1>1. i = Visited + 1 /\ Visited \in Nat /\ i \in DOMAIN prog.items
  BY ProgramType DEF Declaring, Visited
<1>2. x \in Name
  BY <1>1, ProgramType DEF Item
<1>3. ~ \E j \in Decls : Declares(j, x) /\ j <= Visited
  <2>1. ScopeIs(scope, x, Visited) /\ scope[x] = <<>>
    BY <1>2 DEF Declaring, IsDeclared
  <2>2. \A j : scope[x] # <<j>>
    BY <2>1
  <2> QED BY <2>1, <2>2 DEF ScopeIs
<1>4. \A j \in Decls : prog.items[j].name = x => i <= j
  BY <1>1, <1>3, ProgramType DEF Declares, Decls
<1>5. \A j \in FirstDecl(x) : j = i
  <2> TAKE j \in FirstDecl(x)
  <2>1. j \in Decls /\ i \in Decls /\ j <= i /\ i <= j
    BY <1>4 DEF FirstDecl
  <2> QED BY <2>1, ProgramType DEF Decls
<1>6. i \in FirstDecl(x)
  BY <1>4 DEF FirstDecl
<1> QED BY <1>5, <1>6

\* What a walk over the items leaves behind when it has visited one more.
LEMMA VisitItem ==
  ASSUME prog \in Programs, phase = "declare", Declaring, todo # <<>>,
         prog' = prog, todo' = Tail(todo)
  PROVE  /\ Head(todo) = Visited + 1 /\ Head(todo) \in DOMAIN prog.items
         /\ Visited \in Nat /\ Visited' = Visited + 1
         /\ todo' \in Seq(DOMAIN prog.items)
         /\ Len(todo') <= Len(prog.items)
         /\ \A k \in DOMAIN todo' : todo'[k] = Visited' + k
<1>1. todo \in Seq(DOMAIN prog.items) /\ Len(todo) \in Nat /\ Len(todo) >= 1
  BY DEF Declaring
<1>2. Len(todo') = Len(todo) - 1 /\ todo' \in Seq(DOMAIN prog.items)
  BY <1>1
<1>3. \A k \in DOMAIN todo' : todo'[k] = todo[k + 1] /\ k + 1 \in DOMAIN todo /\ k \in Nat
  BY <1>1
<1>4. Visited' = Visited + 1 /\ Visited \in Nat
  BY <1>1, <1>2, ProgramType DEF Visited, Declaring
<1>5. Head(todo) = Visited + 1 /\ Head(todo) \in DOMAIN prog.items
  BY <1>1 DEF Declaring
<1>6. \A k \in DOMAIN todo' : todo'[k] = Visited' + k
  BY <1>3, <1>4 DEF Declaring
<1>7. Len(todo') <= Len(prog.items)
  BY <1>1, <1>2, ProgramType DEF Declaring
<1> QED BY <1>2, <1>4, <1>5, <1>6, <1>7

\* A name that the visited item does not declare keeps what it had.
LEMMA OtherNames ==
  ASSUME prog \in Programs, NEW x \in Name, NEW v \in Nat, NEW s, NEW t,
         ScopeIs(s, x, v), t[x] = s[x], ~Declares(v + 1, x)
  PROVE  ScopeIs(t, x, v + 1)
<1>1. \A i \in Decls : Declares(i, x) => (i <= v <=> i <= v + 1)
  BY ProgramType DEF Decls
<1> QED BY <1>1 DEF ScopeIs

LEMMA DeclareNameHolds ==
  ASSUME NamesInv, DeclareName
  PROVE  NamesInv'
<1> DEFINE i == Head(todo)
           x == prog.items[i].name
<1>1. /\ prog' = prog /\ phase' = phase /\ declNode' = declNode /\ phase = "declare"
      /\ todo # <<>> /\ todo' = Tail(todo) /\ Declaring /\ prog \in Programs
      /\ prog.items[i].kind \in {"Type", "Use"}
  BY DEF DeclareName, NextItem, NamesInv
<1>2. /\ i = Visited + 1 /\ i \in DOMAIN prog.items
      /\ Visited \in Nat /\ Visited' = Visited + 1
      /\ todo' \in Seq(DOMAIN prog.items)
      /\ Len(todo') <= Len(prog.items)
      /\ \A k \in DOMAIN todo' : todo'[k] = Visited' + k
  BY <1>1, VisitItem
<1>3. i \in Decls /\ x \in Name /\ Declares(i, x)
  BY <1>1, <1>2, ProgramType DEF Decls, Item, Declares
<1>4. Decls' = Decls /\ \A y : FirstDecl(y)' = FirstDecl(y)
  BY <1>1 DEF Decls, FirstDecl
<1>5. /\ scope' \in [Name -> Seq(Decls)]
      /\ \A y \in Name : y # x => scope'[y] = scope[y]
      /\ IsDeclared(scope, x) => scope'[x] = scope[x]
      /\ ~IsDeclared(scope, x) => scope'[x] = <<i>>
  <2>1. scope \in [Name -> Seq(Decls)]
    BY DEF NamesInv
  <2>2. CASE IsDeclared(scope, x)
    BY <2>1, <2>2 DEF DeclareName
  <2>3. CASE ~IsDeclared(scope, x)
    <3>1. scope' = [scope EXCEPT ![x] = Append(scope[x], i)]
      BY <2>3 DEF DeclareName, Insert
    <3>2. scope[x] = <<>> /\ Append(scope[x], i) = <<i>>
      <4>1. scope[x] = <<>>
        BY <2>3 DEF IsDeclared
      <4> QED BY <4>1
    <3>3. <<i>> \in Seq(Decls)
      BY <1>3
    <3> QED BY <1>3, <2>1, <2>3, <3>1, <3>2, <3>3
  <2> QED BY <2>2, <2>3
<1>6. ScopeIs(scope', x, Visited + 1)
  <2>1. CASE IsDeclared(scope, x)
    <3>1. ScopeIs(scope, x, Visited) /\ scope[x] # <<>>
      BY <1>1, <1>3, <2>1 DEF Declaring, IsDeclared
    <3>2. \E j \in Decls : FirstDecl(x) = {j} /\ scope[x] = <<j>>
      BY <3>1 DEF ScopeIs
    <3>3. i <= Visited + 1
      BY <1>2
    <3> QED BY <1>1, <1>3, <1>5, <2>1, <3>2, <3>3 DEF ScopeIs, Declares
  <2>2. CASE ~IsDeclared(scope, x)
    <3>1. FirstDecl(x) = {i}
      BY <1>1, <1>3, <2>2, NewNameIsFirst
    <3>2. i <= Visited + 1
      BY <1>2
    <3> QED BY <1>1, <1>3, <1>5, <2>2, <3>1, <3>2 DEF ScopeIs, Declares
  <2> QED BY <2>1, <2>2
<1>7. ASSUME NEW y \in Name, y # x
      PROVE  ScopeIs(scope', y, Visited + 1)
  <2>1. ScopeIs(scope, y, Visited) /\ scope'[y] = scope[y]
    BY <1>1, <1>5, <1>7 DEF Declaring
  <2>2. ~Declares(Visited + 1, y)
    BY <1>2, <1>7 DEF Declares
  <2> QED BY <1>1, <1>2, <2>1, <2>2, OtherNames
<1>8. Declaring'
  <2>1. \A y \in Name : ScopeIs(scope, y, Visited)'
    <3>1. \A y \in Name : ScopeIs(scope', y, Visited')
      BY <1>2, <1>6, <1>7
    <3> QED BY <1>1, <3>1 DEF ScopeIs, Declares, Decls, FirstDecl
  <2>2. \A n \in Node' : declNode'[n] = Indeterminate
    BY <1>1 DEF Declaring, Node
  <2> QED BY <1>1, <1>2, <2>1, <2>2 DEF Declaring
<1>9. FirstDeclarationWins'
  <2>1. \A n \in Node' : declNode'[n] = Indeterminate
    BY <1>8 DEF Declaring
  <2> QED BY <1>1, <2>1 DEF FirstDeclarationWins, Indeterminate
<1> QED BY <1>1, <1>4, <1>5, <1>8, <1>9 DEF NamesInv, Node

LEMMA PassOtherHolds ==
  ASSUME NamesInv, PassOther
  PROVE  NamesInv'
<1>1. /\ prog' = prog /\ scope' = scope /\ declNode' = declNode /\ phase = "declare"
      /\ phase' \in {"declare", "null"}
      /\ todo # <<>> /\ todo' = Tail(todo) /\ Declaring /\ prog \in Programs
      /\ prog.items[Head(todo)].kind = "Plain"
  BY DEF PassOther, NextItem, NamesInv
<1>2. /\ Head(todo) = Visited + 1
      /\ Visited \in Nat /\ Visited' = Visited + 1
      /\ todo' \in Seq(DOMAIN prog.items)
      /\ Len(todo') <= Len(prog.items)
      /\ \A k \in DOMAIN todo' : todo'[k] = Visited' + k
  BY <1>1, VisitItem
<1>3. \A x \in Name : ScopeIs(scope, x, Visited + 1)
  <2> TAKE x \in Name
  <2>1. ~Declares(Visited + 1, x)
    BY <1>1, <1>2 DEF Declares, Decls
  <2>2. ScopeIs(scope, x, Visited)
    BY <1>1 DEF Declaring
  <2> QED BY <1>1, <1>2, <2>1, <2>2, OtherNames
<1>4. Declaring'
  <2>1. \A x \in Name : ScopeIs(scope, x, Visited)'
    <3>1. \A x \in Name : ScopeIs(scope, x, Visited')
      BY <1>2, <1>3
    <3> QED BY <1>1, <3>1 DEF ScopeIs, Declares, Decls, FirstDecl
  <2>2. \A n \in Node' : declNode'[n] = Indeterminate
    BY <1>1 DEF Declaring, Node
  <2> QED BY <1>1, <1>2, <2>1, <2>2 DEF Declaring
<1>5. FirstDeclarationWins'
  <2>1. \A n \in Node' : declNode'[n] = Indeterminate
    BY <1>4 DEF Declaring
  <2> QED BY <1>1, <2>1 DEF FirstDeclarationWins, Indeterminate
<1> QED BY <1>1, <1>4, <1>5 DEF NamesInv, Node, Decls

LEMMA StartResolveHolds ==
  ASSUME NamesInv, StartResolve
  PROVE  NamesInv'
<1>1. /\ prog' = prog /\ scope' = scope /\ declNode' = declNode
      /\ phase = "declare" /\ phase' = "resolve"
      /\ todo = <<>> /\ todo' = RefsOf(prog, Roots(prog)) /\ Declaring /\ prog \in Programs
  BY DEF StartResolve, NamesInv
<1>2. Visited = Len(prog.items)
  BY <1>1, ProgramType DEF Visited
<1>3. Declared'
  <2>1. \A x \in Name : ScopeIs(scope, x, Len(prog.items))
    BY <1>1, <1>2 DEF Declaring
  <2> QED BY <1>1, <2>1 DEF Declared, ScopeIs, Declares, Decls, FirstDecl
<1>4. todo' \in Seq(Node' \union {Null})
  BY <1>1, WalkType DEF Node
<1>5. FirstDeclarationWins'
  BY <1>1 DEF NamesInv, FirstDeclarationWins, Node, FirstDecl, Decls, Symbol
<1> QED BY <1>1, <1>3, <1>4, <1>5 DEF NamesInv, Node, Decls

\* What the scope says of a name is the first declaration of it.
LEMMA ScopeSaysFirst ==
  ASSUME NamesInv, Declared, NEW x \in Name
  PROVE  /\ scope[x] # <<>> => Len(scope[x]) = 1 /\ FirstDecl(x) = {scope[x][1]}
         /\ scope[x] = <<>> => FirstDecl(x) = {}
<1>1. ScopeIs(scope, x, Len(prog.items)) /\ prog \in Programs
  BY DEF Declared, NamesInv
<1>2. CASE \E i \in Decls : Declares(i, x) /\ i <= Len(prog.items)
  <2>1. PICK i \in Decls : FirstDecl(x) = {i} /\ scope[x] = <<i>>
    BY <1>1, <1>2 DEF ScopeIs
  <2>2. Len(scope[x]) = 1 /\ scope[x][1] = i /\ scope[x] # <<>>
    BY <2>1
  <2> QED BY <2>1, <2>2
<1>3. CASE ~ \E i \in Decls : Declares(i, x) /\ i <= Len(prog.items)
  <2>1. \A i \in Decls : i <= Len(prog.items)
    BY <1>1, ProgramType DEF Decls
  <2>2. FirstDecl(x) = {}
    BY <1>3, <2>1 DEF FirstDecl, Declares
  <2> QED BY <1>1, <1>3, <2>2 DEF ScopeIs
<1> QED BY <1>2, <1>3

\* Steps after the first walk keep the scope.
LEMMA ScopeStays ==
  ASSUME Declared, prog' = prog, scope' = scope
  PROVE  Declared'
BY DEF Declared, ScopeIs, Declares, Decls, FirstDecl

LEMMA ResolveHolds ==
  ASSUME NamesInv, ResolveInFile \/ ResolveGlobal \/ UndefinedRef
  PROVE  NamesInv'
<1> DEFINE n == Head(todo)
<1>1. /\ prog' = prog /\ scope' = scope /\ phase = "resolve" /\ prog \in Programs
      /\ todo # <<>> /\ todo' = Tail(todo) /\ n # Null
      /\ Declared /\ todo \in Seq(Node \union {Null}) /\ DOMAIN declNode = Node
  BY DEF NamesInv, ResolveInFile, ResolveGlobal, UndefinedRef, NextRef
<1>2. n \in Node /\ Symbol(n) \in Name /\ todo' \in Seq(Node \union {Null})
  BY <1>1, ProgramType DEF TypeNode, Symbol
<1>3. Declared' /\ Node' = Node /\ Decls' = Decls
  BY <1>1, ScopeStays DEF Node, Decls
<1>4. /\ phase' = "resolve" /\ DOMAIN declNode' = Node
      /\ \A m \in Node : m # n => declNode'[m] = declNode[m]
      /\ declNode'[n][1] \in {"indeterminate", "file", "global"}
      /\ declNode'[n][1] = "file" => FirstDecl(Symbol(n)) = {declNode'[n][2]}
      /\ declNode'[n][1] = "global" => FirstDecl(Symbol(n)) = {} /\ Symbol(n) \in Builtin
  <2>1. CASE ResolveInFile
    <3>1. scope[Symbol(n)] # <<>>
      BY <2>1 DEF ResolveInFile, NextRef, Find, IsDeclared
    <3>2. Len(scope[Symbol(n)]) = 1 /\ FirstDecl(Symbol(n)) = {scope[Symbol(n)][1]}
      BY <1>1, <1>2, <3>1, ScopeSaysFirst
    <3>3. /\ declNode' = [declNode EXCEPT ![n] = <<"file", scope[Symbol(n)][1]>>]
          /\ phase' = phase
      BY <2>1, <3>2 DEF ResolveInFile, FileDecl
    <3>4. declNode'[n] = <<"file", scope[Symbol(n)][1]>>
      BY <1>1, <1>2, <3>3
    <3> QED BY <1>1, <1>2, <3>2, <3>3, <3>4
  <2>2. CASE ResolveGlobal
    <3>1. Find(Symbol(n)) = "global"
      BY <2>2 DEF ResolveGlobal, NextRef
    <3>2. scope[Symbol(n)] = <<>> /\ Symbol(n) \in Builtin
      BY <3>1 DEF Find, IsDeclared
    <3>3. FirstDecl(Symbol(n)) = {}
      BY <1>1, <1>2, <3>2, ScopeSaysFirst
    <3>4. declNode' = [declNode EXCEPT ![n] = <<"global", Symbol(n)>>] /\ phase' = phase
      BY <2>2 DEF ResolveGlobal, GlobalDecl
    <3>5. declNode'[n] = <<"global", Symbol(n)>>
      BY <1>1, <1>2, <3>4
    <3> QED BY <1>1, <1>2, <3>2, <3>3, <3>4, <3>5
  <2>3. CASE UndefinedRef
    <3>1. declNode' = declNode /\ phase' = phase
      BY <2>3 DEF UndefinedRef
    <3> QED BY <1>1, <1>2, <3>1 DEF NamesInv, FirstDeclarationWins
  <2> QED BY <2>1, <2>2, <2>3
<1>5. FirstDeclarationWins'
  <2>1. \A x : FirstDecl(x)' = FirstDecl(x)
    BY <1>1 DEF FirstDecl, Decls
  <2>2. \A m : Symbol(m)' = Symbol(m)
    BY <1>1 DEF Symbol
  <2> QED BY <1>3, <1>4, <2>1, <2>2 DEF NamesInv, FirstDeclarationWins
<1> QED BY <1>1, <1>2, <1>3, <1>4, <1>5 DEF NamesInv

\* The other steps of the second walk and those of the third.
Settling ==
  \/ VisitUntypedMember \/ StartMaterialize \/ VisitRoot \/ VisitNamed \/ VisitGlobal
  \/ VisitUndeclared \/ VisitAccess \/ Descend \/ BailOut \/ Compose \/ Finish

LEMMA SettlingKeeps ==
  ASSUME Settling
  PROVE  /\ prog' = prog /\ scope' = scope /\ declNode' = declNode
         /\ phase \in {"resolve", "materialize"}
         /\ phase' \in {"null", "materialize", "overflow", "wild", "unreachable", "done"}
BY DEF Settling, VisitUntypedMember, StartMaterialize, VisitRoot, VisitNamed, VisitGlobal,
       VisitUndeclared, VisitAccess, Descend, BailOut, Compose, Finish, Materializing, Push

LEMMA NamesUnchanged ==
  ASSUME NamesInv, prog' = prog, scope' = scope, declNode' = declNode,
         \/ UNCHANGED <<phase, todo>>
         \/ phase \notin {"declare", "null"} /\ phase' \notin {"declare", "resolve", "ambiguous"}
  PROVE  NamesInv'
<1>1. FirstDeclarationWins'
  BY DEF NamesInv, FirstDeclarationWins, Node, FirstDecl, Decls, Symbol
<1>2. Declared => Declared'
  BY ScopeStays
<1>3. CASE UNCHANGED <<phase, todo>>
  <2>1. Declaring => Declaring'
    BY <1>3 DEF Declaring, Visited, Node, ScopeIs, Declares, Decls, FirstDecl
  <2> QED BY <1>1, <1>2, <1>3, <2>1 DEF NamesInv, Node, Decls
<1>4. CASE phase \notin {"declare", "null"} /\ phase' \notin {"declare", "resolve", "ambiguous"}
  BY <1>1, <1>2, <1>4 DEF NamesInv, Node, Decls
<1> QED BY <1>3, <1>4

LEMMA NamesInit ==
  ASSUME Init
  PROVE  NamesInv
<1>1. /\ prog \in Programs /\ phase = "declare"
      /\ todo = [i \in DOMAIN prog.items |-> i]
      /\ scope = [x \in Name |-> <<>>]
      /\ declNode = [n \in DOMAIN prog.nodes |-> Indeterminate]
  BY DEF Init
<1>2. /\ todo \in Seq(DOMAIN prog.items) /\ Len(todo) = Len(prog.items)
      /\ \A k \in DOMAIN todo : todo[k] = k /\ k \in Nat
  BY <1>1, ProgramType
<1>3. Visited = 0
  BY <1>1, <1>2, ProgramType DEF Visited
<1>4. \A x \in Name : ScopeIs(scope, x, 0)
  <2>1. \A i \in Decls : ~(i <= 0)
    BY <1>1, ProgramType DEF Decls
  <2> QED BY <1>1, <2>1 DEF ScopeIs
<1>5. Declaring
  BY <1>1, <1>2, <1>3, <1>4, ProgramType DEF Declaring, Node
<1>6. FirstDeclarationWins
  BY <1>1 DEF FirstDeclarationWins, Node, Indeterminate
<1>7. scope \in [Name -> Seq(Decls)]
  BY <1>1
<1> QED BY <1>1, <1>5, <1>6, <1>7 DEF NamesInv, Node, Indeterminate

LEMMA NamesStep ==
  ASSUME NamesInv, [Next]_vars
  PROVE  NamesInv'
<1>1. CASE DeclareName
  BY <1>1, DeclareNameHolds
<1>2. CASE PassOther
  BY <1>2, PassOtherHolds
<1>3. CASE StartResolve
  BY <1>3, StartResolveHolds
<1>4. CASE ResolveInFile \/ ResolveGlobal \/ UndefinedRef
  BY <1>4, ResolveHolds
<1>5. CASE Settling
  BY <1>5, SettlingKeeps, NamesUnchanged
<1>6. CASE UNCHANGED vars
  BY <1>6, NamesUnchanged DEF vars
<1> QED BY <1>1, <1>2, <1>3, <1>4, <1>5, <1>6 DEF Next, Settling

LEMMA NamesHold == Spec => []NamesInv
<1> QED BY NamesInit, NamesStep, PTL DEF Spec

\* However declarations and references stand in the file, a reference gets the
\* first declaration of its name, or else the builtin, and ResolveTypeSymbol's
\* assertion "Ambiguous decl" never fails.
THEOREM FirstWins == Spec => []FirstDeclarationWins
<1>1. NamesInv => FirstDeclarationWins
  BY DEF NamesInv
<1> QED BY <1>1, NamesHold, PTL

-----------------------------------------------------------------------------
(* The third walk.  A node is doomed when its expansion comes to a         *)
(* reference without a declaration: it never gets a type.                  *)

Undeclared(n) == IsRef(n) /\ declNode[n] = Indeterminate

\* Sets of nodes that the lack of a declaration spreads in.
Spread ==
  {D \in SUBSET Node :
     \A n \in Node :
       Undeclared(n) \/ (\E k \in DOMAIN Callees(n) : Callees(n)[k] \in D) => n \in D}

Doomed(n) == \A D \in Spread : n \in D

\* The visits of a doomed node return the unknown type, those of any other node
\* the type that the first one has set.
Settled(n) == Doomed(n) \/ Known(n)
Outcome(n) == IF Doomed(n) THEN Unknown ELSE type[n]

LEMMA DoomSpreads ==
  ASSUME NEW n \in Node
  PROVE  /\ Undeclared(n) => Doomed(n)
         /\ \A k \in DOMAIN Callees(n) : Doomed(Callees(n)[k]) => Doomed(n)
BY DEF Doomed, Spread

LEMMA UndeclaredIsLeaf ==
  ASSUME NEW n, Undeclared(n)
  PROVE  Callees(n) = <<>>
BY DEF Undeclared, Indeterminate, Callees, IsRef

LEMMA DoomHasCause ==
  ASSUME NEW n \in Node, Doomed(n), ~Undeclared(n)
  PROVE  \E k \in DOMAIN Callees(n) : Doomed(Callees(n)[k])
<1> SUFFICES ASSUME \A k \in DOMAIN Callees(n) : ~Doomed(Callees(n)[k])
             PROVE  FALSE
  OBVIOUS
<1> DEFINE D == {m \in Node : Doomed(m)} \ {n}
<1>1. ASSUME NEW m \in Node,
             Undeclared(m) \/ (\E k \in DOMAIN Callees(m) : Callees(m)[k] \in D)
      PROVE  m \in D
  <2>1. Doomed(m)
    BY <1>1, DoomSpreads
  <2>2. m # n
    BY <1>1
  <2> QED BY <2>1, <2>2
<1>2. D \in Spread
  BY <1>1 DEF Spread
<1> QED BY <1>2 DEF Doomed

\* What a node comes to is settled once the names are resolved.
LEMMA CalleesStable ==
  ASSUME prog' = prog, declNode' = declNode
  PROVE  /\ Node' = Node /\ Decls' = Decls
         /\ \A n : Callees(n)' = Callees(n) /\ (IsRef(n)' <=> IsRef(n))
         /\ \A n : Undeclared(n)' <=> Undeclared(n)
         /\ \A n : Doomed(n)' <=> Doomed(n)
         /\ \A n, ts : Combine(n, ts)' = Combine(n, ts)
<1>1. /\ Node' = Node /\ Decls' = Decls
      /\ \A n : Callees(n)' = Callees(n) /\ (IsRef(n)' <=> IsRef(n))
      /\ \A n : Undeclared(n)' <=> Undeclared(n)
  BY DEF Node, Decls, Callees, IsType, IsRef, Undeclared
<1>2. Spread' = Spread
  BY <1>1 DEF Spread
<1>3. \A n, ts : Combine(n, ts)' = Combine(n, ts)
  BY DEF Combine, FirstFields
<1> QED BY <1>1, <1>2, <1>3 DEF Doomed

-----------------------------------------------------------------------------
(* The invariant of the third walk.                                        *)

IsSequence(s) == s \in Seq({s[k] : k \in DOMAIN s})

\* A null pointer stops the process before the third walk begins.
HasNull == \E n \in Node : Null \in {prog.nodes[n].kids[k] : k \in DOMAIN prog.nodes[n].kids}

WalksInv ==
  /\ phase \in {"declare", "resolve", "materialize", "done"}
               \union {"null", "overflow", "wild", "unreachable"}
  /\ phase = "null" => todo \in Seq(Node \union {Null} \union DOMAIN prog.items)
  /\ phase = "resolve" /\ HasNull => \E k \in DOMAIN todo : todo[k] = Null
  /\ phase \in {"declare", "resolve", "null"} => /\ stack = <<>>
                                               /\ type = [n \in Node |-> Unset]
  /\ phase \notin {"declare", "resolve", "null"} => ~HasNull /\ todo \in Seq(Node)
  /\ IsSequence(stack)
  /\ Len(stack) <= MaxDepth

Results(k) == stack[k].results
Parts(k) == Callees(stack[k].node)

\* An active visit knows the outcome of each part it has visited and is at the
\* first other one; it goes on only as long as the outcomes are known types.
FrameInv(k) ==
  /\ stack[k] = [node |-> stack[k].node, results |-> Results(k)]
  /\ stack[k].node \in Node
  /\ IsSequence(Results(k))
  /\ Len(Results(k)) <= Len(Parts(k))
  /\ \A j \in DOMAIN Results(k) :
       Settled(Parts(k)[j]) /\ Results(k)[j] = Outcome(Parts(k)[j])
  /\ ~IsRef(stack[k].node) => \A j \in DOMAIN Results(k) :
                                j < Len(Results(k)) => Results(k)[j] # Unknown
  /\ prog.nodes[stack[k].node].kind = "Access" => Results(k) = <<>>

CallInv(k) ==
  /\ Len(Results(k)) < Len(Parts(k))
  /\ stack[k + 1].node = Parts(k)[Len(Results(k)) + 1]
  /\ prog.nodes[stack[k].node].kind # "Access"
  /\ ~IsRef(stack[k].node) => \A j \in DOMAIN Results(k) : Results(k)[j] # Unknown

StackInv ==
  /\ \A k \in DOMAIN stack : FrameInv(k)
  /\ \A k \in DOMAIN stack : k < Len(stack) => CallInv(k)

LeafType(n) ==
  IF declNode[n][1] = "file" THEN <<"named", declNode[n][2]>> ELSE <<"builtin", declNode[n][2]>>

PartTypes(n) ==
  [k \in DOMAIN Callees(n) |-> IF Known(Callees(n)[k]) THEN type[Callees(n)[k]] ELSE Unknown]

\* A node that has a type has the one that its parts give it.
TypeInv(n) ==
  /\ type[n][1] \in Tag
  /\ Known(n) => ~Doomed(n)
  /\ type[n] = Unknown => Doomed(n)
  /\ type[n] # Unset /\ Callees(n) = <<>> => type[n] = LeafType(n)
  /\ type[n] # Unset /\ Callees(n) # <<>> =>
       /\ ~IsRef(n) => \A k \in DOMAIN Callees(n) : Known(Callees(n)[k])
       /\ type[n] = Combine(n, PartTypes(n))

TypesInv == DOMAIN type = Node /\ \A n \in Node : TypeInv(n)

\* Each root is settled, being visited, or still to be visited.
RootsInv ==
  phase \in {"materialize", "done"} =>
    \A k \in DOMAIN Roots(prog) :
      \/ Settled(Roots(prog)[k])
      \/ \E j \in DOMAIN todo : todo[j] = Roots(prog)[k]
      \/ stack # <<>> /\ stack[1].node = Roots(prog)[k]

DoneInv == phase = "done" => stack = <<>> /\ todo = <<>>

MaterializeInv ==
  NamesInv /\ WalksInv /\ StackInv /\ TypesInv /\ RootsInv /\ DoneInv

-----------------------------------------------------------------------------
(* Sequences.                                                              *)

\* A sequence is determined by its elements.
LEMMA SequenceIs ==
  ASSUME NEW t, NEW n \in Nat, t = [k \in 1..n |-> t[k]]
  PROVE  IsSequence(t) /\ Len(t) = n /\ DOMAIN t = 1..n
<1> DEFINE U == {t[k] : k \in DOMAIN t}
<1>1. DOMAIN t = 1..n
  OBVIOUS
<1>2. \A k \in 1..n : t[k] \in U
  BY <1>1
<1>3. t \in [1..n -> U]
  BY <1>1, <1>2
<1> HIDE DEF U
<1>4. t \in Seq(U) /\ Len(t) = n
  BY <1>1, <1>3
<1> QED BY <1>1, <1>4 DEF IsSequence, U

LEMMA AppendAny ==
  ASSUME NEW s, IsSequence(s), NEW e
  PROVE  /\ IsSequence(Append(s, e))
         /\ Len(s) \in Nat /\ DOMAIN s = 1..Len(s)
         /\ Len(Append(s, e)) = Len(s) + 1
         /\ \A k \in 1..Len(s) : Append(s, e)[k] = s[k]
         /\ Append(s, e)[Len(s) + 1] = e
<1> DEFINE S == {s[k] : k \in DOMAIN s}
           T == S \union {e}
           t == Append(s, e)
<1>1. s \in Seq(T) /\ s \in Seq(S)
  BY DEF IsSequence
<1> HIDE DEF S
<1>2. /\ t \in Seq(T) /\ Len(s) \in Nat /\ DOMAIN s = 1..Len(s)
      /\ Len(t) = Len(s) + 1
      /\ \A k \in 1..Len(s) : t[k] = s[k]
      /\ t[Len(s) + 1] = e
  BY <1>1
<1>3. t = [k \in 1..Len(t) |-> t[k]] /\ Len(t) \in Nat
  <2> HIDE DEF t, T
  <2> QED BY <1>2
<1>4. IsSequence(t)
  BY <1>3, SequenceIs
<1> QED BY <1>2, <1>4

LEMMA FrontAny ==
  ASSUME NEW s, IsSequence(s), s # <<>>
  PROVE  /\ IsSequence(Front(s))
         /\ Len(Front(s)) = Len(s) - 1
         /\ DOMAIN Front(s) = 1..(Len(s) - 1)
         /\ \A k \in 1..(Len(s) - 1) : Front(s)[k] = s[k]
<1> DEFINE S == {s[k] : k \in DOMAIN s}
<1>1. s \in Seq(S)
  BY DEF IsSequence
<1> HIDE DEF S
<1>2. Len(s) \in Nat /\ Len(s) >= 1
  BY <1>1
<1>3. Front(s) = [k \in 1..(Len(s) - 1) |-> s[k]]
  BY <1>1, <1>2 DEF Front
<1>4. Len(s) - 1 \in Nat /\ Front(s) = [k \in 1..(Len(s) - 1) |-> Front(s)[k]]
  BY <1>2, <1>3
<1>5. IsSequence(Front(s)) /\ Len(Front(s)) = Len(s) - 1 /\ DOMAIN Front(s) = 1..(Len(s) - 1)
  BY <1>4, SequenceIs
<1> QED BY <1>3, <1>5

-----------------------------------------------------------------------------
(* The steps of the third walk.                                            *)

LEMMA CalleesType ==
  ASSUME NamesInv, ~HasNull, NEW n \in Node
  PROVE  /\ Callees(n) \in Seq(Node)
         /\ Len(Callees(n)) \in Nat /\ DOMAIN Callees(n) = 1..Len(Callees(n))
         /\ \A k \in DOMAIN Callees(n) : Callees(n)[k] \in Node
         /\ IsRef(n) => Callees(n) = <<>> \/ Len(Callees(n)) = 1
         /\ ~IsRef(n) => Callees(n) = prog.nodes[n].kids /\ Callees(n) # <<>>
<1>1. prog \in Programs /\ prog.nodes[n] \in TypeNode
  BY ProgramType DEF NamesInv
<1>2. CASE ~IsRef(n)
  <2>1. Callees(n) = prog.nodes[n].kids /\ Callees(n) # <<>>
    BY <1>1, <1>2, ProgramAssumption DEF IsRef, Callees, Node
  <2>2. Callees(n) \in Seq(Nat)
    BY <1>1, <2>1 DEF TypeNode
  <2>3. \A k \in DOMAIN Callees(n) : Callees(n)[k] \in Node
    <3> TAKE k \in DOMAIN Callees(n)
    <3>1. Callees(n)[k] \in Node \union {Null}
      BY <1>1, <2>1, ProgramAssumption DEF Node
    <3>2. Callees(n)[k] # Null
      BY <2>1 DEF HasNull
    <3> QED BY <3>1, <3>2
  <2> QED BY <1>2, <2>1, <2>2, <2>3
<1>3. CASE IsRef(n) /\ declNode[n][1] = "file" /\ ~IsType(declNode[n][2])
  <2>1. declNode[n][2] \in Decls
    BY <1>3 DEF NamesInv, FirstDeclarationWins, FirstDecl
  <2>a. PICK i : i = declNode[n][2]
    OBVIOUS
  <2>b. i \in DOMAIN prog.items
    BY <2>1, <2>a DEF Decls
  <2>2. /\ i \in DOMAIN prog.items /\ Len(prog.items[i].roots) = 1
        /\ prog.items[i].roots \in Seq(Nat)
        /\ \A k \in DOMAIN prog.items[i].roots : prog.items[i].roots[k] \in Node
    BY <1>1, <2>1, <2>a, <2>b, ProgramAssumption, ProgramType DEF Decls, Node, Item
  <2>3. Callees(n) = prog.items[i].roots
    BY <1>3, <2>a DEF Callees, IsRef
  <2> QED BY <1>3, <2>2, <2>3
<1>4. CASE IsRef(n) /\ ~(declNode[n][1] = "file" /\ ~IsType(declNode[n][2]))
  <2>1. Callees(n) = <<>>
    BY <1>4 DEF Callees, IsRef
  <2> QED BY <1>4, <2>1
<1> QED BY <1>2, <1>3, <1>4

\* A step of the third walk changes the type of a node from unset only, so that
\* what the active visits know stays true.
OutcomesStay ==
  \A m \in Node : Settled(m) => Settled(m)' /\ Outcome(m)' = Outcome(m)

\* One visit's knowledge, when the visit itself has not moved.
LEMMA FrameStays ==
  ASSUME NamesInv, ~HasNull, NEW k \in DOMAIN stack, FrameInv(k),
         prog' = prog, declNode' = declNode, OutcomesStay,
         stack'[k] = stack[k]
  PROVE  FrameInv(k)'
<1>1. /\ Node' = Node
      /\ \A n : Callees(n)' = Callees(n) /\ (IsRef(n)' <=> IsRef(n))
  BY CalleesStable
<1>2. Results(k)' = Results(k) /\ Parts(k)' = Parts(k)
  BY <1>1 DEF Results, Parts
<1>3. ASSUME NEW j \in DOMAIN Results(k)
      PROVE  Settled(Parts(k)[j])' /\ Results(k)[j] = Outcome(Parts(k)[j])'
  <2>1. stack[k].node \in Node /\ IsSequence(Results(k)) /\ Len(Results(k)) <= Len(Parts(k))
    BY DEF FrameInv
  <2>2. Parts(k)[j] \in Node
    BY <2>1, CalleesType, AppendAny DEF Parts
  <2>3. Settled(Parts(k)[j]) /\ Results(k)[j] = Outcome(Parts(k)[j])
    BY DEF FrameInv
  <2>4. \A m \in Node : Settled(m) => Settled(m)' /\ Outcome(m)' = Outcome(m)
    BY DEF OutcomesStay
  <2>5. Settled(Parts(k)[j])' /\ Outcome(Parts(k)[j])' = Outcome(Parts(k)[j])
    BY <1>2, <2>2, <2>3, <2>4 
  <2> QED BY <2>3, <2>5
<1> QED BY <1>1, <1>2, <1>3 DEF FrameInv

\* What the visit that returns leaves on the stack.
LEMMA ReturnStack ==
  ASSUME IsSequence(stack), stack # <<>>, \A k \in DOMAIN stack : FrameInv(k), NEW T, Return(T)
  PROVE  /\ Len(stack) \in Nat /\ Len(stack) >= 1 /\ DOMAIN stack = 1..Len(stack)
         /\ IsSequence(stack') /\ Len(stack') = Len(stack) - 1
         /\ DOMAIN stack' = 1..(Len(stack) - 1)
         /\ \A k \in 1..(Len(stack) - 2) : stack'[k] = stack[k]
         /\ Len(stack) > 1 =>
              stack'[Len(stack) - 1] = [node |-> stack[Len(stack) - 1].node,
                                        results |-> Append(Results(Len(stack) - 1), T)]
<1> DEFINE L == Len(stack)
           F == Front(stack)
<1>1. L \in Nat /\ L >= 1 /\ DOMAIN stack = 1..L
  BY AppendAny DEF IsSequence
<1>2. /\ IsSequence(F) /\ Len(F) = L - 1 /\ DOMAIN F = 1..(L - 1)
      /\ \A k \in 1..(L - 1) : F[k] = stack[k]
  BY FrontAny
<1>3. CASE L = 1
  <2>1. stack' = <<>>
    BY <1>3 DEF Return
  <2>2. IsSequence(<<>>)
    BY DEF IsSequence
  <2> QED BY <1>1, <1>3, <2>1, <2>2
<1>4. CASE L > 1
  <2>1. stack' = [F EXCEPT ![L - 1].results = Append(@, T)]
    <3>1. Len(stack) # 1
      BY <1>1, <1>4
    <3> QED BY <3>1 DEF Return
  <2>2. L - 1 \in DOMAIN F /\ L - 1 \in DOMAIN stack /\ F[L - 1] = stack[L - 1]
    BY <1>1, <1>2, <1>4
  <2>3. F[L - 1] = [node |-> stack[L - 1].node, results |-> Results(L - 1)]
    BY <2>2 DEF FrameInv
  <2> HIDE DEF F, L
  <2>4. stack' = [k \in 1..(L - 1) |-> stack'[k]] /\ L - 1 \in Nat
    <3>1. DOMAIN stack' = 1..(L - 1) /\ stack' = [k \in DOMAIN stack' |-> stack'[k]]
      BY <1>2, <2>1
    <3>2. L - 1 \in Nat
      BY <1>1, <1>4
    <3> QED BY <3>1, <3>2
  <2>5. \A k \in 1..(L - 2) : stack'[k] = stack[k]
    <3> TAKE k \in 1..(L - 2)
    <3>1. k \in DOMAIN F /\ k # L - 1 /\ k \in 1..(L - 1)
      BY <1>1, <1>2
    <3> QED BY <1>2, <2>1, <3>1
  <2>6. stack'[L - 1] = [node |-> stack[L - 1].node, results |-> Append(Results(L - 1), T)]
    <3>1. PICK l, a, r : l = L - 1 /\ a = stack[L - 1].node /\ r = Results(L - 1)
      OBVIOUS
    <3>2. l \in DOMAIN F /\ F[l] = [node |-> a, results |-> r]
      BY <2>2, <2>3, <3>1
    <3>3. stack' = [F EXCEPT ![l].results = Append(@, T)]
      BY <2>1, <3>1
    <3>4. stack'[l] = [node |-> a, results |-> Append(r, T)]
      <4>1. PICK e : e = F[l] /\ e = [node |-> a, results |-> r]
        BY <3>2
      <4>2. stack'[l] = [e EXCEPT !.results = Append(e.results, T)]
        BY <3>2, <3>3, <4>1
      <4>3. e.results = r
        BY <4>1
      <4>4. [e EXCEPT !.results = Append(r, T)] = [node |-> a, results |-> Append(r, T)]
        BY <4>1
      <4> QED BY <4>2, <4>3, <4>4
    <3> QED BY <3>1, <3>4
  <2>7. IsSequence(stack') /\ Len(stack') = L - 1 /\ DOMAIN stack' = 1..(L - 1)
    BY <2>4, SequenceIs
  <2> QED BY <1>1, <1>4, <2>5, <2>6, <2>7 DEF L
<1>5. L = 1 \/ L > 1
  BY <1>1
<1> HIDE DEF L, F
<1> QED BY <1>3, <1>4, <1>5

LEMMA PopKeeps ==
  ASSUME NamesInv, ~HasNull, StackInv, IsSequence(stack), stack # <<>>,
         prog' = prog, declNode' = declNode, OutcomesStay,
         NEW T, Return(T), NEW n, n = Frame.node, Settled(n)', T = Outcome(n)'
  PROVE  /\ StackInv' /\ IsSequence(stack')
         /\ Len(stack) \in Nat /\ Len(stack') = Len(stack) - 1
         /\ stack' # <<>> => stack'[1].node = stack[1].node
         /\ stack' = <<>> => Frame.node = stack[1].node
<1>0. PICK L : L = Len(stack)
  OBVIOUS
<1> DEFINE M == L - 1
<1>1. /\ L \in Nat /\ L >= 1 /\ DOMAIN stack = 1..L
      /\ IsSequence(stack') /\ Len(stack') = M
      /\ DOMAIN stack' = 1..M
      /\ \A k \in 1..(L - 2) : stack'[k] = stack[k]
      /\ L > 1 => stack'[M] = [node |-> stack[M].node, results |-> Append(Results(M), T)]
  BY <1>0, ReturnStack DEF StackInv
<1>2. Frame = stack[L]
  BY <1>0 DEF Frame, Last
<1>3. CASE L = 1
  <2>1. stack' = <<>>
    BY <1>0, <1>3 DEF Return
  <2> QED BY <1>0, <1>1, <1>2, <1>3, <2>1 DEF StackInv
<1>4. CASE L > 1
  <2> M \in Nat /\ M >= 1 /\ M \in DOMAIN stack /\ M < L /\ M + 1 = L
    BY <1>1, <1>4
  <2>1. FrameInv(M) /\ CallInv(M)
    BY <1>0 DEF StackInv
  <2>2. stack'[M].node = stack[M].node /\ Results(M)' = Append(Results(M), T)
    BY <1>1, <1>4 DEF Results
  <2>3. /\ Node' = Node
        /\ \A m : Callees(m)' = Callees(m) /\ (IsRef(m)' <=> IsRef(m))
    BY CalleesStable
  <2>4. Parts(M)' = Parts(M)
    BY <2>2, <2>3 DEF Parts
  <2> DEFINE r == Results(M)
  <2>5. /\ IsSequence(r) /\ Len(r) \in Nat /\ DOMAIN r = 1..Len(r)
        /\ IsSequence(Append(r, T)) /\ Len(Append(r, T)) = Len(r) + 1
        /\ DOMAIN Append(r, T) = 1..(Len(r) + 1)
        /\ \A j \in 1..Len(r) : Append(r, T)[j] = r[j]
        /\ Append(r, T)[Len(r) + 1] = T
    <3>1. IsSequence(r)
      BY <2>1 DEF FrameInv
    <3>2. /\ IsSequence(Append(r, T)) /\ Len(Append(r, T)) = Len(r) + 1
      BY <3>1, AppendAny
    <3> HIDE DEF r
    <3>3. DOMAIN Append(r, T) = 1..(Len(r) + 1)
      BY <3>2, AppendAny
    <3> QED BY <3>1, <3>2, <3>3, AppendAny
  <2>6. Parts(M)[Len(r) + 1] = n
    BY <1>2, <2>1 DEF CallInv
  <2>7. \A j \in 1..(Len(r) + 1) :
          Settled(Parts(M)[j])' /\ Append(r, T)[j] = Outcome(Parts(M)[j])'
    <3> TAKE j \in 1..(Len(r) + 1)
    <3>1. CASE j = Len(r) + 1
      BY <2>4, <2>5, <2>6, <3>1
    <3>2. CASE j \in 1..Len(r)
      <4>1. stack[M].node \in Node /\ Len(r) <= Len(Parts(M))
        BY <2>1 DEF FrameInv
      <4>2. Parts(M)[j] \in Node
        BY <2>5, <3>2, <4>1, CalleesType DEF Parts
      <4>3. Settled(Parts(M)[j]) /\ r[j] = Outcome(Parts(M)[j])
        BY <2>1, <2>5, <3>2 DEF FrameInv
      <4>4. \A m \in Node : Settled(m) => Settled(m)' /\ Outcome(m)' = Outcome(m)
        BY DEF OutcomesStay
      <4>5. Settled(Parts(M)[j])' /\ Outcome(Parts(M)[j])' = Outcome(Parts(M)[j])
        BY <2>4, <4>2, <4>3, <4>4
      <4> QED BY <2>5, <3>2, <4>3, <4>5
    <3> QED BY <2>5, <3>1, <3>2
  <2>8. FrameInv(M)'
    <3>1. /\ stack[M].node \in Node /\ Len(r) < Len(Parts(M)) /\ Len(Parts(M)) \in Nat
          /\ prog.nodes[stack[M].node].kind # "Access"
          /\ ~IsRef(stack[M].node) => \A j \in DOMAIN r : r[j] # Unknown
      BY <2>1, CalleesType DEF FrameInv, CallInv, Parts
    <3>2. stack'[M] = [node |-> stack'[M].node, results |-> Results(M)']
      BY <1>1, <1>4, <2>2
    <3>3. Len(Results(M)') <= Len(Parts(M)')
      BY <2>2, <2>4, <2>5, <3>1
    <3>4. \A j \in DOMAIN Results(M)' :
            Settled(Parts(M)[j])' /\ Results(M)'[j] = Outcome(Parts(M)[j])'
      BY <2>2, <2>5, <2>7
    <3>5. ~IsRef(stack[M].node) => \A j \in DOMAIN Results(M)' :
            j < Len(Results(M)') => Results(M)'[j] # Unknown
      <4> SUFFICES ASSUME ~IsRef(stack[M].node),
                          NEW j \in DOMAIN Results(M)', j < Len(Results(M)')
                   PROVE  Results(M)'[j] # Unknown
        OBVIOUS
      <4>1. j \in 1..Len(r)
        <5>1. j \in 1..(Len(r) + 1) /\ j < Len(r) + 1 /\ Len(r) \in Nat
          BY <2>2, <2>5
        <5> HIDE DEF r
        <5> QED BY <5>1
      <4> QED BY <2>2, <2>5, <3>1, <4>1
    <3> QED BY <2>2, <2>3, <2>5, <3>1, <3>2, <3>3, <3>4, <3>5 DEF FrameInv
  <2>9. \A k \in 1..(L - 2) : FrameInv(k)' /\ CallInv(k)'
    <3> TAKE k \in 1..(L - 2)
    <3>1. k \in DOMAIN stack /\ k < L /\ stack'[k] = stack[k]
      BY <1>1
    <3>2. FrameInv(k) /\ CallInv(k)
      BY <1>0, <3>1 DEF StackInv
    <3>3. FrameInv(k)'
      BY <3>1, <3>2, FrameStays
    <3>4. stack'[k + 1].node = stack[k + 1].node
      <4>1. k + 1 \in 1..(L - 2) \/ k + 1 = M
        BY <1>1
      <4> QED BY <1>1, <2>2, <4>1
    <3>5. CallInv(k)'
      BY <2>3, <3>1, <3>2, <3>4 DEF CallInv, Results, Parts, IsRef
    <3> QED BY <3>3, <3>5
  <2>10. StackInv'
    <3>1. \A k \in 1..M : k = M \/ k \in 1..(L - 2)
      BY <1>1
    <3> QED BY <1>1, <2>8, <2>9, <3>1 DEF StackInv
  <2>11. stack' # <<>> /\ stack'[1].node = stack[1].node
    <3>1. M = 1 \/ 1 \in 1..(L - 2)
      BY <1>1
    <3> QED BY <1>1, <2>2, <3>1
  <2> QED BY <1>0, <1>1, <2>10, <2>11
<1> QED BY <1>1, <1>3, <1>4

LEMMA PushKeeps ==
  ASSUME NamesInv, ~HasNull, StackInv, IsSequence(stack), Len(stack) # MaxDepth,
         prog' = prog, declNode' = declNode, type' = type,
         NEW n \in Node, Push(n),
         stack # <<>> =>
           /\ Len(Frame.results) < Len(Callees(Frame.node))
           /\ n = Callees(Frame.node)[Len(Frame.results) + 1]
           /\ prog.nodes[Frame.node].kind # "Access"
           /\ ~Bailing
  PROVE  /\ StackInv' /\ IsSequence(stack')
         /\ Len(stack) \in Nat /\ Len(stack') = Len(stack) + 1
         /\ stack'[1].node = (IF stack = <<>> THEN n ELSE stack[1].node)
<1>0. PICK L : L = Len(stack)
  OBVIOUS
<1> DEFINE M == L + 1
           f == [node |-> n, results |-> <<>>]
<1>1. /\ L \in Nat /\ DOMAIN stack = 1..L /\ stack' = Append(stack, f)
      /\ IsSequence(stack') /\ Len(stack') = M /\ DOMAIN stack' = 1..M
      /\ \A k \in 1..L : stack'[k] = stack[k]
      /\ stack'[M] = f
  <2>1. stack' = Append(stack, f)
    BY DEF Push
  <2>2. IsSequence(stack')
    BY <2>1, AppendAny
  <2>3. DOMAIN stack' = 1..Len(stack')
    BY <2>2, AppendAny
  <2> QED BY <1>0, <2>1, <2>2, <2>3, AppendAny
<1>2. /\ Node' = Node
      /\ \A m : Callees(m)' = Callees(m) /\ (IsRef(m)' <=> IsRef(m))
      /\ \A m : Doomed(m)' <=> Doomed(m)
  BY CalleesStable
<1>3. OutcomesStay
  BY <1>2 DEF OutcomesStay, Settled, Outcome, Known
<1>4. FrameInv(M)'
  <2>1. stack'[M].node = n /\ Results(M)' = <<>> /\ Parts(M)' = Callees(n)
    BY <1>1, <1>2 DEF Results, Parts
  <2>2. IsSequence(<<>>) /\ Len(Callees(n)) \in Nat
    BY CalleesType DEF IsSequence
  <2> QED BY <1>1, <1>2, <2>1, <2>2 DEF FrameInv
<1>5. \A k \in 1..L : FrameInv(k)'
  <2> TAKE k \in 1..L
  <2>1. k \in DOMAIN stack /\ FrameInv(k) /\ stack'[k] = stack[k]
    BY <1>1 DEF StackInv
  <2> QED BY <1>3, <2>1, FrameStays
<1>6. \A k \in 1..L : CallInv(k)'
  <2> TAKE k \in 1..L
  <2>1. k \in DOMAIN stack /\ FrameInv(k) /\ stack'[k] = stack[k]
    BY <1>1 DEF StackInv
  <2>2. Results(k)' = Results(k) /\ Parts(k)' = Parts(k) /\ stack'[k].node = stack[k].node
    BY <1>2, <2>1 DEF Results, Parts
  <2>3. CASE k < L
    <3>1. CallInv(k) /\ k + 1 \in 1..L
      BY <1>0, <1>1, <2>1, <2>3 DEF StackInv
    <3>2. stack'[k + 1].node = stack[k + 1].node
      BY <1>1, <3>1
    <3> QED BY <1>2, <2>1, <2>2, <3>1, <3>2 DEF CallInv, IsRef
  <2>4. CASE k = L
    <3>1. stack # <<>> /\ Frame = stack[k]
      BY <1>0, <1>1, <2>4 DEF Frame, Last
    <3>2. /\ Len(Results(k)) < Len(Parts(k))
          /\ n = Parts(k)[Len(Results(k)) + 1]
          /\ prog.nodes[stack[k].node].kind # "Access"
      BY <3>1 DEF Results, Parts
    <3>3. ~IsRef(stack[k].node) => \A j \in DOMAIN Results(k) : Results(k)[j] # Unknown
      <4> SUFFICES ASSUME ~IsRef(stack[k].node), NEW j \in DOMAIN Results(k)
                   PROVE  Results(k)[j] # Unknown
        OBVIOUS
      <4> DEFINE r == Results(k)
      <4>1. Len(r) \in Nat /\ DOMAIN r = 1..Len(r)
        BY <2>1, AppendAny DEF FrameInv
      <4>2. CASE j < Len(r)
        BY <2>1, <4>2 DEF FrameInv
      <4>3. CASE j = Len(r)
        <5>1. r # <<>>
          BY <4>1
        <5>2. Last(r) # Unknown
          BY <3>1, <5>1 DEF Bailing, Results, IsRef
        <5> QED BY <4>3, <5>2 DEF Last
      <4> HIDE DEF r
      <4>4. j < Len(r) \/ j = Len(r)
        BY <4>1 DEF r
      <4> QED BY <4>2, <4>3, <4>4 DEF r
    <3>4. stack'[k + 1].node = n
      BY <1>1, <2>4
    <3> QED BY <1>2, <2>2, <3>2, <3>3, <3>4 DEF CallInv, IsRef
  <2> QED BY <1>1, <2>3, <2>4
<1>7. StackInv'
  <2>1. \A k \in 1..M : k = M \/ k \in 1..L
    BY <1>1
  <2>2. \A k \in 1..M : k < M => k \in 1..L
    BY <1>1
  <2> QED BY <1>1, <1>4, <1>5, <1>6, <2>1, <2>2 DEF StackInv
<1>8. stack'[1].node = (IF stack = <<>> THEN n ELSE stack[1].node)
  <2>1. CASE L = 0
    <3>1. stack = <<>>
      BY <1>0, <1>1, <2>1
    <3> QED BY <1>1, <2>1, <3>1
  <2>2. CASE L >= 1
    <3>1. stack # <<>> /\ 1 \in 1..L
      BY <1>0, <1>1, <2>2
    <3> QED BY <1>1, <3>1
  <2> QED BY <1>1, <2>1, <2>2
<1> QED BY <1>0, <1>1, <1>7, <1>8

\* The parts of a node that has a type keep what they count for, when a type is
\* given to a node that had none.
LEMMA PartsStay ==
  ASSUME NamesInv, ~HasNull, TypesInv, prog' = prog, declNode' = declNode,
         NEW n \in Node, NEW T, type' = [type EXCEPT ![n] = T],
         type[n] # Unset => type[n] = T, T = Unknown <=> Doomed(n), T # Unset,
         NEW m \in Node, Callees(m) # <<>>,
         ~IsRef(m) => \A k \in DOMAIN Callees(m) : Known(Callees(m)[k]),
         Combine(m, PartTypes(m)) = Unknown => Doomed(m)
  PROVE  /\ PartTypes(m)' = PartTypes(m)
         /\ ~IsRef(m) => \A k \in DOMAIN Callees(m) : Known(Callees(m)[k])'
<1>1. Callees(m)' = Callees(m)
  BY CalleesStable
<1>2. \A c \in Node : c # n => type'[c] = type[c]
  BY DEF TypesInv
<1>3. type'[n] = T
  BY DEF TypesInv
<1>4. ASSUME NEW k \in DOMAIN Callees(m)
      PROVE  /\ Known(Callees(m)[k]) =>
                  Known(Callees(m)[k])' /\ type'[Callees(m)[k]] = type[Callees(m)[k]]
             /\ ~Known(Callees(m)[k]) => ~Known(Callees(m)[k])'
  <2>0. PICK c : c = Callees(m)[k]
    OBVIOUS
  <2>1. c \in Node
    BY <2>0, CalleesType
  <2>2. CASE c # n
    BY <1>1, <1>2, <2>0, <2>1, <2>2 DEF Known
  <2>3. CASE c = n /\ type[n] # Unset
    BY <1>1, <1>3, <2>0, <2>3 DEF Known
  <2>4. CASE c = n /\ type[n] = Unset /\ Doomed(n)
    <3>1. T = Unknown
      BY <2>4
    <3> QED BY <1>1, <1>3, <2>0, <2>4, <3>1 DEF Known
  <2>5. CASE c = n /\ type[n] = Unset /\ ~Doomed(n)
    <3>1. ~Known(c)
      BY <2>5 DEF Known
    <3>2. IsRef(m)
      BY <2>0, <3>1
    <3>3. Len(Callees(m)) = 1 /\ DOMAIN Callees(m) = 1..Len(Callees(m))
      BY <3>2, CalleesType
    <3>4. k = 1 /\ DOMAIN Callees(m) = {1}
      BY <3>3
    <3>5. PartTypes(m)[1] = Unknown
      BY <2>0, <3>1, <3>4 DEF PartTypes
    <3>6. Combine(m, PartTypes(m)) = Unknown
      BY <3>2, <3>5 DEF Combine, IsRef
    <3>7. ~Undeclared(m)
      BY DEF Undeclared, Indeterminate, Callees, IsRef
    <3>8. \E j \in DOMAIN Callees(m) : Doomed(Callees(m)[j])
      BY <3>6, <3>7, DoomHasCause
    <3> QED BY <2>0, <2>5, <3>4, <3>8
  <2> QED BY <2>2, <2>3, <2>4, <2>5
<1>5. PartTypes(m)' = PartTypes(m)
  BY <1>1, <1>4 DEF PartTypes
<1>6. ~IsRef(m) => \A k \in DOMAIN Callees(m) : Known(Callees(m)[k])'
  BY <1>4
<1> QED BY <1>5, <1>6

\* A visit that gives a node the type that its parts, or its declaration, give
\* it changes nothing that was settled before.
LEMMA SetTypeKeeps ==
  ASSUME NamesInv, ~HasNull, TypesInv, prog' = prog, declNode' = declNode,
         NEW n \in Node, NEW T, SetType(n, T),
         T[1] \in Tag, T # Unset, T = Unknown <=> Doomed(n),
         Callees(n) = <<>> => T = LeafType(n),
         Callees(n) # <<>> =>
           /\ ~IsRef(n) => \A k \in DOMAIN Callees(n) : Known(Callees(n)[k])
           /\ T = Combine(n, PartTypes(n))
  PROVE  OutcomesStay /\ TypesInv' /\ Settled(n)' /\ T = Outcome(n)'
<1>1. /\ Node' = Node
      /\ \A m : Callees(m)' = Callees(m) /\ (IsRef(m)' <=> IsRef(m))
      /\ \A m : Doomed(m)' <=> Doomed(m)
      /\ \A m, ts : Combine(m, ts)' = Combine(m, ts)
  BY CalleesStable
<1>2. type' = [type EXCEPT ![n] = T]
  BY DEF SetType
<1>3. /\ DOMAIN type' = Node /\ type'[n] = T
      /\ \A m \in Node : m # n => type'[m] = type[m]
  BY <1>2 DEF TypesInv
<1>4. type[n] # Unset => type[n] = T
  BY DEF TypesInv, TypeInv
<1>5. OutcomesStay
  <2> SUFFICES ASSUME NEW m \in Node, Settled(m)
               PROVE  Settled(m)' /\ Outcome(m)' = Outcome(m)
    BY DEF OutcomesStay
  <2>1. CASE Doomed(m)
    BY <1>1, <2>1 DEF Settled, Outcome
  <2>2. CASE ~Doomed(m)
    <3>1. Known(m)
      BY <2>2 DEF Settled
    <3>2. type'[m] = type[m]
      BY <1>3, <1>4, <3>1 DEF Known
    <3> QED BY <1>1, <2>2, <3>1, <3>2 DEF Settled, Outcome, Known
  <2> QED BY <2>1, <2>2
<1>6. ASSUME NEW m \in Node
      PROVE  TypeInv(m)'
  <2>1. TypeInv(m)
    BY DEF TypesInv
  <2>2. /\ type'[m][1] \in Tag
        /\ Known(m)' => ~Doomed(m)
        /\ type'[m] = Unknown => Doomed(m)
        /\ type'[m] # Unset /\ Callees(m) = <<>> => type'[m] = LeafType(m)
        /\ type'[m] # Unset /\ Callees(m) # <<>> =>
             /\ ~IsRef(m) => \A k \in DOMAIN Callees(m) : Known(Callees(m)[k])
             /\ type'[m] = Combine(m, PartTypes(m))
    <3>1. CASE m = n
      BY <1>3, <3>1 DEF Known
    <3>2. CASE m # n
      <4>1. type'[m] = type[m] /\ (Known(m)' <=> Known(m))
        BY <1>3, <3>2 DEF Known
      <4> QED BY <2>1, <4>1 DEF TypeInv
    <3> QED BY <3>1, <3>2
  <2>3. LeafType(m)' = LeafType(m)
    BY DEF LeafType
  <2>4. ASSUME type'[m] # Unset, Callees(m) # <<>>
        PROVE  /\ ~IsRef(m) => \A k \in DOMAIN Callees(m) : Known(Callees(m)[k])'
               /\ type'[m] = Combine(m, PartTypes(m)')
    <3>1. Combine(m, PartTypes(m)) = Unknown => Doomed(m)
      BY <2>2, <2>4
    <3>2. /\ PartTypes(m)' = PartTypes(m)
          /\ ~IsRef(m) => \A k \in DOMAIN Callees(m) : Known(Callees(m)[k])'
      BY <1>2, <1>4, <2>2, <2>4, <3>1, PartsStay
    <3> QED BY <2>2, <2>4, <3>2
  <2>5. Combine(m, PartTypes(m))' = Combine(m, PartTypes(m)')
    BY DEF Combine, FirstFields
  <2>6. ASSUME type'[m] # Unset, Callees(m)' # <<>>
        PROVE  /\ ~IsRef(m)' => \A k \in DOMAIN Callees(m)' : Known(Callees(m)[k])'
               /\ type'[m] = Combine(m, PartTypes(m))'
    BY <1>1, <2>4, <2>5, <2>6
  <2> QED BY <1>1, <2>2, <2>3, <2>6 DEF TypeInv
<1>7. TypesInv'
  BY <1>1, <1>3, <1>6 DEF TypesInv
<1>8. Settled(n)' /\ T = Outcome(n)'
  BY <1>1, <1>3 DEF Settled, Outcome, Known
<1> QED BY <1>5, <1>7, <1>8

\* What holds while a visit is active.
LEMMA ActiveVisit ==
  ASSUME MaterializeInv, Materializing
  PROVE  /\ NamesInv /\ ~HasNull /\ StackInv /\ TypesInv
         /\ IsSequence(stack) /\ stack # <<>>
         /\ Len(stack) \in Nat /\ Len(stack) \in DOMAIN stack
         /\ Frame = stack[Len(stack)] /\ FrameInv(Len(stack))
         /\ Frame.node \in Node
<1>1. /\ NamesInv /\ ~HasNull /\ StackInv /\ TypesInv /\ IsSequence(stack) /\ stack # <<>>
  BY DEF MaterializeInv, WalksInv, Materializing
<1>2. Len(stack) \in Nat /\ DOMAIN stack = 1..Len(stack)
  BY <1>1, AppendAny
<1>3. Len(stack) \in DOMAIN stack
  BY <1>1, <1>2 DEF IsSequence
<1>4. Frame = stack[Len(stack)]
  BY DEF Frame, Last
<1>5. FrameInv(Len(stack))
  BY <1>1, <1>3 DEF StackInv
<1> QED BY <1>1, <1>2, <1>3, <1>4, <1>5 DEF FrameInv

\* A visit that ends with the outcome of its node.
LEMMA ReturnHolds ==
  ASSUME MaterializeInv, Materializing, prog' = prog, declNode' = declNode, scope' = scope,
         phase' = phase, todo' = todo, OutcomesStay, TypesInv',
         NEW T, Return(T), NEW n, n = Frame.node, Settled(n)', T = Outcome(n)'
  PROVE  MaterializeInv'
<1>1. /\ NamesInv /\ ~HasNull /\ StackInv /\ IsSequence(stack) /\ stack # <<>>
      /\ phase = "materialize"
  BY ActiveVisit DEF Materializing
<1>2. /\ StackInv' /\ IsSequence(stack')
      /\ Len(stack) \in Nat /\ Len(stack') = Len(stack) - 1
      /\ stack' # <<>> => stack'[1].node = stack[1].node
      /\ stack' = <<>> => n = stack[1].node
  BY <1>1, PopKeeps
<1>3. NamesInv'
  BY <1>1, NamesUnchanged
<1>4. WalksInv'
  BY <1>1, <1>2, ProgramAssumption DEF MaterializeInv, WalksInv, Node, HasNull
<1>5. RootsInv'
  <2> SUFFICES ASSUME NEW k \in DOMAIN Roots(prog)
               PROVE  \/ Settled(Roots(prog)[k])'
                      \/ \E j \in DOMAIN todo : todo[j] = Roots(prog)[k]
                      \/ stack' # <<>> /\ stack'[1].node = Roots(prog)[k]
    BY DEF RootsInv
  <2>0. PICK r : r = Roots(prog)[k]
    OBVIOUS
  <2>1. r \in Node
    BY <1>1, <2>0, WalkType DEF NamesInv
  <2>2. r = Roots(prog)'[k]
    BY <2>0 DEF Roots
  <2>3. \/ Settled(r)
        \/ \E j \in DOMAIN todo : todo[j] = r
        \/ stack[1].node = r
    BY <1>1, <2>0 DEF MaterializeInv, RootsInv
  <2>4. Settled(r) => Settled(r)'
    BY <2>1 DEF OutcomesStay
  <2> QED BY <1>2, <2>0, <2>2, <2>3, <2>4
<1>6. DoneInv'
  BY <1>1 DEF DoneInv
<1> QED BY <1>2, <1>3, <1>4, <1>5, <1>6 DEF MaterializeInv

LEMMA VisitLeafHolds ==
  ASSUME MaterializeInv, VisitNamed \/ VisitGlobal
  PROVE  MaterializeInv'
<1>0. PICK n : n = Frame.node
  OBVIOUS
<1>1. /\ Materializing /\ IsRef(n) /\ Callees(n) = <<>> /\ ~Undeclared(n)
      /\ SetType(n, LeafType(n)) /\ Return(LeafType(n))
      /\ prog' = prog /\ declNode' = declNode /\ scope' = scope /\ phase' = phase /\ todo' = todo
  BY <1>0 DEF VisitNamed, VisitGlobal, IsRef, Callees, LeafType, Undeclared, Indeterminate
<1>2. NamesInv /\ ~HasNull /\ TypesInv /\ n \in Node
  BY <1>0, <1>1, ActiveVisit
<1>3. ~Doomed(n)
  BY <1>1, <1>2, DoomHasCause
<1>4. LeafType(n)[1] \in Tag /\ LeafType(n) # Unset /\ LeafType(n) # Unknown
  <2>1. LeafType(n)[1] \in {"named", "builtin"}
    BY DEF LeafType
  <2> QED BY <2>1 DEF Tag, Unset, Unknown
<1>5. PICK T : T = LeafType(n)
  OBVIOUS
<1>6. OutcomesStay /\ TypesInv' /\ Settled(n)' /\ T = Outcome(n)'
  BY <1>1, <1>2, <1>3, <1>4, <1>5, SetTypeKeeps
<1> QED BY <1>0, <1>1, <1>5, <1>6, ReturnHolds

\* A visit that returns the unknown type, of a node that is doomed.
LEMMA UnknownHolds ==
  ASSUME MaterializeInv, Materializing, prog' = prog, declNode' = declNode, scope' = scope,
         phase' = phase, todo' = todo, type' = type, Return(Unknown), Doomed(Frame.node)
  PROVE  MaterializeInv'
<1>0. PICK n : n = Frame.node
  OBVIOUS
<1>1. /\ Node' = Node /\ \A m : Doomed(m)' <=> Doomed(m)
      /\ \A m : Callees(m)' = Callees(m) /\ (IsRef(m)' <=> IsRef(m))
      /\ \A m, ts : Combine(m, ts)' = Combine(m, ts)
  BY CalleesStable
<1>2. OutcomesStay
  BY <1>1 DEF OutcomesStay, Settled, Outcome, Known
<1>3. TypesInv'
  <2>1. TypesInv
    BY DEF MaterializeInv
  <2>2. ASSUME NEW m \in Node
        PROVE  TypeInv(m)'
    <3>1. TypeInv(m)
      BY <2>1 DEF TypesInv
    <3>2. PartTypes(m)' = PartTypes(m) /\ LeafType(m)' = LeafType(m)
      BY <1>1 DEF PartTypes, LeafType, Known
    <3>3. Combine(m, PartTypes(m))' = Combine(m, PartTypes(m))
      BY <3>2 DEF Combine, FirstFields
    <3> QED BY <1>1, <3>1, <3>2, <3>3 DEF TypeInv, Known
  <2> QED BY <1>1, <2>1, <2>2 DEF TypesInv
<1>4. Settled(n)' /\ Unknown = Outcome(n)'
  BY <1>0, <1>1 DEF Settled, Outcome
<1> QED BY <1>0, <1>2, <1>3, <1>4, ReturnHolds

LEMMA BailOutHolds ==
  ASSUME MaterializeInv, BailOut
  PROVE  MaterializeInv'
<1>1. /\ Materializing /\ Bailing /\ Return(Unknown)
      /\ prog' = prog /\ phase' = phase /\ todo' = todo /\ scope' = scope
      /\ declNode' = declNode /\ type' = type
  BY DEF BailOut
<1> DEFINE n == Frame.node
           r == Frame.results
<1>2. /\ n \in Node /\ TypesInv /\ NamesInv /\ ~HasNull
      /\ IsSequence(r) /\ Len(r) <= Len(Callees(n))
      /\ \A j \in DOMAIN r : Settled(Callees(n)[j]) /\ r[j] = Outcome(Callees(n)[j])
  BY <1>1, ActiveVisit DEF FrameInv, Results, Parts
<1>3. Len(r) \in Nat /\ DOMAIN r = 1..Len(r) /\ r # <<>> /\ r[Len(r)] = Unknown
  BY <1>1, <1>2, AppendAny DEF Bailing, Last
<1> HIDE DEF r, n
<1>4. Len(r) \in DOMAIN r
  BY <1>2, <1>3 DEF IsSequence
<1>5. Len(r) \in DOMAIN Callees(n) /\ Callees(n)[Len(r)] \in Node
  BY <1>2, <1>3, <1>4, CalleesType
<1>6. Doomed(Callees(n)[Len(r)])
  BY <1>2, <1>3, <1>4, <1>5 DEF Outcome, Settled, Known
<1>7. Doomed(n)
  BY <1>2, <1>5, <1>6, DoomSpreads
<1> QED BY <1>1, <1>7, UnknownHolds DEF n

\* The process stops, or only the diagnostics change.
LEMMA StopHolds ==
  ASSUME MaterializeInv, prog' = prog, declNode' = declNode, scope' = scope,
         todo' = todo, type' = type, stack' = stack,
         \/ phase' = phase
         \/ phase = "materialize" /\ phase' \in {"overflow", "wild", "unreachable"}
         \/ phase = "materialize" /\ phase' = "done" /\ todo = <<>> /\ stack = <<>>
         \/ phase = "resolve" /\ phase' = "null"
  PROVE  MaterializeInv'
<1>1. /\ Node' = Node /\ \A m : Doomed(m)' <=> Doomed(m)
      /\ \A m : Callees(m)' = Callees(m) /\ (IsRef(m)' <=> IsRef(m))
      /\ \A m, ts : Combine(m, ts)' = Combine(m, ts)
  BY CalleesStable
<1>2. \A m : /\ Known(m)' <=> Known(m)
             /\ Settled(m)' <=> Settled(m)
             /\ Outcome(m)' = Outcome(m)
  BY <1>1 DEF Known, Settled, Outcome
<1>3. NamesInv'
  BY NamesUnchanged DEF MaterializeInv
<1>4. WalksInv'
  BY ProgramAssumption DEF MaterializeInv, WalksInv, Node, HasNull, NamesInv
<1>5. StackInv'
  <2>1. \A k : /\ Results(k)' = Results(k) /\ Parts(k)' = Parts(k)
    BY <1>1 DEF Results, Parts
  <2>2. \A k \in DOMAIN stack : FrameInv(k)'
    <3> TAKE k \in DOMAIN stack
    <3>1. FrameInv(k)
      BY DEF MaterializeInv, StackInv
    <3> QED BY <1>1, <1>2, <2>1, <3>1 DEF FrameInv
  <2>3. \A k \in DOMAIN stack : k < Len(stack) => CallInv(k)'
    <3> TAKE k \in DOMAIN stack
    <3>1. k < Len(stack) => CallInv(k)
      BY DEF MaterializeInv, StackInv
    <3> QED BY <1>1, <2>1, <3>1 DEF CallInv
  <2> QED BY <2>2, <2>3 DEF StackInv
<1>6. TypesInv'
  <2>1. TypesInv
    BY DEF MaterializeInv
  <2>2. ASSUME NEW m \in Node
        PROVE  TypeInv(m)'
    <3>1. TypeInv(m)
      BY <2>1 DEF TypesInv
    <3>2. PartTypes(m)' = PartTypes(m) /\ LeafType(m)' = LeafType(m)
      BY <1>1 DEF PartTypes, LeafType, Known
    <3>3. Combine(m, PartTypes(m))' = Combine(m, PartTypes(m))
      BY <3>2 DEF Combine, FirstFields
    <3> QED BY <1>1, <3>1, <3>2, <3>3 DEF TypeInv, Known
  <2> QED BY <1>1, <2>1, <2>2 DEF TypesInv
<1>7. RootsInv'
  <2>1. Roots(prog)' = Roots(prog)
    BY DEF Roots
  <2>2. phase' \in {"materialize", "done"} => phase \in {"materialize", "done"}
    OBVIOUS
  <2> QED BY <1>2, <2>1, <2>2 DEF MaterializeInv, RootsInv
<1>8. DoneInv'
  BY DEF MaterializeInv, DoneInv
<1> QED BY <1>3, <1>4, <1>5, <1>6, <1>7, <1>8 DEF MaterializeInv

LEMMA VisitUndeclaredHolds ==
  ASSUME MaterializeInv, VisitUndeclared
  PROVE  MaterializeInv'
<1>1. /\ Materializing /\ Undeclared(Frame.node)
      /\ prog' = prog /\ todo' = todo /\ scope' = scope /\ declNode' = declNode /\ type' = type
      /\ \/ Return(Unknown) /\ phase' = phase
         \/ phase' = "wild" /\ stack' = stack
  BY DEF VisitUndeclared, Undeclared, IsRef
<1>2. Doomed(Frame.node)
  BY <1>1, ActiveVisit, DoomSpreads
<1>3. CASE Return(Unknown) /\ phase' = phase
  BY <1>1, <1>2, <1>3, UnknownHolds
<1>4. CASE phase' = "wild" /\ stack' = stack
  BY <1>1, <1>4, StopHolds DEF Materializing
<1> QED BY <1>1, <1>3, <1>4

\* The type of a visit whose parts have theirs.
LEMMA ComposeOutcome ==
  ASSUME MaterializeInv, Materializing, ~Bailing, Callees(Frame.node) # <<>>,
         Len(Frame.results) = Len(Callees(Frame.node))
  PROVE  LET n == Frame.node
             T == Combine(n, Frame.results)
         IN  /\ T[1] \in Tag /\ T # Unset
             /\ T = Unknown <=> Doomed(n)
             /\ ~IsRef(n) => \A k \in DOMAIN Callees(n) : Known(Callees(n)[k])
             /\ T = Combine(n, PartTypes(n))
<1>0. PICK n, r, C : n = Frame.node /\ r = Frame.results /\ C = Callees(n)
  OBVIOUS
<1>1. /\ n \in Node /\ TypesInv /\ NamesInv /\ ~HasNull
      /\ IsSequence(r) /\ Len(r) = Len(C) /\ C # <<>>
      /\ \A j \in DOMAIN r : Settled(C[j]) /\ r[j] = Outcome(C[j])
      /\ prog.nodes[n].kind = "Access" => r = <<>>
      /\ ~IsRef(n) => \A j \in DOMAIN r : j < Len(r) => r[j] # Unknown
  BY <1>0, ActiveVisit DEF FrameInv, Results, Parts
<1>2. /\ Len(r) \in Nat /\ DOMAIN r = 1..Len(r) /\ DOMAIN C = DOMAIN r
      /\ \A k \in DOMAIN C : C[k] \in Node
      /\ IsRef(n) => Len(r) = 1
      /\ C \in Seq(Node)
  BY <1>0, <1>1, AppendAny, CalleesType
<1>3. Len(r) >= 1 /\ r # <<>>
  <2>1. Len(C) # 0
    BY <1>1, <1>2
  <2> QED BY <1>1, <1>2, <2>1
<1>4. \A k \in DOMAIN C : TypeInv(C[k])
  BY <1>1, <1>2 DEF TypesInv
<1>5. \A k \in DOMAIN C : /\ r[k] = (IF Known(C[k]) THEN type[C[k]] ELSE Unknown)
                          /\ r[k] = Unknown <=> Doomed(C[k])
                          /\ r[k] # Unknown => Known(C[k])
                          /\ r[k] # Unset /\ r[k][1] \in Tag
  <2> TAKE k \in DOMAIN C
  <2>1. Settled(C[k]) /\ r[k] = Outcome(C[k]) /\ TypeInv(C[k])
    BY <1>1, <1>2, <1>4
  <2>2. CASE Doomed(C[k])
    <3>1. r[k] = Unknown /\ ~Known(C[k])
      BY <2>1, <2>2 DEF Outcome, TypeInv
    <3> QED BY <2>2, <3>1 DEF Unknown, Unset, Tag
  <2>3. CASE ~Doomed(C[k])
    <3>1. Known(C[k]) /\ r[k] = type[C[k]]
      BY <2>1, <2>3 DEF Outcome, Settled
    <3> QED BY <2>1, <2>3, <3>1 DEF Known, TypeInv
  <2> QED BY <2>2, <2>3
<1>6. r = PartTypes(n)
  <2>1. r = [k \in DOMAIN r |-> r[k]]
    BY <1>1 DEF IsSequence
  <2>2. PartTypes(n) = [k \in DOMAIN C |-> IF Known(C[k]) THEN type[C[k]] ELSE Unknown]
    BY <1>0 DEF PartTypes
  <2> QED BY <1>2, <1>5, <2>1, <2>2
<1>7. CASE IsRef(n)
  <2>1. Combine(n, r) = r[1] /\ 1 \in DOMAIN C /\ DOMAIN C = {1}
    BY <1>2, <1>3, <1>7 DEF Combine, IsRef
  <2>2. ~Undeclared(n)
    BY <1>0, <1>1, UndeclaredIsLeaf
  <2>3. r[1] = Unknown <=> Doomed(n)
    <3>1. r[1] = Unknown => Doomed(n)
      BY <1>0, <1>1, <1>5, <2>1, DoomSpreads
    <3>2. Doomed(n) => r[1] = Unknown
      BY <1>0, <1>1, <1>5, <2>1, <2>2, DoomHasCause
    <3> QED BY <3>1, <3>2
  <2> QED BY <1>0, <1>5, <1>6, <1>7, <2>1, <2>3
<1>8. CASE ~IsRef(n)
  <2>1. \A k \in DOMAIN C : r[k] # Unknown
    <3> TAKE k \in DOMAIN C
    <3>1. r[Len(r)] # Unknown
      BY <1>0, <1>3, <1>8 DEF Bailing, Last, IsRef
    <3>2. k < Len(r) \/ k = Len(r)
      BY <1>2
    <3> QED BY <1>1, <1>2, <1>8, <3>1, <3>2
  <2>2. \A k \in DOMAIN C : Known(C[k]) /\ ~Doomed(C[k])
    BY <1>5, <2>1
  <2>3. ~Doomed(n)
    BY <1>0, <1>1, <1>8, <2>2, DoomHasCause DEF Undeclared
  <2>4. prog.nodes[n].kind \in {"Qual", "Pointer", "Array", "Func", "Object"}
    <3>1. prog.nodes[n] \in TypeNode
      BY <1>1, ProgramType DEF NamesInv
    <3> QED BY <1>1, <1>3, <1>8, <3>1 DEF TypeNode, Kind, IsRef
  <2>5. /\ Combine(n, r)[1] \in Tag /\ Combine(n, r) # Unset /\ Combine(n, r) # Unknown
    <3>1. CASE prog.nodes[n].kind = "Qual"
      <4>1. Combine(n, r) = r[1] /\ 1 \in DOMAIN C
        BY <1>2, <1>3, <3>1 DEF Combine
      <4> QED BY <1>5, <2>1, <4>1
    <3>2. CASE prog.nodes[n].kind # "Qual"
      <4>1. Combine(n, r)[1] \in {"pointer", "array", "func", "object"}
        BY <2>4, <3>2 DEF Combine
      <4> QED BY <4>1 DEF Tag, Unset, Unknown
    <3> QED BY <3>1, <3>2
  <2> QED BY <1>0, <1>6, <1>8, <2>2, <2>3, <2>5
<1> QED BY <1>7, <1>8

LEMMA ComposeHolds ==
  ASSUME MaterializeInv, Compose
  PROVE  MaterializeInv'
<1>1. PICK n, T :
        /\ n = Frame.node /\ T = Combine(n, Frame.results)
        /\ Materializing /\ ~Bailing /\ Callees(n) # <<>>
        /\ Len(Frame.results) = Len(Callees(n))
        /\ SetType(n, T) /\ Return(T)
        /\ prog' = prog /\ phase' = phase /\ todo' = todo /\ scope' = scope
        /\ declNode' = declNode
  BY DEF Compose
<1>2. NamesInv /\ ~HasNull /\ TypesInv /\ n \in Node
  BY <1>1, ActiveVisit
<1>3. /\ T[1] \in Tag /\ T # Unset
      /\ T = Unknown <=> Doomed(n)
      /\ ~IsRef(n) => \A k \in DOMAIN Callees(n) : Known(Callees(n)[k])
      /\ T = Combine(n, PartTypes(n))
  BY <1>1, ComposeOutcome
<1>4. OutcomesStay /\ TypesInv' /\ Settled(n)' /\ T = Outcome(n)'
  BY <1>1, <1>2, <1>3, SetTypeKeeps
<1> QED BY <1>1, <1>4, ReturnHolds

\* A visit begins, or the process runs out of stack.
LEMMA PushHolds ==
  ASSUME MaterializeInv, phase = "materialize",
         prog' = prog, declNode' = declNode, scope' = scope, type' = type,
         NEW n \in Node, Push(n),
         IF stack = <<>> THEN todo # <<>> /\ n = Head(todo) /\ todo' = Tail(todo)
         ELSE /\ todo' = todo
              /\ Len(Frame.results) < Len(Callees(Frame.node))
              /\ n = Callees(Frame.node)[Len(Frame.results) + 1]
              /\ prog.nodes[Frame.node].kind # "Access"
              /\ ~Bailing
  PROVE  MaterializeInv'
<1>1. /\ NamesInv /\ ~HasNull /\ StackInv /\ IsSequence(stack) /\ TypesInv /\ WalksInv
      /\ todo \in Seq(Node)
  BY DEF MaterializeInv, WalksInv
<1>2. /\ Node' = Node /\ \A m : Doomed(m)' <=> Doomed(m)
      /\ \A m : Callees(m)' = Callees(m) /\ (IsRef(m)' <=> IsRef(m))
      /\ \A m, ts : Combine(m, ts)' = Combine(m, ts)
  BY CalleesStable
<1>3. \A m : Known(m)' <=> Known(m)
  BY DEF Known
<1>4. /\ todo' \in Seq(Node)
      /\ \A j \in DOMAIN todo : todo[j] = n \/ \E i \in DOMAIN todo' : todo'[i] = todo[j]
  <2>1. CASE stack = <<>>
    <3>1. todo # <<>> /\ todo' = Tail(todo) /\ n = todo[1]
      BY <1>1, <2>1
    <3>2. \A j \in DOMAIN todo : j = 1 \/ (j - 1 \in DOMAIN todo' /\ todo'[j - 1] = todo[j])
      BY <1>1, <3>1
    <3> QED BY <1>1, <3>1, <3>2
  <2>2. CASE stack # <<>>
    BY <1>1, <2>2
  <2> QED BY <2>1, <2>2
<1>5. TypesInv'
  <2>1. ASSUME NEW m \in Node
        PROVE  TypeInv(m)'
    <3>1. TypeInv(m)
      BY <1>1 DEF TypesInv
    <3>2. PartTypes(m)' = PartTypes(m) /\ LeafType(m)' = LeafType(m)
      BY <1>2 DEF PartTypes, LeafType, Known
    <3>3. Combine(m, PartTypes(m))' = Combine(m, PartTypes(m))
      BY <3>2 DEF Combine, FirstFields
    <3> QED BY <1>2, <3>1, <3>2, <3>3 DEF TypeInv, Known
  <2> QED BY <1>1, <1>2, <2>1 DEF TypesInv
<1>6. NamesInv'
  <2>1. phase' \in {"materialize", "overflow"}
    BY DEF Push
  <2> QED BY <1>1, <2>1, NamesUnchanged
<1>7. DoneInv'
  BY DEF DoneInv, Push
<1>8. CASE Len(stack) = MaxDepth
  <2>1. phase' = "overflow" /\ stack' = stack
    BY <1>8 DEF Push
  <2>2. WalksInv'
    BY <1>1, <1>4, <2>1, ProgramAssumption DEF WalksInv, Node, HasNull
  <2>3. StackInv'
    <3>1. \A k : /\ Results(k)' = Results(k) /\ Parts(k)' = Parts(k)
      BY <1>2, <2>1 DEF Results, Parts
    <3>2. OutcomesStay
      BY <1>2, <1>3 DEF OutcomesStay, Settled, Outcome
    <3>3. \A k \in DOMAIN stack : FrameInv(k)'
      BY <1>1, <2>1, <3>2, FrameStays DEF StackInv
    <3>4. \A k \in DOMAIN stack : k < Len(stack) => CallInv(k)'
      <4> TAKE k \in DOMAIN stack
      <4>1. k < Len(stack) => CallInv(k)
        BY <1>1 DEF StackInv
      <4> QED BY <1>2, <2>1, <3>1, <4>1 DEF CallInv
    <3> QED BY <2>1, <3>3, <3>4 DEF StackInv
  <2>4. RootsInv'
    BY <2>1 DEF RootsInv
  <2> QED BY <1>5, <1>6, <1>7, <2>2, <2>3, <2>4 DEF MaterializeInv
<1>9. CASE Len(stack) # MaxDepth
  <2>1. /\ StackInv' /\ IsSequence(stack')
        /\ Len(stack) \in Nat /\ Len(stack') = Len(stack) + 1
        /\ stack'[1].node = (IF stack = <<>> THEN n ELSE stack[1].node)
    BY <1>1, <1>9, PushKeeps
  <2>2. phase' = "materialize"
    BY <1>9 DEF Push
  <2>3. Len(stack') <= MaxDepth
    BY <1>1, <1>9, <2>1, ProgramAssumption DEF WalksInv
  <2>4. WalksInv'
    BY <1>1, <1>4, <2>1, <2>2, <2>3 DEF WalksInv, Node, HasNull
  <2>5. RootsInv'
    <3> SUFFICES ASSUME NEW k \in DOMAIN Roots(prog)
                 PROVE  \/ Settled(Roots(prog)[k])'
                        \/ \E j \in DOMAIN todo' : todo'[j] = Roots(prog)[k]
                        \/ stack' # <<>> /\ stack'[1].node = Roots(prog)[k]
      BY DEF RootsInv
    <3>0. PICK r : r = Roots(prog)[k]
      OBVIOUS
    <3>1. r = Roots(prog)'[k]
      BY <3>0 DEF Roots
    <3>2. \/ Settled(r)
          \/ \E j \in DOMAIN todo : todo[j] = r
          \/ stack # <<>> /\ stack[1].node = r
      BY <3>0 DEF MaterializeInv, RootsInv
    <3>3. stack' # <<>>
      BY <2>1
    <3>4. CASE Settled(r)
      BY <1>2, <1>3, <3>0, <3>1, <3>4 DEF Settled
    <3>5. CASE \E j \in DOMAIN todo : todo[j] = r
      <4>1. PICK j \in DOMAIN todo : todo[j] = r
        BY <3>5
      <4>2. CASE todo[j] = n
        <5>1. stack = <<>> => stack'[1].node = r
          BY <2>1, <4>1, <4>2
        <5>2. stack # <<>> => \E i \in DOMAIN todo' : todo'[i] = r
          BY <4>1
        <5> QED BY <3>0, <3>3, <5>1, <5>2
      <4>3. CASE todo[j] # n
        BY <1>4, <3>0, <4>1, <4>3
      <4> QED BY <4>2, <4>3
    <3>6. CASE stack # <<>> /\ stack[1].node = r
      BY <2>1, <3>0, <3>3, <3>6
    <3> QED BY <3>2, <3>4, <3>5, <3>6
  <2> QED BY <1>5, <1>6, <1>7, <2>1, <2>4, <2>5 DEF MaterializeInv
<1> QED BY <1>8, <1>9

LEMMA VisitRootHolds ==
  ASSUME MaterializeInv, VisitRoot
  PROVE  MaterializeInv'
<1>1. phase = "materialize" /\ stack = <<>> /\ todo # <<>> /\ todo \in Seq(Node)
  BY DEF VisitRoot, MaterializeInv, WalksInv
<1>2. PICK n : n = Head(todo) /\ n \in Node
  BY <1>1
<1> QED BY <1>1, <1>2, PushHolds DEF VisitRoot

LEMMA DescendHolds ==
  ASSUME MaterializeInv, Descend
  PROVE  MaterializeInv'
<1>1. /\ Materializing /\ prog.nodes[Frame.node].kind # "Access" /\ ~Bailing
      /\ Len(Frame.results) < Len(Callees(Frame.node))
      /\ Push(Callees(Frame.node)[Len(Frame.results) + 1])
      /\ prog' = prog /\ todo' = todo /\ scope' = scope /\ declNode' = declNode /\ type' = type
  BY DEF Descend
<1>2. PICK n : n = Callees(Frame.node)[Len(Frame.results) + 1]
  OBVIOUS
<1>3. n \in Node
  <2>1. Frame.node \in Node /\ NamesInv /\ ~HasNull /\ IsSequence(Frame.results)
    BY <1>1, ActiveVisit DEF FrameInv, Results
  <2>2. Len(Frame.results) \in Nat
    BY <2>1, AppendAny
  <2>3. Len(Frame.results) + 1 \in DOMAIN Callees(Frame.node)
    BY <1>1, <2>1, <2>2, CalleesType
  <2> QED BY <1>2, <2>1, <2>3, CalleesType
<1> QED BY <1>1, <1>2, <1>3, PushHolds DEF Materializing

\* Before the third walk no node has a type and no visit is active.
LEMMA UnsetHolds ==
  ASSUME NamesInv', WalksInv', prog' = prog,
         phase' # "done", phase' = "materialize" => todo' = Roots(prog),
         stack' = <<>>, type' = [n \in Node |-> Unset]
  PROVE  MaterializeInv'
<1>1. StackInv'
  BY DEF StackInv
<1>2. Node' = Node
  BY DEF Node
<1>3. \A n \in Node : TypeInv(n)'
  BY DEF TypeInv, Known, Unset, Unknown, Tag
<1>4. TypesInv'
  BY <1>2, <1>3 DEF TypesInv
<1>5. RootsInv'
  BY DEF RootsInv
<1>6. DoneInv'
  BY DEF DoneInv
<1> QED BY <1>1, <1>4, <1>5, <1>6 DEF MaterializeInv

LEMMA EarlyHolds ==
  ASSUME MaterializeInv, NamesInv',
         DeclareName \/ PassOther \/ StartResolve \/ ResolveInFile \/ ResolveGlobal
         \/ UndefinedRef \/ StartMaterialize
  PROVE  MaterializeInv'
<1>1. /\ prog' = prog /\ stack' = stack /\ type' = type /\ phase \in {"declare", "resolve"}
      /\ prog \in Programs /\ NamesInv /\ WalksInv
      /\ stack = <<>> /\ type = [n \in Node |-> Unset]
      /\ IsSequence(stack) /\ Len(stack) <= MaxDepth
  BY DEF MaterializeInv, NamesInv, WalksInv, DeclareName, PassOther, NextItem, StartResolve,
         ResolveInFile, ResolveGlobal, UndefinedRef, NextRef, StartMaterialize
<1>2. Node' = Node /\ (HasNull' <=> HasNull)
  BY <1>1 DEF Node, HasNull
<1>0. ASSUME WalksInv', phase' \in {"declare", "resolve", "null"}
      PROVE  MaterializeInv'
  <2>1. stack' = <<>> /\ type' = [n \in Node |-> Unset] /\ prog' = prog
    BY <1>1
  <2> QED BY <1>0, <2>1, UnsetHolds
<1>3. CASE DeclareName \/ PassOther
  <2>1. phase = "declare" /\ phase' \in {"declare", "null"} /\ todo' = Tail(todo) /\ todo # <<>>
    BY <1>3 DEF DeclareName, PassOther, NextItem
  <2>2. todo' \in Seq(DOMAIN prog.items)
    BY <1>1, <2>1 DEF NamesInv, Declaring
  <2>3. todo' \in Seq(Node' \union {Null} \union DOMAIN prog'.items)
    BY <1>1, <2>2
  <2>4. WalksInv'
    BY <1>1, <1>2, <2>1, <2>3 DEF WalksInv
  <2> QED BY <1>0, <2>1, <2>4
<1>4. CASE StartResolve
  <2>1. phase' = "resolve" /\ todo' = RefsOf(prog, Roots(prog))
    BY <1>4 DEF StartResolve
  <2>2. HasNull => \E k \in DOMAIN todo' : todo'[k] = Null
    BY <1>1, <2>1, WalkType DEF HasNull
  <2>3. WalksInv'
    BY <1>1, <1>2, <2>1, <2>2 DEF WalksInv
  <2> QED BY <1>0, <2>1, <2>3
<1>5. CASE ResolveInFile \/ ResolveGlobal \/ UndefinedRef
  <2>1. /\ phase = "resolve" /\ todo # <<>> /\ Head(todo) # Null /\ todo' = Tail(todo)
        /\ phase' \in {"resolve", "ambiguous"}
    BY <1>5 DEF ResolveInFile, ResolveGlobal, UndefinedRef, NextRef
  <2>2. phase' = "resolve"
    BY <2>1 DEF NamesInv, FirstDeclarationWins
  <2>3. todo \in Seq(Node \union {Null})
    BY <1>1, <2>1 DEF NamesInv
  <2>4. HasNull => \E k \in DOMAIN todo' : todo'[k] = Null
    <3> SUFFICES ASSUME HasNull
                 PROVE  \E k \in DOMAIN todo' : todo'[k] = Null
      OBVIOUS
    <3>1. PICK k \in DOMAIN todo : todo[k] = Null
      BY <1>1, <2>1 DEF WalksInv
    <3>2. k # 1 /\ k - 1 \in DOMAIN todo' /\ todo'[k - 1] = todo[k]
      BY <2>1, <2>3, <3>1
    <3> QED BY <3>1, <3>2
  <2>5. WalksInv'
    BY <1>1, <1>2, <2>2, <2>4 DEF WalksInv
  <2> QED BY <1>0, <2>2, <2>5
<1>6. CASE StartMaterialize
  <2>1. /\ phase = "resolve" /\ todo = <<>> /\ phase' = "materialize" /\ todo' = Roots(prog)
    BY <1>6 DEF StartMaterialize
  <2>2. ~HasNull
    BY <1>1, <2>1 DEF WalksInv
  <2>3. WalksInv'
    BY <1>1, <1>2, <2>1, <2>2, WalkType DEF WalksInv
  <2> QED BY <1>1, <2>1, <2>3, UnsetHolds
<1> QED BY <1>3, <1>4, <1>5, <1>6

LEMMA MaterializeInit ==
  ASSUME Init
  PROVE  MaterializeInv
<1>1. NamesInv
  BY NamesInit
<1>2. /\ phase = "declare" /\ stack = <<>> /\ type = [n \in Node |-> Unset]
  BY DEF Init, Node
<1>3. WalksInv
  BY <1>2, ProgramAssumption DEF WalksInv, IsSequence
<1>4. \A n \in Node : TypeInv(n)
  BY <1>2 DEF TypeInv, Known, Unset, Unknown, Tag
<1> QED BY <1>1, <1>2, <1>3, <1>4 DEF MaterializeInv, StackInv, TypesInv, RootsInv, DoneInv

LEMMA MaterializeStep ==
  ASSUME MaterializeInv, [Next]_vars
  PROVE  MaterializeInv'
<1>1. NamesInv'
  BY NamesStep DEF MaterializeInv
<1>2. CASE DeclareName \/ PassOther \/ StartResolve \/ ResolveInFile \/ ResolveGlobal
           \/ UndefinedRef \/ StartMaterialize
  BY <1>1, <1>2, EarlyHolds
<1>3. CASE VisitUntypedMember \/ VisitAccess \/ Finish \/ UNCHANGED vars
  BY <1>3, StopHolds DEF VisitUntypedMember, VisitAccess, Materializing, Finish, vars
<1>4. CASE VisitRoot
  BY <1>4, VisitRootHolds
<1>5. CASE VisitNamed \/ VisitGlobal
  BY <1>5, VisitLeafHolds
<1>6. CASE VisitUndeclared
  BY <1>6, VisitUndeclaredHolds
<1>7. CASE Descend
  BY <1>7, DescendHolds
<1>8. CASE BailOut
  BY <1>8, BailOutHolds
<1>9. CASE Compose
  BY <1>9, ComposeHolds
<1> QED BY <1>2, <1>3, <1>4, <1>5, <1>6, <1>7, <1>8, <1>9 DEF Next

LEMMA MaterializeHolds == Spec => []MaterializeInv
<1> QED BY MaterializeInit, MaterializeStep, PTL DEF Spec

\* Every walk stays within the tree and the process's stack, every active visit
\* has visited no more parts than its node has, and every type has a tag that
\* TypeContext makes.
THEOREM TypeCorrect == Spec => []TypeOK
<1>1. MaterializeInv => TypeOK
  <2> SUFFICES ASSUME MaterializeInv PROVE TypeOK
    OBVIOUS
  <2>0. NamesInv /\ WalksInv /\ StackInv /\ TypesInv /\ prog \in Programs
    BY DEF MaterializeInv, NamesInv
  <2>1. \A k \in DOMAIN todo : todo[k] \in Node \union {Null} \union DOMAIN prog.items
    <3>1. \/ todo \in Seq(DOMAIN prog.items)
          \/ todo \in Seq(Node \union {Null})
          \/ todo \in Seq(Node \union {Null} \union DOMAIN prog.items)
          \/ todo \in Seq(Node)
      BY <2>0 DEF NamesInv, Declaring, WalksInv
    <3> QED BY <3>1
  <2>2. \A n \in Node : declNode[n][1] \in {"indeterminate", "file", "global"}
    BY <2>0 DEF NamesInv
  <2>3. \A k \in DOMAIN stack :
          stack[k].node \in Node /\ Len(stack[k].results) <= Len(Callees(stack[k].node))
    BY <2>0 DEF StackInv, FrameInv, Results, Parts
  <2> QED BY <2>0, <2>1, <2>2, <2>3 DEF TypeOK, NamesInv, WalksInv, TypesInv, TypeInv
<1> QED BY <1>1, MaterializeHolds, PTL

\* After the third walk a type is what the parts of its node, its declaration
\* and the aliases between them say, however often and in whatever order the
\* walk has come to them and wherever errors have cut it short; without
\* undefined names every node has one.
THEOREM TypesAreConsistent == Spec => []TypesConsistent
<1>1. MaterializeInv => TypesConsistent
  <2> SUFFICES ASSUME MaterializeInv, phase = "done"
               PROVE  /\ \A n \in Node : type[n] # Unset /\ Callees(n) # <<>> =>
                           /\ ~IsRef(n) => \A k \in DOMAIN Callees(n) : Known(Callees(n)[k])
                           /\ type[n] = Combine(n, PartTypes(n))
                      /\ (\A n \in Node : IsRef(n) => declNode[n] # Indeterminate)
                           => \A n \in Node : Known(n)
    BY DEF TypesConsistent, IsRef, PartTypes
  <2>1. \A n \in Node : TypeInv(n)
    BY DEF MaterializeInv, TypesInv
  <2>2. ASSUME \A n \in Node : IsRef(n) => declNode[n] # Indeterminate
        PROVE  \A n \in Node : Known(n)
    <3>0. NamesInv /\ WalksInv /\ ~HasNull /\ prog \in Programs /\ stack = <<>> /\ todo = <<>>
      BY DEF MaterializeInv, NamesInv, WalksInv, DoneInv
    <3>1. \A n : ~Doomed(n)
      <4>1. {} \in Spread
        BY <2>2 DEF Spread, Undeclared
      <4> QED BY <4>1 DEF Doomed
    <3> DEFINE S == {n \in Node : Known(n)}
    <3>2. \A k \in DOMAIN Roots(prog) : Roots(prog)[k] \in S
      BY <3>0, <3>1, WalkType DEF MaterializeInv, RootsInv, Settled
    <3>3. \A n \in S : \A k \in DOMAIN prog.nodes[n].kids : prog.nodes[n].kids[k] \in S
      <4> TAKE n \in S
      <4>1. CASE IsRef(n)
        BY <3>0, <4>1, ProgramAssumption DEF IsRef, Node
      <4>2. CASE ~IsRef(n)
        <5>1. Callees(n) = prog.nodes[n].kids /\ Callees(n) # <<>>
              /\ \A k \in DOMAIN Callees(n) : Callees(n)[k] \in Node
          BY <3>0, <4>2, CalleesType
        <5> QED BY <2>1, <4>2, <5>1 DEF TypeInv, Known
      <4> QED BY <4>1, <4>2
    <3> QED BY <3>0, <3>2, <3>3, TreeType
  <2> QED BY <2>1, <2>2 DEF TypeInv
<1> QED BY <1>1, MaterializeHolds, PTL

-----------------------------------------------------------------------------
(* The diagnostics.                                                        *)

Diag == {"redefinition", "previous", "undefined", "duplicate"} \X (Node \union Decls)

Emitted(what, n) == \E k \in DOMAIN diags : diags[k] = <<what, n>>
Dropped(i) == FirstDecl(prog.items[i].name) # {i}

\* An error for a redefinition is followed by its note, and not repeated.
NotesFollow ==
  \A k \in DOMAIN diags : diags[k][1] = "redefinition" =>
    /\ k + 1 \in DOMAIN diags
    /\ diags[k + 1][1] = "previous"
    /\ FirstDecl(prog.items[diags[k][2]].name) = {diags[k + 1][2]}
    /\ \A l \in DOMAIN diags : diags[l] = diags[k] => l = k

UndefinedAreNowhere ==
  /\ \A k \in DOMAIN diags : diags[k][1] = "undefined" =>
       phase # "declare" /\ Find(Symbol(diags[k][2])) = "nowhere"
  /\ \A n \in Node : declNode[n] # Indeterminate => Find(Symbol(n)) # "nowhere"

ErrorsInv ==
  /\ diags \in Seq(Diag)
  /\ NotesFollow
  /\ UndefinedAreNowhere
  /\ phase = "declare" =>
       \A i \in Decls : Emitted("redefinition", i) <=> i <= Visited /\ Dropped(i)
  /\ phase \notin {"declare", "null"} =>
       \A i \in Decls : Emitted("redefinition", i) <=> Dropped(i)
  /\ phase = "resolve" =>
       \A n \in Node : IsRef(n) =>
         \/ \E k \in DOMAIN todo : todo[k] = n
         \/ declNode[n] # Indeterminate \/ Emitted("undefined", n)
  /\ phase \notin {"declare", "resolve", "null"} =>
       \A n \in Node : IsRef(n) => declNode[n] # Indeterminate \/ Emitted("undefined", n)

\* A sequence that has one or two more elements.
LEMMA AppendOne ==
  ASSUME NEW S, NEW s \in Seq(S), NEW x \in S, NEW t, t = Append(s, x),
         NEW L, L = Len(s)
  PROVE  /\ t \in Seq(S) /\ L \in Nat
         /\ DOMAIN s = 1..L /\ DOMAIN t = 1..(L + 1)
         /\ \A k \in 1..L : t[k] = s[k]
         /\ t[L + 1] = x
OBVIOUS

LEMMA AppendTwo ==
  ASSUME NEW S, NEW s \in Seq(S), NEW x \in S, NEW y \in S, NEW t, t = s \o <<x, y>>,
         NEW L, L = Len(s)
  PROVE  /\ t \in Seq(S) /\ L \in Nat
         /\ DOMAIN s = 1..L /\ DOMAIN t = 1..(L + 2)
         /\ \A k \in 1..L : t[k] = s[k]
         /\ t[L + 1] = x /\ t[L + 2] = y
<1>1. PICK u : u = <<x, y>>
  OBVIOUS
<1>2. u \in Seq(S) /\ Len(u) = 2 /\ u[1] = x /\ u[2] = y
  BY <1>1
<1>3. t = s \o u
  BY <1>1
<1>4. t \in Seq(S) /\ L \in Nat /\ DOMAIN s = 1..L
  BY <1>2, <1>3
<1>5. Len(t) = L + 2
  BY <1>2, <1>3
<1>6. DOMAIN t = 1..(L + 2)
  BY <1>4, <1>5
<1>7. \A k \in 1..L : t[k] = s[k]
  BY <1>2, <1>3
<1>8. t[L + 1] = x /\ t[L + 2] = y
  BY <1>2, <1>3, <1>4
<1> QED BY <1>4, <1>6, <1>7, <1>8

\* One more diagnostic that is no redefinition.
LEMMA EmitOther ==
  ASSUME prog' = prog, diags \in Seq(Diag), NotesFollow,
         NEW t \in {"undefined", "duplicate"}, NEW n \in Node,
         diags' = Append(diags, <<t, n>>)
  PROVE  /\ diags' \in Seq(Diag) /\ NotesFollow'
         /\ \A i : Emitted("redefinition", i)' <=> Emitted("redefinition", i)
         /\ \A m : Emitted("undefined", m)' <=>
                     Emitted("undefined", m) \/ (t = "undefined" /\ m = n)
         /\ \A k \in DOMAIN diags' : diags'[k][1] = "undefined" =>
              \/ k \in DOMAIN diags /\ diags'[k] = diags[k]
              \/ t = "undefined" /\ diags'[k][2] = n
<1>1. <<t, n>> \in Diag
  BY DEF Diag
<1>2. PICK L : L = Len(diags)
  OBVIOUS
<1>3. /\ diags' \in Seq(Diag) /\ L \in Nat /\ DOMAIN diags = 1..L /\ DOMAIN diags' = 1..(L + 1)
      /\ \A k \in 1..L : diags'[k] = diags[k]
      /\ diags'[L + 1] = <<t, n>>
  <2>1. PICK d : d = <<t, n>>
    OBVIOUS
  <2> QED BY <1>1, <1>2, <2>1, AppendOne
<1>4. \A k \in 1..(L + 1) : k = L + 1 \/ k \in 1..L
  BY <1>3
<1>5. \A k \in 1..L : k \in 1..(L + 1)
  BY <1>3
<1>6. \A x : FirstDecl(x)' = FirstDecl(x)
  BY DEF FirstDecl, Decls
<1>7. t # "redefinition"
  OBVIOUS
<1>8. NotesFollow'
  <2> SUFFICES ASSUME NEW k \in DOMAIN diags', diags'[k][1] = "redefinition"
               PROVE  /\ k + 1 \in DOMAIN diags'
                      /\ diags'[k + 1][1] = "previous"
                      /\ FirstDecl(prog.items[diags'[k][2]].name) = {diags'[k + 1][2]}
                      /\ \A l \in DOMAIN diags' : diags'[l] = diags'[k] => l = k
    BY <1>6 DEF NotesFollow
  <2>1. k \in 1..L /\ diags'[k] = diags[k]
    BY <1>3, <1>4, <1>7
  <2>2. /\ k + 1 \in 1..L
        /\ diags[k + 1][1] = "previous"
        /\ FirstDecl(prog.items[diags[k][2]].name) = {diags[k + 1][2]}
        /\ \A l \in 1..L : diags[l] = diags[k] => l = k
    BY <1>3, <2>1 DEF NotesFollow
  <2>3. diags'[L + 1] # diags'[k]
    BY <1>3, <1>7
  <2>4. ASSUME NEW l \in DOMAIN diags', diags'[l] = diags'[k] PROVE l = k
    BY <1>3, <1>4, <2>1, <2>2, <2>3, <2>4
  <2> QED BY <1>3, <1>5, <2>1, <2>2, <2>4
<1>9. \A i : Emitted("redefinition", i)' <=> Emitted("redefinition", i)
  BY <1>3, <1>4, <1>5, <1>7 DEF Emitted
<1>10. \A m : Emitted("undefined", m)' <=>
              Emitted("undefined", m) \/ (t = "undefined" /\ m = n)
  <2> TAKE m
  <2>1. L + 1 \in 1..(L + 1) /\ L + 1 \in DOMAIN diags' /\ diags'[L + 1] = <<t, n>>
    BY <1>3, <1>5
  <2>2. \A k : k \in DOMAIN diags' <=> k \in DOMAIN diags \/ k = L + 1
    BY <1>3
  <2>3. ASSUME NEW k \in DOMAIN diags PROVE diags'[k] = diags[k]
    BY <1>3, <1>4, <2>3
  <2>4. \A k \in DOMAIN diags' : diags'[k] = <<"undefined", m>> <=>
          (k \in DOMAIN diags /\ diags[k] = <<"undefined", m>>) \/ (k = L + 1 /\ t = "undefined" /\ m = n)
    <3> TAKE k \in DOMAIN diags'
    <3>1. CASE k \in DOMAIN diags /\ k # L + 1
      BY <2>3, <3>1
    <3>2. CASE k = L + 1
      <4>1. k \notin DOMAIN diags
        BY <1>3, <3>2
      <4> QED BY <2>1, <3>2, <4>1
    <3> QED BY <2>2, <3>1, <3>2, <1>3
  <2> QED BY <2>1, <2>2, <2>4 DEF Emitted
<1>11. \A k \in DOMAIN diags' : diags'[k][1] = "undefined" =>
        \/ k \in DOMAIN diags /\ diags'[k] = diags[k]
        \/ t = "undefined" /\ diags'[k][2] = n
  BY <1>3, <1>4
<1> QED BY <1>3, <1>8, <1>9, <1>10, <1>11

\* A redefinition that was not reported before, and its note.
LEMMA EmitRedefinition ==
  ASSUME prog' = prog, diags \in Seq(Diag), NotesFollow,
         NEW i \in Decls, NEW j \in Decls, FirstDecl(prog.items[i].name) = {j},
         ~Emitted("redefinition", i),
         diags' = diags \o <<<<"redefinition", i>>, <<"previous", j>>>>
  PROVE  /\ diags' \in Seq(Diag) /\ NotesFollow'
         /\ \A m : Emitted("redefinition", m)' <=> Emitted("redefinition", m) \/ m = i
         /\ \A k \in DOMAIN diags' : diags'[k][1] = "undefined" =>
              k \in DOMAIN diags /\ diags'[k] = diags[k]
<1>1. <<"redefinition", i>> \in Diag /\ <<"previous", j>> \in Diag
  BY DEF Diag
<1>2. PICK L : L = Len(diags)
  OBVIOUS
<1>3. /\ diags' \in Seq(Diag) /\ L \in Nat /\ DOMAIN diags = 1..L /\ DOMAIN diags' = 1..(L + 2)
      /\ \A k \in 1..L : diags'[k] = diags[k]
      /\ diags'[L + 1] = <<"redefinition", i>>
      /\ diags'[L + 2] = <<"previous", j>>
  BY <1>1, <1>2, AppendTwo
<1>4. \A k \in 1..(L + 2) : k = L + 1 \/ k = L + 2 \/ k \in 1..L
  BY <1>3
<1>5. (\A k \in 1..L : k \in 1..(L + 2)) /\ L + 1 \in 1..(L + 2) /\ L + 2 \in 1..(L + 2)
  BY <1>3
<1>6. \A x : FirstDecl(x)' = FirstDecl(x)
  BY DEF FirstDecl, Decls
<1>7. NotesFollow'
  <2> SUFFICES ASSUME NEW k \in DOMAIN diags', diags'[k][1] = "redefinition"
               PROVE  /\ k + 1 \in DOMAIN diags'
                      /\ diags'[k + 1][1] = "previous"
                      /\ FirstDecl(prog.items[diags'[k][2]].name) = {diags'[k + 1][2]}
                      /\ \A l \in DOMAIN diags' : diags'[l] = diags'[k] => l = k
    BY <1>6 DEF NotesFollow
  <2>0. \A l \in 1..L : diags[l] # <<"redefinition", i>>
    BY <1>3 DEF Emitted
  <2>1. CASE k \in 1..L
    <3>1. /\ k + 1 \in 1..L /\ diags'[k] = diags[k]
          /\ diags[k + 1][1] = "previous"
          /\ FirstDecl(prog.items[diags[k][2]].name) = {diags[k + 1][2]}
          /\ \A l \in 1..L : diags[l] = diags[k] => l = k
      BY <1>3, <2>1 DEF NotesFollow
    <3>2. diags'[L + 1] # diags'[k]
      BY <1>3, <2>0, <2>1, <3>1
    <3>3. diags'[L + 2] # diags'[k]
      BY <1>3
    <3>4. ASSUME NEW l \in DOMAIN diags', diags'[l] = diags'[k] PROVE l = k
      BY <1>3, <1>4, <3>1, <3>2, <3>3, <3>4
    <3> QED BY <1>3, <1>5, <3>1, <3>4
  <2>2. CASE k = L + 1
    <3>1. k + 1 = L + 2
      BY <1>3, <2>2
    <3>2. /\ diags'[k] = <<"redefinition", i>> /\ diags'[k + 1] = <<"previous", j>>
          /\ k + 1 \in DOMAIN diags'
      BY <1>3, <1>5, <2>2, <3>1
    <3>3. diags'[k][2] = i /\ diags'[k + 1][1] = "previous" /\ diags'[k + 1][2] = j
      BY <3>2
    <3>4. diags'[L + 2] # diags'[k]
      BY <1>3
    <3>5. ASSUME NEW l \in DOMAIN diags', diags'[l] = diags'[k] PROVE l = k
      BY <1>3, <1>4, <2>0, <2>2, <3>2, <3>4, <3>5
    <3> QED BY <3>2, <3>3, <3>5
  <2>3. k # L + 2
    BY <1>3
  <2> QED BY <1>3, <1>4, <2>1, <2>2, <2>3
<1>8. \A m : Emitted("redefinition", m)' <=> Emitted("redefinition", m) \/ m = i
  <2>1. \A m : <<"previous", j>> # <<"redefinition", m>>
    OBVIOUS
  <2>2. \A m : <<"redefinition", i>> = <<"redefinition", m>> <=> m = i
    OBVIOUS
  <2> TAKE m
  <2>3. ASSUME Emitted("redefinition", m)' PROVE Emitted("redefinition", m) \/ m = i
    <3>1. PICK k \in DOMAIN diags' : diags'[k] = <<"redefinition", m>>
      BY <2>3 DEF Emitted
    <3>2. CASE k \in 1..L
      BY <1>3, <1>4, <3>1, <3>2 DEF Emitted
    <3>3. CASE k = L + 1
      BY <1>3, <2>2, <3>1, <3>3
    <3>4. k # L + 2
      BY <1>3, <2>1, <3>1
    <3> QED BY <1>3, <1>4, <3>2, <3>3, <3>4
  <2>4. Emitted("redefinition", m) => Emitted("redefinition", m)'
    BY <1>3, <1>5 DEF Emitted
  <2>5. m = i => Emitted("redefinition", m)'
    BY <1>3, <1>5 DEF Emitted
  <2> QED BY <2>3, <2>4, <2>5
<1>9. \A k \in DOMAIN diags' : diags'[k][1] = "undefined" =>
        k \in DOMAIN diags /\ diags'[k] = diags[k]
  BY <1>3, <1>4
<1> QED BY <1>3, <1>7, <1>8, <1>9

\* A step that emits nothing.
LEMMA EmitNothing ==
  ASSUME prog' = prog, diags' = diags
  PROVE  /\ diags \in Seq(Diag) => diags' \in Seq(Diag)'
         /\ NotesFollow => NotesFollow'
         /\ \A t, m : Emitted(t, m)' <=> Emitted(t, m)
         /\ \A i : Dropped(i)' <=> Dropped(i)
         /\ Node' = Node /\ Decls' = Decls /\ Diag' = Diag
BY DEF NotesFollow, Emitted, Dropped, FirstDecl, Decls, Node, Diag

LEMMA NamesKept ==
  ASSUME prog' = prog
  PROVE  /\ \A i : Dropped(i)' <=> Dropped(i)
         /\ Node' = Node /\ Decls' = Decls /\ Diag' = Diag
         /\ \A n : IsRef(n)' <=> IsRef(n)
         /\ scope' = scope => \A n : Find(Symbol(n))' = Find(Symbol(n))
BY DEF Dropped, FirstDecl, Decls, Node, Diag, IsRef, Find, Symbol, IsDeclared

LEMMA DeclareNameErrors ==
  ASSUME NamesInv, ErrorsInv, DeclareName
  PROVE  ErrorsInv'
<1> DEFINE i == Head(todo)
           x == prog.items[i].name
<1>1. /\ prog' = prog /\ phase' = "declare" /\ declNode' = declNode /\ phase = "declare"
      /\ todo # <<>> /\ todo' = Tail(todo) /\ Declaring /\ prog \in Programs
      /\ prog.items[i].kind \in {"Type", "Use"}
  BY DEF DeclareName, NextItem, NamesInv
<1>2. i = Visited + 1 /\ i \in DOMAIN prog.items /\ Visited \in Nat /\ Visited' = Visited + 1
  BY <1>1, VisitItem
<1>3. i \in Decls /\ x \in Name /\ ScopeIs(scope, x, Visited)
  BY <1>1, <1>2, ProgramType DEF Decls, Item, Declaring
<1>4. /\ diags \in Seq(Diag) /\ NotesFollow /\ UndefinedAreNowhere
      /\ \A m \in Decls : Emitted("redefinition", m) <=> m <= Visited /\ Dropped(m)
  BY <1>1 DEF ErrorsInv
<1>5. \A m \in Decls : m \in Nat /\ (m <= Visited + 1 <=> m <= Visited \/ m = i)
  BY <1>1, <1>2, ProgramType DEF Decls
<1>6. /\ diags' \in Seq(Diag) /\ NotesFollow'
      /\ \A m \in Decls : Emitted("redefinition", m)' <=>
                            Emitted("redefinition", m) \/ (m = i /\ Dropped(i))
      /\ \A k \in DOMAIN diags' : diags'[k][1] # "undefined"
  <2>0. \A k \in DOMAIN diags : diags[k][1] # "undefined"
    BY <1>1, <1>4 DEF UndefinedAreNowhere
  <2>1. CASE IsDeclared(scope, x)
    <3>1. scope[x] # <<>>
      BY <2>1 DEF IsDeclared
    <3>2. \E l \in Decls : Declares(l, x) /\ l <= Visited
      BY <1>3, <3>1 DEF ScopeIs
    <3>3. PICK j \in Decls : FirstDecl(x) = {j} /\ scope[x] = <<j>>
      BY <1>3, <3>1 DEF ScopeIs
    <3>4. j <= Visited /\ j # i
      <4>1. PICK l \in Decls : Declares(l, x) /\ l <= Visited
        BY <3>2
      <4>2. j <= l
        BY <3>3, <4>1, FirstDeclIsFirst
      <4> QED BY <1>2, <1>5, <4>1, <4>2
    <3>5. Dropped(i)
      BY <3>3, <3>4 DEF Dropped
    <3>6. diags' = diags \o <<<<"redefinition", i>>, <<"previous", j>>>>
      <4>1. scope[x][1] = j
        BY <3>3
      <4> QED BY <2>1, <4>1 DEF DeclareName
    <3>7. ~Emitted("redefinition", i)
      BY <1>2, <1>3, <1>4
    <3>8. /\ diags' \in Seq(Diag) /\ NotesFollow'
          /\ \A m : Emitted("redefinition", m)' <=> Emitted("redefinition", m) \/ m = i
          /\ \A k \in DOMAIN diags' : diags'[k][1] = "undefined" =>
               k \in DOMAIN diags /\ diags'[k] = diags[k]
      BY <1>1, <1>3, <1>4, <3>3, <3>6, <3>7, EmitRedefinition
    <3> QED BY <2>0, <3>5, <3>8
  <2>2. CASE ~IsDeclared(scope, x)
    <3>1. FirstDecl(x) = {i}
      BY <1>1, <1>3, <2>2, NewNameIsFirst
    <3>2. diags' = diags /\ ~Dropped(i)
      BY <2>2, <3>1 DEF DeclareName, Dropped
    <3> QED BY <1>1, <1>4, <2>0, <3>2, EmitNothing
  <2> QED BY <2>1, <2>2
<1>7. UndefinedAreNowhere'
  <2>1. \A n \in Node' : declNode'[n] = Indeterminate
    BY <1>1, NamesKept DEF Declaring
  <2> QED BY <1>6, <2>1 DEF UndefinedAreNowhere
<1>8. \A m \in Decls : Emitted("redefinition", m)' <=> m <= Visited' /\ Dropped(m)'
  <2> TAKE m \in Decls
  <2>1. Dropped(m)' <=> Dropped(m)
    BY <1>1, NamesKept
  <2>2. ~(i <= Visited)
    BY <1>2
  <2> QED BY <1>2, <1>4, <1>5, <1>6, <2>1, <2>2
<1> QED BY <1>1, <1>6, <1>7, <1>8, NamesKept DEF ErrorsInv

LEMMA PassOtherErrors ==
  ASSUME NamesInv, ErrorsInv, PassOther
  PROVE  ErrorsInv'
<1>1. /\ prog' = prog /\ phase' \in {"declare", "null"} /\ declNode' = declNode
      /\ phase = "declare" /\ scope' = scope /\ diags' = diags
      /\ todo # <<>> /\ todo' = Tail(todo) /\ Declaring /\ prog \in Programs
      /\ prog.items[Head(todo)].kind = "Plain"
  BY DEF PassOther, NextItem, NamesInv
<1>2. /\ Head(todo) = Visited + 1 /\ Visited \in Nat /\ Visited' = Visited + 1
  BY <1>1, VisitItem
<1>3. /\ diags \in Seq(Diag) /\ NotesFollow /\ UndefinedAreNowhere
      /\ \A m \in Decls : Emitted("redefinition", m) <=> m <= Visited /\ Dropped(m)
  BY <1>1 DEF ErrorsInv
<1>4. \A m \in Decls : m \in Nat /\ (m <= Visited + 1 <=> m <= Visited)
  <2> TAKE m \in Decls
  <2>1. m \in Nat /\ m # Visited + 1
    BY <1>1, <1>2, ProgramType DEF Decls
  <2> QED BY <1>2, <2>1
<1>5. UndefinedAreNowhere'
  <2>1. \A n \in Node' : declNode'[n] = Indeterminate
    BY <1>1, NamesKept DEF Declaring
  <2> QED BY <1>1, <1>3, <2>1 DEF UndefinedAreNowhere
<1>6. \A m \in Decls : Emitted("redefinition", m)' <=> m <= Visited' /\ Dropped(m)'
  BY <1>1, <1>2, <1>3, <1>4, EmitNothing
<1>7. CASE phase' = "declare"
  BY <1>1, <1>3, <1>5, <1>6, <1>7, EmitNothing DEF ErrorsInv
<1>8. CASE phase' = "null"
  BY <1>1, <1>3, <1>5, <1>8, EmitNothing DEF ErrorsInv
<1> QED BY <1>1, <1>7, <1>8

LEMMA StartResolveErrors ==
  ASSUME NamesInv, ErrorsInv, StartResolve
  PROVE  ErrorsInv'
<1>1. /\ prog' = prog /\ phase' = "resolve" /\ declNode' = declNode
      /\ phase = "declare" /\ scope' = scope /\ diags' = diags
      /\ todo = <<>> /\ todo' = RefsOf(prog, Roots(prog)) /\ Declaring /\ prog \in Programs
  BY DEF StartResolve, NamesInv
<1>2. /\ diags \in Seq(Diag) /\ NotesFollow /\ UndefinedAreNowhere
      /\ \A m \in Decls : Emitted("redefinition", m) <=> m <= Visited /\ Dropped(m)
  BY <1>1 DEF ErrorsInv
<1>3. \A m \in Decls : m <= Visited
  BY <1>1, ProgramType DEF Visited, Decls
<1>4. UndefinedAreNowhere'
  <2>1. \A n \in Node' : declNode'[n] = Indeterminate
    BY <1>1, NamesKept DEF Declaring
  <2> QED BY <1>1, <1>2, <2>1 DEF UndefinedAreNowhere
<1>5. \A n \in Node : IsRef(n) => \E k \in DOMAIN todo' : todo'[k] = n
  BY <1>1, WalkType DEF IsRef
<1> QED BY <1>1, <1>2, <1>3, <1>4, <1>5, EmitNothing, NamesKept DEF ErrorsInv

\* A step of the second walk or the third keeps what is known of the errors,
\* when it says of each reference that it has left what has become of it.
LEMMA LaterErrors ==
  ASSUME NamesInv, ErrorsInv, prog' = prog, scope' = scope,
         phase \notin {"declare", "null"}, phase' \notin {"declare", "null"},
         \A n \in Node : declNode'[n] # declNode[n] => Find(Symbol(n)) # "nowhere",
         \/ diags' = diags
         \/ \E n \in Node :
              \/ diags' = Append(diags, <<"duplicate", n>>)
              \/ diags' = Append(diags, <<"undefined", n>>) /\ Find(Symbol(n)) = "nowhere",
         phase' = "resolve" =>
           \A n \in Node : IsRef(n) =>
             \/ \E k \in DOMAIN todo' : todo'[k] = n
             \/ declNode'[n] # Indeterminate \/ Emitted("undefined", n)',
         phase' # "resolve" =>
           \A n \in Node : IsRef(n) => declNode'[n] # Indeterminate \/ Emitted("undefined", n)'
  PROVE  ErrorsInv'
<1>1. /\ diags \in Seq(Diag) /\ NotesFollow /\ UndefinedAreNowhere
      /\ \A i \in Decls : Emitted("redefinition", i) <=> Dropped(i)
  BY DEF ErrorsInv
<1>2. /\ \A i : Dropped(i)' <=> Dropped(i)
      /\ Node' = Node /\ Decls' = Decls /\ Diag' = Diag
      /\ \A n : IsRef(n)' <=> IsRef(n)
      /\ \A n : Find(Symbol(n))' = Find(Symbol(n))
  BY NamesKept
<1>3. /\ diags' \in Seq(Diag) /\ NotesFollow'
      /\ \A i : Emitted("redefinition", i)' <=> Emitted("redefinition", i)
      /\ \A k \in DOMAIN diags' : diags'[k][1] = "undefined" =>
           \/ k \in DOMAIN diags /\ diags'[k] = diags[k]
           \/ Find(Symbol(diags'[k][2])) = "nowhere"
  <2>1. CASE diags' = diags
    BY <1>1, <2>1, EmitNothing
  <2>2. CASE \E n \in Node : diags' = Append(diags, <<"duplicate", n>>)
    <3>1. PICK n \in Node : diags' = Append(diags, <<"duplicate", n>>)
      BY <2>2
    <3> QED BY <1>1, <3>1, EmitOther
  <2>3. CASE \E n \in Node :
               diags' = Append(diags, <<"undefined", n>>) /\ Find(Symbol(n)) = "nowhere"
    <3>1. PICK n \in Node :
            diags' = Append(diags, <<"undefined", n>>) /\ Find(Symbol(n)) = "nowhere"
      BY <2>3
    <3> QED BY <1>1, <3>1, EmitOther
  <2> QED BY <2>1, <2>2, <2>3
<1>4. UndefinedAreNowhere'
  <2>1. \A k \in DOMAIN diags' : diags'[k][1] = "undefined" =>
          Find(Symbol(diags'[k][2])) = "nowhere"
    BY <1>1, <1>3 DEF UndefinedAreNowhere
  <2>2. \A n \in Node : declNode'[n] # Indeterminate => Find(Symbol(n)) # "nowhere"
    BY <1>1 DEF UndefinedAreNowhere
  <2> QED BY <1>2, <2>1, <2>2 DEF UndefinedAreNowhere
<1> QED BY <1>1, <1>2, <1>3, <1>4 DEF ErrorsInv

LEMMA ResolveErrors ==
  ASSUME NamesInv, NamesInv', ErrorsInv, ResolveInFile \/ ResolveGlobal \/ UndefinedRef
  PROVE  ErrorsInv'
<1>0. PICK n : n = Head(todo)
  OBVIOUS
<1>1. /\ prog' = prog /\ scope' = scope /\ phase = "resolve" /\ prog \in Programs
      /\ todo # <<>> /\ todo' = Tail(todo) /\ n # Null
      /\ todo \in Seq(Node \union {Null}) /\ DOMAIN declNode = Node
      /\ phase' \in {"resolve", "ambiguous"}
  BY <1>0 DEF NamesInv, ResolveInFile, ResolveGlobal, UndefinedRef, NextRef
<1>2. n \in Node
  BY <1>0, <1>1
<1>3. phase' = "resolve"
  BY <1>1 DEF NamesInv, FirstDeclarationWins
<1>4. \A m : (\E k \in DOMAIN todo : todo[k] = m) =>
        m = n \/ \E k \in DOMAIN todo' : todo'[k] = m
  <2> TAKE m
  <2> SUFFICES ASSUME NEW k \in DOMAIN todo, todo[k] = m, m # n
               PROVE  \E l \in DOMAIN todo' : todo'[l] = m
    OBVIOUS
  <2>1. k # 1 /\ k - 1 \in DOMAIN todo' /\ todo'[k - 1] = todo[k]
    BY <1>0, <1>1
  <2> QED BY <2>1
<1>5. \A m \in Node : IsRef(m) =>
        \/ \E k \in DOMAIN todo : todo[k] = m
        \/ declNode[m] # Indeterminate \/ Emitted("undefined", m)
  BY <1>1 DEF ErrorsInv
<1>6. CASE ResolveInFile \/ ResolveGlobal
  <2>1. /\ diags' = diags
        /\ \A m : Emitted("undefined", m)' <=> Emitted("undefined", m)
    BY <1>1, <1>6, EmitNothing DEF ResolveInFile, ResolveGlobal
  <2>2. Find(Symbol(n)) # "nowhere"
    BY <1>0, <1>6 DEF ResolveInFile, ResolveGlobal, NextRef
  <2>3. PICK d : declNode' = [declNode EXCEPT ![n] = d] /\ d # Indeterminate
    <3>1. CASE ResolveInFile
      <4>1. declNode' = [declNode EXCEPT ![n] = FileDecl(scope[Symbol(n)][1])]
        BY <1>0, <1>3, <3>1 DEF ResolveInFile
      <4>2. FileDecl(scope[Symbol(n)][1]) # Indeterminate
        BY DEF FileDecl, Indeterminate
      <4> QED BY <4>1, <4>2
    <3>2. CASE ResolveGlobal
      <4>1. declNode' = [declNode EXCEPT ![n] = GlobalDecl(Symbol(n))]
        BY <1>0, <3>2 DEF ResolveGlobal
      <4>2. GlobalDecl(Symbol(n)) # Indeterminate
        BY DEF GlobalDecl, Indeterminate
      <4> QED BY <4>1, <4>2
    <3> QED BY <1>6, <3>1, <3>2
  <2>4. declNode'[n] # Indeterminate /\ \A m \in Node : m # n => declNode'[m] = declNode[m]
    BY <1>1, <1>2, <2>3
  <2>5. \A m \in Node : declNode'[m] # declNode[m] => Find(Symbol(m)) # "nowhere"
    BY <2>2, <2>4
  <2>6. \A m \in Node : IsRef(m) =>
          \/ \E k \in DOMAIN todo' : todo'[k] = m
          \/ declNode'[m] # Indeterminate \/ Emitted("undefined", m)'
    BY <1>4, <1>5, <2>1, <2>4
  <2> QED BY <1>1, <1>3, <2>1, <2>5, <2>6, LaterErrors
<1>7. CASE UndefinedRef
  <2>1. /\ declNode' = declNode /\ Find(Symbol(n)) = "nowhere"
        /\ diags' = Append(diags, <<"undefined", n>>)
    BY <1>0, <1>7 DEF UndefinedRef, NextRef
  <2>2. \A m : Emitted("undefined", m)' <=> Emitted("undefined", m) \/ m = n
    BY <1>1, <1>2, <2>1, EmitOther DEF ErrorsInv
  <2>3. \A m \in Node : IsRef(m) =>
          \/ \E k \in DOMAIN todo' : todo'[k] = m
          \/ declNode'[m] # Indeterminate \/ Emitted("undefined", m)'
    BY <1>4, <1>5, <2>1, <2>2
  <2> QED BY <1>1, <1>2, <1>3, <2>1, <2>3, LaterErrors
<1> QED BY <1>6, <1>7

\* The steps of the third walk report duplicate fields and nothing else.
LEMMA MaterializeErrors ==
  ASSUME MaterializeInv, ErrorsInv,
         \/ StartMaterialize \/ VisitRoot \/ VisitNamed \/ VisitGlobal \/ VisitUndeclared
         \/ VisitAccess \/ Descend \/ BailOut \/ Compose \/ Finish
  PROVE  ErrorsInv'
<1>1. /\ prog' = prog /\ scope' = scope /\ declNode' = declNode /\ NamesInv
      /\ phase \in {"resolve", "materialize"}
      /\ phase' \in {"materialize", "overflow", "wild", "unreachable", "done"}
      /\ phase = "resolve" => todo = <<>>
  BY DEF MaterializeInv, StartMaterialize, VisitRoot, VisitNamed, VisitGlobal, VisitUndeclared,
         VisitAccess, Descend, BailOut, Compose, Finish, Materializing, Push
<1>2. /\ diags \in Seq(Diag) /\ NotesFollow
      /\ \A n \in Node : IsRef(n) => declNode[n] # Indeterminate \/ Emitted("undefined", n)
  BY <1>1 DEF ErrorsInv
<1>3. \/ diags' = diags
      \/ \E n \in Node : diags' = Append(diags, <<"duplicate", n>>)
  <2>1. CASE Descend \/ Compose
    <3>1. Materializing /\ TakeResult
      BY <2>1 DEF Descend, Compose
    <3>2. Frame.node \in Node
      BY <3>1, ActiveVisit
    <3> QED BY <3>1, <3>2 DEF TakeResult
  <2>2. CASE ~(Descend \/ Compose)
    BY <2>2 DEF StartMaterialize, VisitRoot, VisitNamed, VisitGlobal, VisitUndeclared,
                VisitAccess, BailOut, Finish
  <2> QED BY <2>1, <2>2
<1>4. \A m : Emitted("undefined", m) => Emitted("undefined", m)'
  <2>1. CASE diags' = diags
    BY <1>1, <2>1, EmitNothing
  <2>2. CASE \E n \in Node : diags' = Append(diags, <<"duplicate", n>>)
    <3>1. PICK n \in Node : diags' = Append(diags, <<"duplicate", n>>)
      BY <2>2
    <3> QED BY <1>1, <1>2, <3>1, EmitOther
  <2> QED BY <1>3, <2>1, <2>2
<1> QED BY <1>1, <1>2, <1>3, <1>4, LaterErrors

LEMMA OtherErrors ==
  ASSUME ErrorsInv, VisitUntypedMember \/ UNCHANGED vars
  PROVE  ErrorsInv'
<1>1. prog' = prog /\ scope' = scope /\ diags' = diags /\ declNode' = declNode
  BY DEF VisitUntypedMember, vars
<1>2. diags' \in Seq(Diag)' /\ NotesFollow'
  BY <1>1, EmitNothing DEF ErrorsInv
<1>3. UndefinedAreNowhere /\ (phase' # "declare" \/ phase' = phase) => UndefinedAreNowhere'
  BY <1>1, NamesKept DEF UndefinedAreNowhere
<1>4. CASE VisitUntypedMember
  <2>1. phase = "resolve" /\ phase' = "null"
    BY <1>4 DEF VisitUntypedMember
  <2> QED BY <1>2, <1>3, <2>1 DEF ErrorsInv
<1>5. CASE UNCHANGED vars
  <2>1. phase' = phase /\ todo' = todo /\ Visited' = Visited
    BY <1>5 DEF vars, Visited
  <2> QED BY <1>1, <1>2, <1>3, <2>1, EmitNothing, NamesKept DEF ErrorsInv
<1> QED BY <1>4, <1>5

LEMMA ErrorsInit ==
  ASSUME Init
  PROVE  ErrorsInv
<1>1. /\ prog \in Programs /\ phase = "declare" /\ diags = <<>>
      /\ \A n \in Node : declNode[n] = Indeterminate
      /\ todo = [i \in DOMAIN prog.items |-> i]
  BY DEF Init, Node
<1>2. diags \in Seq(Diag) /\ DOMAIN diags = {}
  BY <1>1
<1>3. Visited = 0
  BY <1>1, ProgramType DEF Visited
<1>4. \A i \in Decls : ~(i <= 0)
  BY <1>1, ProgramType DEF Decls
<1> QED BY <1>1, <1>2, <1>3, <1>4 DEF ErrorsInv, NotesFollow, UndefinedAreNowhere, Emitted

LEMMA ErrorsStep ==
  ASSUME MaterializeInv, ErrorsInv, [Next]_vars
  PROVE  ErrorsInv'
<1>1. NamesInv /\ NamesInv'
  BY NamesStep DEF MaterializeInv
<1>2. CASE DeclareName
  BY <1>1, <1>2, DeclareNameErrors
<1>3. CASE PassOther
  BY <1>1, <1>3, PassOtherErrors
<1>4. CASE StartResolve
  BY <1>1, <1>4, StartResolveErrors
<1>5. CASE ResolveInFile \/ ResolveGlobal \/ UndefinedRef
  BY <1>1, <1>5, ResolveErrors
<1>6. CASE VisitUntypedMember \/ UNCHANGED vars
  BY <1>6, OtherErrors
<1>7. CASE \/ StartMaterialize \/ VisitRoot \/ VisitNamed \/ VisitGlobal \/ VisitUndeclared
           \/ VisitAccess \/ Descend \/ BailOut \/ Compose \/ Finish
  BY <1>7, MaterializeErrors
<1> QED BY <1>2, <1>3, <1>4, <1>5, <1>6, <1>7 DEF Next

\* Once names are resolved, each dropped declaration has exactly one error, with
\* the first declaration of the name as the note, and no other one has any; and
\* the references without a declaration are those reported as undefined.
THEOREM ErrorsAreReported == Spec => []ErrorsReported
<1>1. ErrorsInv => ErrorsReported
  <2> SUFFICES ASSUME ErrorsInv,
                      phase \in {"materialize", "done", "overflow", "wild", "unreachable"}
               PROVE  ErrorsReported
    BY DEF ErrorsReported
  <2>1. \A i \in Decls : Emitted("redefinition", i) <=> Dropped(i)
    BY DEF ErrorsInv
  <2>2. \A i \in Decls :
          Cardinality({k \in DOMAIN diags : diags[k] = <<"redefinition", i>>})
            = IF FirstDecl(prog.items[i].name) = {i} THEN 0 ELSE 1
    <3> TAKE i \in Decls
    <3> DEFINE S == {k \in DOMAIN diags : diags[k] = <<"redefinition", i>>}
    <3>1. CASE Dropped(i)
      <4>1. PICK k \in DOMAIN diags : diags[k] = <<"redefinition", i>>
        BY <2>1, <3>1 DEF Emitted
      <4>2. \A l \in DOMAIN diags : diags[l] = diags[k] => l = k
        BY <4>1 DEF ErrorsInv, NotesFollow
      <4>3. S = {k}
        BY <4>1, <4>2
      <4>4. Cardinality(S) = 1
        BY <4>3, FS_Singleton
      <4> QED BY <3>1, <4>4 DEF Dropped
    <3>2. CASE ~Dropped(i)
      <4>1. S = {}
        BY <2>1, <3>2 DEF Emitted
      <4>2. Cardinality(S) = 0
        BY <4>1, FS_EmptySet
      <4> QED BY <3>2, <4>2 DEF Dropped
    <3> QED BY <3>1, <3>2
  <2>3. \A k \in DOMAIN diags : diags[k][1] = "redefinition" =>
          /\ diags[k + 1][1] = "previous"
          /\ FirstDecl(prog.items[diags[k][2]].name) = {diags[k + 1][2]}
    BY DEF ErrorsInv, NotesFollow
  <2>4. \A n \in Node : IsRef(n) => (declNode[n] = Indeterminate <=> Emitted("undefined", n))
    <3> SUFFICES ASSUME NEW n \in Node, IsRef(n)
                 PROVE  declNode[n] = Indeterminate <=> Emitted("undefined", n)
      OBVIOUS
    <3>1. declNode[n] # Indeterminate \/ Emitted("undefined", n)
      BY DEF ErrorsInv
    <3>2. Emitted("undefined", n) => Find(Symbol(n)) = "nowhere"
      <4> SUFFICES ASSUME NEW k \in DOMAIN diags, diags[k] = <<"undefined", n>>
                   PROVE  Find(Symbol(n)) = "nowhere"
        BY DEF Emitted
      <4>1. diags[k][1] = "undefined" /\ diags[k][2] = n
        OBVIOUS
      <4> QED BY <4>1 DEF ErrorsInv, UndefinedAreNowhere
    <3>3. declNode[n] # Indeterminate => Find(Symbol(n)) # "nowhere"
      BY DEF ErrorsInv, UndefinedAreNowhere
    <3> QED BY <3>1, <3>2, <3>3
  <2> QED BY <2>2, <2>3, <2>4 DEF ErrorsReported, Emitted, IsRef
<1> QED BY <1>1, MaterializeHolds, ErrorsInit, ErrorsStep, PTL DEF Spec

-----------------------------------------------------------------------------
(* Why the process stops early.                                            *)

At(k) == stack[k].node

\* The declaration that a reference was resolved to.
Target(n) == declNode[n][2]

\* An active visit that is not the innermost one has called the visit of a part
\* or, at a reference, of the type that an alias stands for.
LEMMA CalleeOf ==
  ASSUME MaterializeInv, NEW k \in DOMAIN stack, k < Len(stack)
  PROVE  /\ k + 1 \in DOMAIN stack /\ At(k) \in Node /\ At(k + 1) \in Node
         /\ ~IsRef(At(k)) => At(k) < At(k + 1) /\ Refs(At(k + 1)) \subseteq Refs(At(k))
         /\ IsRef(At(k)) =>
              /\ Target(At(k)) \in Decls /\ ~IsType(Target(At(k)))
              /\ FirstDecl(Symbol(At(k))) = {Target(At(k))}
              /\ prog.items[Target(At(k))].roots = <<At(k + 1)>>
<1>1. /\ prog \in Programs /\ StackInv /\ IsSequence(stack) /\ FirstDeclarationWins
      /\ DOMAIN declNode = Node
  BY DEF MaterializeInv, NamesInv, WalksInv
<1>2. k + 1 \in DOMAIN stack /\ k \in Nat
  BY <1>1 DEF IsSequence
<1>3. At(k) \in Node /\ At(k + 1) \in Node
  BY <1>1, <1>2 DEF StackInv, FrameInv, At
<1>4. /\ Len(Results(k)) < Len(Callees(At(k))) /\ At(k + 1) = Callees(At(k))[Len(Results(k)) + 1]
      /\ IsSequence(Results(k))
  BY <1>1 DEF StackInv, CallInv, FrameInv, Parts, At
<1>5. PICK r : r = Len(Results(k)) + 1
  OBVIOUS
<1>6. r \in Nat /\ r >= 1 /\ r <= Len(Callees(At(k))) /\ At(k + 1) = Callees(At(k))[r]
  <2>1. Len(Results(k)) \in Nat
    BY <1>4 DEF IsSequence
  <2>2. PICK c \in Nat : (Callees(At(k)) = <<>> /\ c = 0) \/ c = Len(Callees(At(k)))
    <3>1. CASE IsRef(At(k))
      <4>1. CASE declNode[At(k)][1] = "file" /\ ~IsType(Target(At(k)))
        <5>1. FirstDecl(Symbol(At(k))) = {Target(At(k))}
          BY <1>1, <1>3, <4>1 DEF FirstDeclarationWins, Target
        <5>2. Target(At(k)) \in DOMAIN prog.items
          BY <5>1 DEF FirstDecl, Decls
        <5>3. Callees(At(k)) \in Seq(Node)
          BY <1>1, <3>1, <4>1, <5>2, NodeType DEF Callees, IsRef, Target
        <5> QED BY <5>3
      <4>2. CASE ~(declNode[At(k)][1] = "file" /\ ~IsType(Target(At(k))))
        BY <3>1, <4>2 DEF Callees, IsRef, Target
      <4> QED BY <4>1, <4>2
    <3>2. CASE ~IsRef(At(k))
      BY <1>1, <1>3, <3>2, NodeType DEF Callees, IsRef
    <3> QED BY <3>1, <3>2
  <2> QED BY <1>4, <1>5, <2>1, <2>2
<1>7. ASSUME ~IsRef(At(k))
      PROVE  At(k) < At(k + 1) /\ Refs(At(k + 1)) \subseteq Refs(At(k))
  <2>1. Callees(At(k)) = Kids(At(k))
    BY <1>7 DEF Callees, IsRef, Kids
  <2>2. r \in DOMAIN Kids(At(k))
    BY <1>1, <1>3, <1>6, <2>1, NodeType DEF Kids
  <2>3. At(k + 1) = Kids(At(k))[r] /\ At(k + 1) # Null
    BY <1>1, <1>3, <1>6, <2>1, NodeType
  <2>4. At(k) < At(k + 1)
    BY <1>1, <1>3, <2>2, <2>3, KidType
  <2>5. Refs(At(k + 1)) \subseteq Refs(At(k))
    BY <1>1, <1>3, <1>7, <2>2, <2>3, RefsParts
  <2> QED BY <2>4, <2>5
<1>8. ASSUME IsRef(At(k))
      PROVE  /\ Target(At(k)) \in Decls /\ ~IsType(Target(At(k)))
             /\ FirstDecl(Symbol(At(k))) = {Target(At(k))}
             /\ prog.items[Target(At(k))].roots = <<At(k + 1)>>
  <2>1. declNode[At(k)][1] = "file" /\ ~IsType(Target(At(k)))
    <3> SUFFICES ASSUME ~(declNode[At(k)][1] = "file" /\ ~IsType(Target(At(k)))) PROVE FALSE
      OBVIOUS
    <3>1. Callees(At(k)) = <<>>
      BY <1>8 DEF Callees, IsRef, Target
    <3> QED BY <1>6, <3>1
  <2>2. FirstDecl(Symbol(At(k))) = {Target(At(k))}
    BY <1>1, <1>3, <2>1 DEF FirstDeclarationWins, Target
  <2>3. Target(At(k)) \in Decls
    BY <2>2 DEF FirstDecl
  <2>4. PICK s \in Seq(Node) : s = prog.items[Target(At(k))].roots /\ Len(s) = 1
    BY <1>1, <2>3, NodeType DEF Decls
  <2>5. Callees(At(k)) = s
    BY <1>8, <2>1, <2>4 DEF Callees, IsRef, Target
  <2>6. At(k + 1) = s[1] /\ s = <<s[1]>>
    <3>1. r = 1
      BY <1>6, <2>4, <2>5
    <3>2. s = <<s[1]>>
      BY <2>4
    <3> QED BY <1>6, <2>5, <3>1, <3>2
  <2> QED BY <2>1, <2>2, <2>3, <2>4, <2>6
<1> QED BY <1>2, <1>3, <1>7, <1>8

\* Between references the visits go down a tree.
LEMMA Downwards ==
  ASSUME MaterializeInv, NEW l \in DOMAIN stack, NEW m \in DOMAIN stack, l <= m,
         \A k \in l..(m - 1) : ~IsRef(At(k))
  PROVE  Refs(At(m)) \subseteq Refs(At(l)) /\ (l < m => At(l) < At(m))
<1>1. DOMAIN stack = 1..Len(stack) /\ Len(stack) \in Nat /\ prog \in Programs
  BY DEF MaterializeInv, WalksInv, NamesInv, IsSequence
<1> DEFINE G == {d \in 0..(m - l) : /\ Refs(At(l + d)) \subseteq Refs(At(l))
                                    /\ 0 < d => At(l) < At(l + d)}
<1>2. 0 \in G
  BY <1>1
<1>3. ASSUME NEW d \in 0..(m - l), d \in G, d < m - l PROVE d + 1 \in G
  <2>1. /\ l + d \in DOMAIN stack /\ l + d < Len(stack) /\ l + d \in l..(m - 1)
        /\ l + (d + 1) = (l + d) + 1 /\ d + 1 \in 0..(m - l)
    BY <1>1, <1>3
  <2>2. /\ At(l + d) < At((l + d) + 1) /\ Refs(At((l + d) + 1)) \subseteq Refs(At(l + d))
        /\ At(l + d) \in Node /\ At((l + d) + 1) \in Node
    BY <2>1, CalleeOf
  <2>3. At(l) \in Node
    <3>1. l < Len(stack)
      BY <1>1, <1>3
    <3> QED BY <3>1, CalleeOf
  <2>4. At(l) \in Nat /\ At(l + d) \in Nat /\ At((l + d) + 1) \in Nat
    BY <1>1, <2>2, <2>3, NodeType
  <2>5. At(l) < At((l + d) + 1)
    <3>1. CASE d = 0
      BY <1>1, <2>2, <3>1
    <3>2. CASE d # 0
      <4>1. At(l) < At(l + d)
        BY <1>3, <3>2
      <4> QED BY <2>2, <2>4, <4>1
    <3> QED BY <3>1, <3>2
  <2> QED BY <1>3, <2>1, <2>2, <2>5
<1> HIDE DEF G
<1>4. m - l \in Nat /\ l + (m - l) = m /\ (l < m => 0 < m - l)
  BY <1>1
<1>5. 0..(m - l) \subseteq G
  BY <1>2, <1>3, <1>4, CountUp
<1>6. m - l \in G
  BY <1>4, <1>5
<1> QED BY <1>4, <1>6 DEF G

\* A node that is visited inside of its own visit is in a cycle of aliases.
LEMMA RoundTrip ==
  ASSUME MaterializeInv, NEW i \in DOMAIN stack, NEW j \in DOMAIN stack, i < j, At(i) = At(j)
  PROVE  AliasCycle
<1>1. DOMAIN stack = 1..Len(stack) /\ Len(stack) \in Nat /\ prog \in Programs
  BY DEF MaterializeInv, WalksInv, NamesInv, IsSequence
<1> DEFINE Calls == {k \in i..(j - 1) : IsRef(At(k))}
           C == {Target(At(k)) : k \in Calls}
<1>2. \A k \in i..(j - 1) : k \in DOMAIN stack /\ k < Len(stack) /\ k + 1 \in DOMAIN stack
  BY <1>1
<1>3. Calls # {}
  <2> SUFFICES ASSUME Calls = {} PROVE FALSE
    OBVIOUS
  <2>1. At(i) < At(j) /\ At(i) \in Node
    <3>1. \A k \in i..(j - 1) : ~IsRef(At(k))
      OBVIOUS
    <3>2. i <= j /\ i < Len(stack)
      BY <1>1
    <3> QED BY <3>1, <3>2, Downwards, CalleeOf
  <2> QED BY <1>1, <2>1, NodeType
\* The first reference at or after l, before m.
<1>4. ASSUME NEW l \in i..j, NEW k \in Calls, ~(k < l)
      PROVE  \E m \in Calls : At(m) \in Refs(At(l))
  <2> DEFINE T == {m \in Calls : ~(m < l)}
  <2>1. T \subseteq Nat /\ T # {}
    BY <1>1, <1>4
  <2>2. PICK m \in T : \A b \in T : ~(b < m)
    <3> HIDE DEF T
    <3> QED BY <2>1, LeastNumber
  <2>3. m \in i..(j - 1) /\ IsRef(At(m)) /\ l <= m /\ l \in DOMAIN stack /\ m \in DOMAIN stack
    BY <1>1, <2>2
  <2>4. \A b \in l..(m - 1) : ~IsRef(At(b))
    <3> SUFFICES ASSUME NEW b \in l..(m - 1), IsRef(At(b)) PROVE FALSE
      OBVIOUS
    <3>1. b \in i..(j - 1) /\ ~(b < l) /\ b < m
      BY <1>1, <2>3
    <3> QED BY <2>2, <3>1
  <2>5. Refs(At(m)) \subseteq Refs(At(l))
    BY <2>3, <2>4, Downwards
  <2>6. At(m) \in Node /\ At(m) \in Refs(At(m))
    <3>1. m < Len(stack)
      BY <1>2, <2>3
    <3>2. At(m) \in Node
      BY <2>3, <3>1, CalleeOf
    <3> QED BY <1>1, <2>3, <3>2, RefsParts
  <2> QED BY <2>2, <2>5, <2>6
<1>5. ASSUME NEW k \in Calls PROVE \E m \in Calls : At(m) \in Refs(At(k + 1))
  <2>0. k \in i..(j - 1) /\ k + 1 \in i..j
    BY <1>1
  <2>1. CASE \E b \in Calls : ~(b < k + 1)
    BY <1>4, <2>0, <2>1
  <2>2. CASE \A b \in Calls : b < k + 1
    <3>1. \A b \in (k + 1)..(j - 1) : ~IsRef(At(b))
      <4> SUFFICES ASSUME NEW b \in (k + 1)..(j - 1), IsRef(At(b)) PROVE FALSE
        OBVIOUS
      <4>1. b \in i..(j - 1) /\ ~(b < k + 1)
        BY <1>1, <2>0
      <4> QED BY <2>2, <4>1
    <3>2. k + 1 <= j /\ k + 1 \in DOMAIN stack
      BY <1>1, <2>0
    <3>3. Refs(At(j)) \subseteq Refs(At(k + 1))
      BY <3>1, <3>2, Downwards
    <3>4. i \in i..j /\ ~(k < i)
      BY <1>1, <2>0
    <3>5. PICK m \in Calls : At(m) \in Refs(At(i))
      BY <1>4, <3>4
    <3> QED BY <3>3, <3>5
  <2> QED BY <2>1, <2>2
<1>6. ASSUME NEW k \in Calls
      PROVE  /\ Target(At(k)) \in Decls /\ ~IsType(Target(At(k))) /\ At(k) \in Node
             /\ FirstDecl(Symbol(At(k))) = {Target(At(k))}
             /\ prog.items[Target(At(k))].roots = <<At(k + 1)>> /\ At(k + 1) \in Node
  BY <1>2, CalleeOf
<1>7. ASSUME NEW a \in C PROVE Expands(a) \intersect C # {}
  <2>1. PICK k \in Calls : a = Target(At(k))
    OBVIOUS
  <2>2. PICK m \in Calls : At(m) \in Refs(At(k + 1))
    BY <1>5
  <2> HIDE DEF Calls
  <2>3. PICK roots \in Seq(Node) : roots = prog.items[a].roots /\ roots = <<At(k + 1)>>
    <3>1. prog.items[a].roots = <<At(k + 1)>> /\ At(k + 1) \in Node
      BY <1>6, <2>1
    <3>2. <<At(k + 1)>> \in Seq(Node)
      BY <3>1
    <3> QED BY <3>1, <3>2
  <2>4. At(m) \in Elements(RefsOf(prog, roots))
    <3>1. 1 \in DOMAIN roots /\ roots[1] = At(k + 1)
      BY <2>3
    <3>2. Elements(RefsOf(prog, roots)) = UNION {Refs(roots[q]) : q \in DOMAIN roots}
      BY <1>1, RefsOfRoots
    <3> QED BY <2>2, <3>1, <3>2
  <2>5. PICK q \in DOMAIN RefsOf(prog, prog.items[a].roots) :
          RefsOf(prog, prog.items[a].roots)[q] = At(m)
    BY <2>3, <2>4 DEF Elements
  <2>6. At(m) # Null
    BY <1>1, <1>6, <2>2, NodeType
  <2>7. Target(At(m)) \in Expands(a)
    BY <1>6, <2>2, <2>5, <2>6 DEF Expands
  <2> QED BY <2>2, <2>7
<1>8. C \in SUBSET {a \in Decls : ~IsType(a)} /\ C # {}
  BY <1>3, <1>6
<1> HIDE DEF C
<1> QED BY <1>7, <1>8 DEF AliasCycle

\* Without one, no more visits are active than there are nodes.
LEMMA StackBound ==
  ASSUME MaterializeInv, ~AliasCycle
  PROVE  Len(stack) <= Cardinality(Node)
<1>1. /\ DOMAIN stack = 1..Len(stack) /\ Len(stack) \in Nat /\ prog \in Programs
      /\ \A k \in DOMAIN stack : At(k) \in Node
  <2>1. IsSequence(stack) /\ prog \in Programs /\ StackInv
    BY DEF MaterializeInv, WalksInv, NamesInv
  <2>2. DOMAIN stack = 1..Len(stack) /\ Len(stack) \in Nat
    BY <2>1 DEF IsSequence
  <2>3. \A k \in DOMAIN stack : At(k) \in Node
    BY <2>1 DEF StackInv, FrameInv, At
  <2> QED BY <2>1, <2>2, <2>3
<1>2. IsFiniteSet(Node) /\ Cardinality(Node) \in Nat
  BY <1>1, NodeType, FS_CardinalityType
<1>3. IsFiniteSet(1..Len(stack)) /\ Cardinality(1..Len(stack)) = Len(stack)
  <2>1. PICK c \in Nat : c = Len(stack)
    BY <1>1
  <2>2. IsFiniteSet(1..c) /\ Cardinality(1..c) = IF 1 > c THEN 0 ELSE c - 1 + 1
    BY FS_Interval
  <2> QED BY <2>1, <2>2
<1> SUFFICES ASSUME Cardinality(Node) < Len(stack) PROVE FALSE
  BY <1>1, <1>2
<1>4. PICK f : f = [k \in 1..Len(stack) |-> At(k)]
  OBVIOUS
<1>5. f \in [1..Len(stack) -> Node]
  BY <1>1, <1>4
<1>6. PICK x, y \in 1..Len(stack) : x # y /\ f[x] = f[y]
  BY <1>2, <1>3, <1>5, FS_PigeonHole
<1>7. At(x) = At(y) /\ x \in DOMAIN stack /\ y \in DOMAIN stack /\ (x < y \/ y < x)
  BY <1>1, <1>4, <1>6
<1> QED BY <1>7, RoundTrip

\* A null pointer that a walk comes to is a part of some node.
LEMMA NullBelow ==
  ASSUME prog \in Programs, NEW roots \in Seq(Node), Null \in Elements(RefsOf(prog, roots))
  PROVE  HasNull
<1> SUFFICES ASSUME ~HasNull PROVE FALSE
  OBVIOUS
<1> DEFINE S == {n \in Node : Null \notin Refs(n)}
<1>1. ASSUME NEW n \in Node, \A k \in DOMAIN Kids(n) : Kids(n)[k] \in S \union {Null}
      PROVE  n \in S
  <2>1. \A k \in DOMAIN Kids(n) : Kids(n)[k] # Null
    BY DEF HasNull, Kids
  <2>2. \A k \in DOMAIN Kids(n) : Null \notin Refs(Kids(n)[k])
    BY <1>1, <2>1
  <2>3. Refs(n) = IF IsRef(n) THEN {n} ELSE UNION {Refs(Kids(n)[k]) : k \in DOMAIN Kids(n)}
    BY RefsParts
  <2>4. n # Null
    BY NodeType
  <2> QED BY <2>2, <2>3, <2>4
<1>2. S \in SUBSET Node
  OBVIOUS
<1>3. S = Node
  <2> HIDE DEF S
  <2> QED BY <1>1, <1>2, PartsFirst
<1>4. PICK k \in DOMAIN roots : Null \in Refs(roots[k])
  BY RefsOfRoots
<1> QED BY <1>3, <1>4

StopInv ==
  /\ phase = "null" => HasNull
  /\ phase = "resolve" /\ Null \in Elements(todo) => HasNull
  /\ phase = "wild" => stack # <<>> /\ Undeclared(Frame.node)
  /\ phase = "overflow" => Len(stack) = MaxDepth
  /\ phase = "unreachable" => prog.nodes[Frame.node].kind = "Access"

LEMMA StopStep ==
  ASSUME MaterializeInv, StopInv, [Next]_vars
  PROVE  StopInv'
<1>0. prog \in Programs /\ prog' = prog /\ (HasNull' <=> HasNull)
  <2>1. prog \in Programs
    BY DEF MaterializeInv, NamesInv
  <2>2. prog' = prog
    BY DEF Next, DeclareName, PassOther, StartResolve, UndefinedRef, ResolveInFile, ResolveGlobal,
           VisitUntypedMember, StartMaterialize, VisitRoot, VisitNamed, VisitGlobal, VisitUndeclared,
           VisitAccess, Descend, BailOut, Compose, Finish, vars
  <2>3. HasNull' <=> HasNull
    BY <2>2 DEF HasNull, Node
  <2> QED BY <2>1, <2>2, <2>3
<1>1. CASE DeclareName
  BY <1>1 DEF DeclareName, NextItem, StopInv
<1>2. CASE PassOther
  <2>1. phase = "declare" /\ phase' \in {"declare", "null"}
    BY <1>2 DEF PassOther, NextItem
  <2>2. phase' = "null" => HasNull
    <3> SUFFICES ASSUME phase' = "null" PROVE HasNull
      OBVIOUS
    <3>1. todo # <<>> /\ todo \in Seq(DOMAIN prog.items)
      BY <2>1, <1>2 DEF PassOther, NextItem, MaterializeInv, NamesInv, Declaring
    <3>2. Head(todo) \in DOMAIN prog.items
      BY <3>1
    <3>3. PICK roots \in Seq(Node) : roots = prog.items[Head(todo)].roots
      BY <1>0, <3>2, NodeType
    <3>4. Null \in Elements(RefsOf(prog, roots))
      BY <1>2, <2>1, <3>3 DEF PassOther, Elements
    <3> QED BY <1>0, <3>4, NullBelow
  <2> QED BY <1>0, <2>1, <2>2 DEF StopInv
<1>3. CASE StartResolve
  <2>1. phase' = "resolve" /\ todo' = RefsOf(prog, Roots(prog)) /\ Roots(prog) \in Seq(Node)
    BY <1>0, <1>3, WalkType DEF StartResolve
  <2>2. Null \in Elements(todo)' => HasNull
    BY <1>0, <2>1, NullBelow DEF Elements
  <2> QED BY <1>0, <2>1, <2>2 DEF StopInv
<1>4. CASE UndefinedRef \/ ResolveInFile \/ ResolveGlobal
  <2>1. /\ phase = "resolve" /\ todo # <<>> /\ todo' = Tail(todo)
        /\ phase' \in {"resolve", "ambiguous"}
    BY <1>4 DEF UndefinedRef, ResolveInFile, ResolveGlobal, NextRef
  <2>2. todo \in Seq(Node \union {Null})
    BY <2>1 DEF MaterializeInv, NamesInv
  <2>3. Elements(todo)' \subseteq Elements(todo)
    <3> SUFFICES ASSUME NEW k \in DOMAIN Tail(todo)
                 PROVE  \E q \in DOMAIN todo : todo[q] = Tail(todo)[k]
      BY <2>1 DEF Elements
    <3>1. k + 1 \in DOMAIN todo /\ todo[k + 1] = Tail(todo)[k]
      BY <2>1, <2>2
    <3> QED BY <3>1
  <2> QED BY <1>0, <2>1, <2>3 DEF StopInv
<1>5. CASE VisitUntypedMember
  <2>1. /\ phase = "resolve" /\ todo # <<>> /\ Head(todo) = Null /\ phase' = "null"
    BY <1>5 DEF VisitUntypedMember
  <2>2. todo \in Seq(Node \union {Null})
    BY <2>1 DEF MaterializeInv, NamesInv
  <2>3. Null \in Elements(todo)
    <3>1. 1 \in DOMAIN todo /\ todo[1] = Null
      BY <2>1, <2>2
    <3> QED BY <3>1 DEF Elements
  <2> QED BY <1>0, <2>1, <2>3 DEF StopInv
<1>6. CASE VisitUndeclared
  <2>1. /\ phase = "materialize" /\ stack # <<>> /\ Undeclared(Frame.node)
        /\ \/ phase' = phase
           \/ phase' = "wild" /\ stack' = stack
        /\ declNode' = declNode
    BY <1>6 DEF VisitUndeclared, Materializing, Undeclared, IsRef
  <2>2. stack' = stack => Frame' = Frame
    BY DEF Frame
  <2>3. stack' = stack => (Undeclared(Frame.node)' <=> Undeclared(Frame.node))
    BY <1>0, <2>1, <2>2 DEF Undeclared, IsRef
  <2> QED BY <2>1, <2>3 DEF StopInv
<1>7. CASE VisitRoot \/ Descend
  <2>1. /\ phase = "materialize"
        /\ \/ phase' = "overflow" /\ Len(stack) = MaxDepth /\ stack' = stack
           \/ phase' = phase
    BY <1>7 DEF VisitRoot, Descend, Materializing, Push
  <2> QED BY <2>1 DEF StopInv
<1>8. CASE StartMaterialize \/ VisitNamed \/ VisitGlobal \/ BailOut \/ Compose \/ Finish
  <2>1. phase' \in {"materialize", "done"}
    BY <1>8 DEF StartMaterialize, VisitNamed, VisitGlobal, BailOut, Compose, Finish, Materializing
  <2> QED BY <2>1 DEF StopInv
<1>9. CASE VisitAccess
  <2>1. phase' = "unreachable" /\ stack' = stack /\ prog.nodes[Frame.node].kind = "Access"
    BY <1>9 DEF VisitAccess
  <2>2. Frame' = Frame
    BY <2>1 DEF Frame
  <2> QED BY <1>0, <2>1, <2>2 DEF StopInv
<1>10. CASE UNCHANGED vars
  <2>1. phase' = phase /\ todo' = todo /\ stack' = stack /\ declNode' = declNode
    BY <1>10 DEF vars
  <2>2. Frame' = Frame /\ Elements(todo)' = Elements(todo)
    BY <2>1 DEF Frame, Elements
  <2>3. Undeclared(Frame.node)' <=> Undeclared(Frame.node)
    BY <1>0, <2>1, <2>2 DEF Undeclared, IsRef
  <2> QED BY <1>0, <2>1, <2>2, <2>3 DEF StopInv
<1> QED BY <1>1, <1>2, <1>3, <1>4, <1>5, <1>6, <1>7, <1>8, <1>9, <1>10 DEF Next

\* The process stops early for the reasons given (with FirstNamesAreKept, for no
\* other): its stack holds the visits of any unit without a cycle of aliases
\* that has fewer nodes than there is room for visits, because only an alias
\* leads back to a node that is being visited; a pointer that nobody has set is
\* followed only where an undefined name was reported; a null pointer is come to
\* only where a node has one; and code that is not implemented only at an access
\* type.
THEOREM StopsAreExplained == Spec => []StopsExplained
<1>1. Init => StopInv
  <2> SUFFICES ASSUME Init PROVE StopInv
    OBVIOUS
  <2> QED BY DEF Init, StopInv
<1>2. MaterializeInv /\ StopInv /\ ErrorsReported => StopsExplained
  <2> SUFFICES ASSUME MaterializeInv, StopInv, ErrorsReported PROVE StopsExplained
    OBVIOUS
  <2>1. phase = "overflow" => AliasCycle \/ MaxDepth <= Cardinality(Node)
    BY StackBound DEF StopInv
  <2>2. phase = "wild" => \E k \in DOMAIN diags : diags[k] = <<"undefined", Frame.node>>
    <3> SUFFICES ASSUME phase = "wild"
                 PROVE  \E k \in DOMAIN diags : diags[k] = <<"undefined", Frame.node>>
      OBVIOUS
    <3>1. stack # <<>> /\ Undeclared(Frame.node)
      BY DEF StopInv
    <3>2. Frame.node \in Node
      <4>1. IsSequence(stack) /\ StackInv
        BY DEF MaterializeInv, WalksInv
      <4>2. Len(stack) \in DOMAIN stack /\ Frame = stack[Len(stack)]
        BY <3>1, <4>1 DEF IsSequence, Frame, Last
      <4> QED BY <4>1, <4>2 DEF StackInv, FrameInv
    <3> QED BY <3>1, <3>2 DEF ErrorsReported, Undeclared, IsRef
  <2>3. phase = "null" => \E n \in Node : \E k \in DOMAIN prog.nodes[n].kids :
                            prog.nodes[n].kids[k] = Null
    <3> SUFFICES ASSUME phase = "null"
                 PROVE  \E n \in Node : \E k \in DOMAIN prog.nodes[n].kids : prog.nodes[n].kids[k] = Null
      OBVIOUS
    <3>1. PICK n \in Node : Null \in {prog.nodes[n].kids[k] : k \in DOMAIN prog.nodes[n].kids}
      BY DEF StopInv, HasNull
    <3> QED BY <3>1
  <2>4. phase = "unreachable" => prog.nodes[Frame.node].kind = "Access"
    BY DEF StopInv
  <2> QED BY <2>1, <2>2, <2>3, <2>4 DEF StopsExplained
<1> QED BY <1>1, <1>2, MaterializeHolds, ErrorsAreReported, StopStep, PTL DEF Spec
=============================================================================
