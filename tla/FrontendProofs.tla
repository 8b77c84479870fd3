--------------------------- MODULE FrontendProofs ---------------------------
(***************************************************************************)
(* Proofs about the driver, for every disk: the order in which the units   *)
(* go through the semantic passes, and that none is left out.              *)
(***************************************************************************)
EXTENDS Frontend, ImportGraphProofs, FiniteSetTheorems, WellFoundedInduction

-----------------------------------------------------------------------------
(* Counting.                                                               *)

\* A set of numbers has a least one.
LEMMA LeastNumber ==
  ASSUME NEW T, T \subseteq Nat, T # {}
  PROVE  \E a \in T : \A b \in T : ~(b < a)
<1> DEFINE R == OpToRel(<, Nat)
<1>1. IsWellFoundedOn(R, Nat)
  BY NatLessThanWellFounded
<1>2. \A a, b \in Nat : a < b => <<a, b>> \in R
  BY DEF OpToRel
<1> HIDE DEF R
<1>3. PICK a \in T : \A b \in T : ~(<<b, a>> \in R)
  BY <1>1, WFMin
<1> QED BY <1>2, <1>3

\* Induction up to a bound: a set that has 0 and with n also n + 1.
LEMMA CountUp ==
  ASSUME NEW N \in Nat, NEW G, 0 \in G,
         \A n \in 0..N : n \in G /\ n < N => n + 1 \in G
  PROVE  0..N \subseteq G
<1> DEFINE T == {n \in 0..N : n \notin G}
<1> SUFFICES ASSUME T # {} PROVE FALSE
  OBVIOUS
<1>1. T \subseteq Nat
  OBVIOUS
<1> HIDE DEF T
<1>2. PICK a \in T : \A b \in T : ~(b < a)
  BY <1>1, LeastNumber
<1>3. a \in 0..N /\ a \notin G /\ a # 0
  BY <1>2 DEF T
<1>4. a - 1 \in 0..N /\ a - 1 < N /\ a - 1 < a /\ (a - 1) + 1 = a
  BY <1>3
<1>5. a - 1 \in G
  BY <1>2, <1>4 DEF T
<1> QED BY <1>3, <1>4, <1>5

-----------------------------------------------------------------------------
(* The graph of the units.                                                 *)

\* The table of units, while and after it is filled: finitely many keys, each
\* a spelling of a file, and edges between them only.
TableInv ==
  /\ IsFiniteSet(Keys)
  /\ Keys \subseteq Spelling
  /\ \A p \in Keys : Children(p) \subseteq Keys

Closed(S) == \A q \in S : Children(q) \subseteq S

Grown(S) == S \union UNION {Children(q) : q \in S}

\* The stages of Reach(p).
Stages(p) ==
  CHOOSE w : w = [n \in 0..Cardinality(Keys) |->
                    IF n = 0 THEN {p}
                    ELSE LET near == w[n - 1]
                         IN  near \union UNION {Children(q) : q \in near}]

LEMMA ReachStages ==
  ASSUME NEW p PROVE Reach(p) = Stages(p)[Cardinality(Keys)]
BY DEF Reach, Stages

\* The recursive function has a value.
LEMMA StagesUnfold ==
  ASSUME Cardinality(Keys) \in Nat, NEW p
  PROVE  /\ Stages(p)[0] = {p}
         /\ \A n \in 1..Cardinality(Keys) : Stages(p)[n] = Grown(Stages(p)[n - 1])
<1> DEFINE N == Cardinality(Keys)
           Rec(w, k) == \A n \in 0..k : w[n] = IF n = 0 THEN {p} ELSE Grown(w[n - 1])
           Def(w) == w = [n \in 0..N |-> IF n = 0 THEN {p}
                            ELSE LET near == w[n - 1]
                                 IN  near \union UNION {Children(q) : q \in near}]
           G == {k \in 0..N : \E w : Rec(w, k)}
<1>1. 0 \in G
  <2>1. Rec([n \in 0..0 |-> {p}], 0)
    OBVIOUS
  <2> HIDE DEF Rec
  <2>2. \E w : Rec(w, 0)
    BY <2>1
  <2> QED BY <2>2
<1>2. ASSUME NEW k \in 0..N, k \in G, k < N
      PROVE  k + 1 \in G
  <2> PICK w : Rec(w, k)
    BY <1>2
  <2> DEFINE v == [n \in 0..(k + 1) |-> IF n = k + 1 THEN Grown(w[k]) ELSE w[n]]
  <2>1. \A n \in 0..k : v[n] = w[n] /\ n \in 0..(k + 1)
    OBVIOUS
  <2>2. v[k + 1] = Grown(w[k])
    OBVIOUS
  <2> HIDE DEF v
  <2>3. ASSUME NEW n \in 0..(k + 1)
        PROVE  v[n] = IF n = 0 THEN {p} ELSE Grown(v[n - 1])
    <3>1. CASE n = k + 1
      <4>1. n # 0 /\ n - 1 = k /\ k \in 0..k
        BY <3>1
      <4> QED BY <2>1, <2>2, <3>1, <4>1
    <3>2. CASE n = 0
      <4>1. v[n] = w[n] /\ n \in 0..k
        BY <2>1, <3>2
      <4> QED BY <3>2, <4>1
    <3>3. CASE n \in 1..k
      <4>1. n \in 0..k /\ n - 1 \in 0..k /\ n # 0
        BY <3>3
      <4>2. v[n] = w[n] /\ v[n - 1] = w[n - 1]
        BY <2>1, <4>1
      <4> QED BY <4>1, <4>2
    <3> QED BY <3>1, <3>2, <3>3
  <2>4. Rec(v, k + 1)
    BY <2>3
  <2>5. k + 1 \in 0..N
    BY <1>2
  <2> QED BY <2>4, <2>5
<1>3. N \in G
  <2> HIDE DEF G
  <2>1. 0..N \subseteq G
    BY <1>1, <1>2, CountUp
  <2> QED BY <2>1
<1>4. PICK u : Rec(u, N)
  BY <1>3
<1>5. Def([n \in 0..N |-> u[n]])
  <2> DEFINE w == [n \in 0..N |-> u[n]]
  <2>1. ASSUME NEW n \in 0..N
        PROVE  w[n] = IF n = 0 THEN {p} ELSE Grown(w[n - 1])
    <3>1. w[n] = u[n] /\ (n # 0 => n - 1 \in 0..N /\ w[n - 1] = u[n - 1])
      OBVIOUS
    <3> HIDE DEF w
    <3> QED BY <1>4, <3>1
  <2> QED BY <2>1 DEF Grown
<1>6. Stages(p) = CHOOSE w : Def(w)
  BY DEF Stages
<1>7. Def(Stages(p))
  <2> HIDE DEF Def
  <2> QED BY <1>5, <1>6
<1>8. \A n \in 0..N : Stages(p)[n] = IF n = 0 THEN {p} ELSE Grown(Stages(p)[n - 1])
  BY <1>7 DEF Grown
<1> HIDE DEF Def
<1> QED BY <1>8

\* What the units of a set and their imports are, and a set that has them all.
LEMMA ReachClosed ==
  ASSUME TableInv, NEW p \in Keys
  PROVE  /\ p \in Reach(p) /\ Reach(p) \subseteq Keys
         /\ Closed(Reach(p))
         /\ \A S : p \in S /\ Closed(S) => Reach(p) \subseteq S
<1> DEFINE N == Cardinality(Keys)
           W(n) == Stages(p)[n]
<1>1. N \in Nat
  BY FS_CardinalityType DEF TableInv
<1>2. W(0) = {p} /\ \A n \in 1..N : W(n) = Grown(W(n - 1))
  BY <1>1, StagesUnfold
<1>3. Reach(p) = W(N)
  BY ReachStages
<1> HIDE DEF W
<1>4. ASSUME NEW n \in 0..N, n < N
      PROVE  n + 1 \in 0..N /\ W(n + 1) = Grown(W(n))
  <2>1. n + 1 \in 1..N /\ (n + 1) - 1 = n
    BY <1>1, <1>4
  <2> QED BY <1>2, <2>1
<1>5. ASSUME NEW S, p \in S, Closed(S), NEW n \in 0..N
      PROVE  W(n) \subseteq S
  <2> DEFINE G == {k \in 0..N : W(k) \subseteq S}
  <2>1. 0 \in G
    BY <1>1, <1>2, <1>5
  <2>2. ASSUME NEW k \in 0..N, k \in G, k < N
        PROVE  k + 1 \in G
    <3>1. Grown(W(k)) \subseteq S
      BY <1>5, <2>2 DEF Grown, Closed
    <3> QED BY <1>4, <2>2, <3>1
  <2> HIDE DEF G
  <2>3. 0..N \subseteq G
    BY <1>1, <2>1, <2>2, CountUp
  <2> QED BY <2>3 DEF G
<1>6. Closed(Keys)
  BY DEF TableInv, Closed
<1>7. \A n \in 0..N : W(n) \subseteq Keys /\ IsFiniteSet(W(n)) /\ Cardinality(W(n)) \in Nat
  BY <1>5, <1>6, FS_Subset, FS_CardinalityType DEF TableInv
<1>8. \A n \in 0..N : p \in W(n)
  <2> DEFINE G == {k \in 0..N : p \in W(k)}
  <2>1. 0 \in G
    BY <1>1, <1>2
  <2>2. \A k \in 0..N : k \in G /\ k < N => k + 1 \in G
    BY <1>4 DEF Grown
  <2> HIDE DEF G
  <2>3. 0..N \subseteq G
    BY <1>1, <2>1, <2>2, CountUp
  <2> QED BY <2>3 DEF G
<1>9. Closed(W(N))
  <2> SUFFICES ASSUME ~Closed(W(N)) PROVE FALSE
    OBVIOUS
  \* A stage that is closed is the last that differs from the one before.
  <2>1. ASSUME NEW n \in 0..N, Closed(W(n)) PROVE FALSE
    <3> DEFINE G == {k \in 0..N : k < n \/ W(k) = W(n)}
    <3>1. 0 \in G
      BY <1>1, <2>1
    <3>2. ASSUME NEW k \in 0..N, k \in G, k < N
          PROVE  k + 1 \in G
      <4>1. CASE k + 1 < n
        BY <1>4, <3>2, <4>1
      <4>2. CASE k + 1 = n
        BY <1>4, <3>2, <4>2
      <4>3. CASE k + 1 > n
        <5>1. W(k) = W(n)
          BY <3>2, <4>3, <2>1
        <5>2. Grown(W(n)) = W(n)
          BY <2>1 DEF Grown, Closed
        <5> QED BY <1>4, <3>2, <5>1, <5>2
      <4> QED BY <4>1, <4>2, <4>3, <2>1, <3>2
    <3> HIDE DEF G
    <3>3. 0..N \subseteq G
      BY <1>1, <3>1, <3>2, CountUp
    <3>4. W(N) = W(n)
      BY <1>1, <2>1, <3>3 DEF G
    <3> QED BY <2>1, <3>4
  <2>2. ASSUME NEW n \in 0..N, n < N
        PROVE  Cardinality(W(n + 1)) > Cardinality(W(n))
    <3>1. W(n) \subseteq W(n + 1) /\ W(n) # W(n + 1)
      BY <1>4, <2>1, <2>2 DEF Grown, Closed
    <3>2. n + 1 \in 0..N
      BY <1>4, <2>2
    <3>3. /\ Cardinality(W(n)) <= Cardinality(W(n + 1))
          /\ Cardinality(W(n + 1)) # Cardinality(W(n))
      BY <1>7, <3>1, <3>2, FS_Subset
    <3> QED BY <1>7, <3>2, <3>3
  <2>3. \A n \in 0..N : Cardinality(W(n)) > n
    <3> DEFINE G == {k \in 0..N : Cardinality(W(k)) > k}
    <3>1. 0 \in G
      <4>1. Cardinality(W(0)) = 1
        BY <1>2, FS_Singleton
      <4> QED BY <1>1, <4>1
    <3>2. ASSUME NEW k \in 0..N, k \in G, k < N
          PROVE  k + 1 \in G
      <4>1. k + 1 \in 0..N
        BY <1>4, <3>2
      <4> QED BY <1>7, <2>2, <3>2, <4>1
    <3> HIDE DEF G
    <3>3. 0..N \subseteq G
      BY <1>1, <3>1, <3>2, CountUp
    <3> QED BY <3>3 DEF G
  <2>4. N \in 0..N
    BY <1>1
  <2>5. Cardinality(W(N)) <= N
    BY <1>7, <2>4, FS_Subset DEF TableInv
  <2> QED BY <1>1, <1>7, <2>3, <2>4, <2>5
<1>10. N \in 0..N
  BY <1>1
<1> QED BY <1>3, <1>5, <1>7, <1>8, <1>9, <1>10

\* What a reached unit reaches is reached.
LEMMA ReachTransitive ==
  ASSUME TableInv, NEW p \in Keys, NEW q \in Reach(p)
  PROVE  q \in Keys /\ Reach(q) \subseteq Reach(p)
<1>1. q \in Keys /\ Closed(Reach(p))
  BY ReachClosed
<1> QED BY <1>1, ReachClosed

LEMMA ReachInClosed ==
  ASSUME TableInv, NEW p \in Keys, NEW S, p \in S, Closed(S)
  PROVE  Reach(p) \subseteq S
BY ReachClosed

\* The units of a component have the same component.
LEMMA SccSame ==
  ASSUME TableInv, NEW p \in Keys, NEW q \in SccOf(p)
  PROVE  q \in Keys /\ p \in Reach(q) /\ SccOf(q) = SccOf(p) /\ Reach(q) = Reach(p)
<1>1. q \in Reach(p) /\ p \in Reach(q) /\ q \in Keys
  BY ReachTransitive DEF SccOf
<1>2. Reach(q) \subseteq Reach(p) /\ Reach(p) \subseteq Reach(q)
  BY <1>1, ReachTransitive
<1>3. Reach(q) = Reach(p)
  BY <1>2
<1>4. ASSUME NEW r \in Reach(p) PROVE (p \in Reach(r)) <=> (q \in Reach(r))
  <2>1. r \in Keys
    BY <1>4, ReachTransitive
  <2>2. p \in Reach(r) => q \in Reach(r)
    BY <1>1, <2>1, ReachTransitive
  <2>3. q \in Reach(r) => p \in Reach(r)
    BY <1>1, <2>1, ReachTransitive
  <2> QED BY <2>2, <2>3
<1> QED BY <1>1, <1>3, <1>4 DEF SccOf

LEMMA SccType ==
  ASSUME TableInv, NEW p \in Keys
  PROVE  /\ p \in SccOf(p) /\ SccOf(p) \subseteq Reach(p) /\ SccOf(p) \subseteq Keys
         /\ IsFiniteSet(SccOf(p)) /\ Cardinality(SccOf(p)) \in Nat
<1>1. p \in SccOf(p) /\ SccOf(p) \subseteq Reach(p) /\ SccOf(p) \subseteq Keys
  BY ReachClosed DEF SccOf
<1> QED BY <1>1, FS_Subset, FS_CardinalityType DEF TableInv

\* The ordered map has a first key.
LEMMA EntryNodeType ==
  ASSUME TableInv, Keys # {}
  PROVE  EntryNode \in Keys
<1> DEFINE below(p) == {q \in Keys : Before(q, p)}
           T == {Cardinality(below(p)) : p \in Keys}
<1>1. \A p \in Keys : IsFiniteSet(below(p)) /\ Cardinality(below(p)) \in Nat
  BY FS_Subset, FS_CardinalityType DEF TableInv
<1>2. T \subseteq Nat /\ T # {}
  BY <1>1
<1>3. PICK p \in Keys : \A q \in Keys : ~(Cardinality(below(q)) < Cardinality(below(p)))
  <2> HIDE DEF below
  <2>1. \A t \in T : \E q \in Keys : t = Cardinality(below(q))
    OBVIOUS
  <2>2. \A q \in Keys : Cardinality(below(q)) \in T
    OBVIOUS
  <2> HIDE DEF T
  <2>3. PICK a \in T : \A b \in T : ~(b < a)
    BY <1>2, LeastNumber
  <2> QED BY <2>1, <2>2, <2>3
<1>4. ASSUME NEW q \in Keys, q # p PROVE Before(p, q)
  <2> SUFFICES ASSUME ~Before(p, q) PROVE FALSE
    OBVIOUS
  <2>1. p \in Spelling /\ q \in Spelling /\ Keys \subseteq Spelling
    BY DEF TableInv
  <2>2. Before(q, p)
    BY <1>4, <2>1, BeforeAssumption
  <2>3. below(q) \subseteq below(p)
    BY <2>1, <2>2, BeforeAssumption
  <2>4. q \in below(p) /\ q \notin below(q)
    BY <2>1, <2>2, BeforeAssumption
  <2> HIDE DEF below
  <2>5. Cardinality(below(q)) <= Cardinality(below(p)) /\ Cardinality(below(q)) # Cardinality(below(p))
    BY <1>1, <2>3, <2>4, FS_Subset
  <2> QED BY <1>1, <1>3, <2>5
<1>5. \E x \in Keys : \A q \in Keys : x = q \/ Before(x, q)
  BY <1>4
<1> QED BY <1>5 DEF EntryNode

-----------------------------------------------------------------------------
(* Discovery.                                                              *)

\* A key is a path short enough for the OS.
KeysFit == \A p \in Keys : Len(p) <= PathMax

\* When discovery is over there is nothing left in the queue.
Over == pc = "done" => queue = <<>>

DiscoveryInv == RInv /\ TableInv /\ KeysFit /\ Over

LEMMA SpellingOf ==
  ASSUME NEW p \in Path, Len(p) <= PathMax, Denotes(p) \in File
  PROVE  p \in Spelling
<1>1. Len(p) \in 0..PathMax /\ p \in [1..Len(p) -> Component]
  BY PathAssumption DEF Path
<1> QED BY <1>1 DEF Spelling

LEMMA InitDiscovery == Init => DiscoveryInv
<1> SUFFICES ASSUME Init PROVE DiscoveryInv
  OBVIOUS
<1>1. Keys = {} /\ queue = <<>> /\ pc = "start"
  BY DEF Init, Keys
<1>2. TableInv
  BY <1>1, FS_EmptySet DEF TableInv
<1> QED BY <1>1, <1>2, InitRInv DEF DiscoveryInv, KeysFit, Over

\* An edge to a unit that exists.
LEMMA ChildrenAdded ==
  ASSUME NEW us, NEW p \in DOMAIN us, NEW q \in DOMAIN us,
         \A r \in DOMAIN us : us[r] \in Unit,
         \A r \in DOMAIN us : \A i \in DOMAIN us[r].imported : us[r].imported[i] \in DOMAIN us
  PROVE  \A r \in DOMAIN us : \A i \in DOMAIN AddImported(us, p, q)[r].imported :
           AddImported(us, p, q)[r].imported[i] \in DOMAIN us
<1> SUFFICES ASSUME NEW r \in DOMAIN us, NEW i \in DOMAIN AddImported(us, p, q)[r].imported
             PROVE  AddImported(us, p, q)[r].imported[i] \in DOMAIN us
  OBVIOUS
<1>1. CASE r # p
  <2>1. AddImported(us, p, q)[r] = us[r]
    BY <1>1 DEF AddImported
  <2> QED BY <2>1
<1>2. CASE r = p
  <2>1. AddImported(us, p, q)[r].imported = Append(us[p].imported, q)
    BY <1>2 DEF AddImported, Unit
  <2>2. us[p].imported \in Seq(Path)
    BY DEF Unit
  <2>3. \/ i \in DOMAIN us[p].imported /\ Append(us[p].imported, q)[i] = us[p].imported[i]
        \/ Append(us[p].imported, q)[i] = q
    BY <2>1, <2>2
  <2> QED BY <2>1, <2>3
<1> QED BY <1>1, <1>2

LEMMA NextDiscovery == DiscoveryInv /\ [Next]_vars => DiscoveryInv'
<1> SUFFICES ASSUME DiscoveryInv, [Next]_vars PROVE DiscoveryInv'
  OBVIOUS
<1>0. RInv' /\ RInv /\ IInv /\ TypeOK
  BY NextIInv, NextWorkQueue, NextExplored DEF DiscoveryInv, RInv, IInv
<1> SUFFICES TableInv' /\ KeysFit' /\ Over'
  BY <1>0 DEF DiscoveryInv
<1> USE DEF DiscoveryInv
<1>1. CASE OpenRoot
  <2>1. /\ Keys' = {Root} /\ units'[Root] = NewUnit /\ pc' = "traverse"
    BY <1>0, <1>1 DEF OpenRoot, WithUnit, Keys, IInv, NothingYet
  <2>2. Root \in Spelling /\ Len(Root) <= PathMax
    BY PathAssumption, SpellingOf
  <2>3. TableInv'
    <3>1. IsFiniteSet(Keys') /\ Keys' \subseteq Spelling
      BY <2>1, <2>2, FS_Singleton
    <3>2. \A p \in Keys' : Children(p)' = {}
      BY <2>1 DEF Children, NewUnit
    <3> QED BY <3>1, <3>2 DEF TableInv
  <2> QED BY <2>1, <2>2, <2>3 DEF KeysFit, Over
<1>2. CASE ParseFront
  <2>1. Head(queue) \in Keys
    BY <1>0, <1>2 DEF ParseFront, TypeOK
  <2>2. Keys' = Keys /\ \A p \in Keys : units'[p].imported = units[p].imported
    BY <1>0, <1>2, <2>1 DEF ParseFront, Keys, TypeOK, Unit
  <2>3. TableInv'
    BY <2>2 DEF TableInv, Children
  <2> QED BY <1>2, <2>2, <2>3 DEF ParseFront, AtLoopHead, KeysFit, Over
<1>3. CASE LinkKnown
  <2>1. /\ units' = AddImported(units, file, Target) /\ pc' = "traverse"
        /\ file \in Keys /\ Target \in Keys
    BY <1>0, <1>3 DEF LinkKnown, AtImport, IInv, InnerLoop, Known, Keys
  <2>2. Keys' = Keys
    BY <1>0, <2>1, TargetType, AddImportedDomain DEF TypeOK, Keys
  <2>3. \A p \in Keys : \A i \in DOMAIN units[p].imported : units[p].imported[i] \in Keys
    BY DEF TableInv, Children
  <2>4. \A p \in Keys : \A i \in DOMAIN units'[p].imported : units'[p].imported[i] \in Keys
    BY <1>0, <2>1, <2>3, ChildrenAdded DEF Keys, TypeOK
  <2>5. TableInv'
    BY <2>2, <2>4 DEF TableInv, Children
  <2> QED BY <2>1, <2>2, <2>5 DEF KeysFit, Over
<1>4. CASE OpenImport
  <2> DEFINE us == WithUnit(units, Target)
  <2>1. /\ file \in Keys /\ Target \in Path /\ Denotes(Target) \in File
        /\ Target \notin smFiles /\ Keys' = Keys \union {Target}
    BY <1>0, <1>4, OpenImportUnits
  <2>2. /\ units' = AddImported(us, file, Target) /\ pc' = "traverse"
        /\ Len(Target) <= PathMax
    BY <1>4, <2>1 DEF OpenImport, AtImport, MayOpen, Exists
  <2>3. /\ DOMAIN us = Keys \union {Target}
        /\ \A p \in Keys : p # Target => us[p] = units[p]
        /\ us[Target] = NewUnit
    BY DEF WithUnit, Keys
  <2>4. \A p \in DOMAIN us : us[p] \in Unit
    BY <1>0, <2>3, NewUnitType DEF TypeOK
  <2>5. \A p \in DOMAIN us : \A i \in DOMAIN us[p].imported : us[p].imported[i] \in DOMAIN us
    BY <2>3 DEF TableInv, Children, NewUnit
  <2> HIDE DEF us
  <2>6. file \in DOMAIN us /\ Target \in DOMAIN us
    BY <2>1, <2>3
  <2>7. \A p \in DOMAIN us : \A i \in DOMAIN units'[p].imported : units'[p].imported[i] \in DOMAIN us
    BY <2>2, <2>4, <2>5, <2>6, ChildrenAdded
  <2>8. IsFiniteSet(Keys') /\ Keys' \subseteq Spelling
    BY <2>1, <2>2, SpellingOf, FS_AddElement DEF TableInv
  <2>9. TableInv'
    BY <2>1, <2>3, <2>7, <2>8 DEF TableInv, Children
  <2> QED BY <2>1, <2>2, <2>9 DEF KeysFit, Over
<1>5. CASE Finish
  BY <1>5 DEF Finish, AtLoopHead, TableInv, KeysFit, Over, Keys, Children
<1>6. CASE OpenRootFails \/ SkipModule
  BY <1>6 DEF OpenRootFails, SkipModule, AtImport, TableInv, KeysFit, Over, Keys, Children
<1>7. CASE ImportFails
  <2>1. pc # "done" /\ pc' # "done"
    BY <1>7 DEF ImportFails, AtImport
  <2> QED BY <1>7, <2>1 DEF ImportFails, TableInv, KeysFit, Over, Keys, Children
<1>8. CASE UNCHANGED vars
  BY <1>8 DEF vars, TableInv, KeysFit, Over, Keys, Children
<1> QED BY <1>1, <1>2, <1>3, <1>4, <1>5, <1>6, <1>7, <1>8 DEF Next

-----------------------------------------------------------------------------
(* The components in order, and the passes.                                *)

\* What the iterator has yielded so far: units reached from the entry node,
\* each once, and each after all that it imports outside its component.
OrderInv ==
  /\ emitted \subseteq Reach(EntryNode)
  /\ Closed(emitted)
  /\ order \in Seq(Keys)
  /\ {order[i] : i \in DOMAIN order} = emitted
  /\ \A i, j \in DOMAIN order : order[i] = order[j] => i = j
  /\ \A i \in DOMAIN order : \A d \in Reach(order[i]) \ SccOf(order[i]) :
       \E j \in 1..(i - 1) : order[j] = d

\* The components of two or more units, among those yielded.
CyclesInv ==
  /\ cycles \in Seq(SUBSET Keys)
  /\ {cycles[i] : i \in DOMAIN cycles} = {C \in {SccOf(p) : p \in emitted} : Cardinality(C) > 1}

\* The runs of the passes are an initial part of the list that UnitMajor gives.
PassesInv ==
  /\ passes \in Seq(Keys \X {Pipeline[i] : i \in DOMAIN Pipeline})
  /\ Len(passes) <= 3 * Len(order)
  /\ \A i \in DOMAIN passes : passes[i] = UnitMajor(i - 1)

StageInv ==
  /\ stage \in {"discover", "scc", "sema", "return"}
  /\ stage # "discover" => pc = "done"
  /\ stage = "discover" => emitted = {} /\ order = <<>> /\ cycles = <<>>
  /\ stage \in {"discover", "scc"} => passes = <<>>
  /\ stage \in {"sema", "return"} => emitted = Reach(EntryNode)
  /\ stage = "return" => Len(passes) = 3 * Len(order)

FrontendInv ==
  /\ DiscoveryInv
  /\ StageInv
  /\ stage # "discover" => OrderInv /\ CyclesInv /\ PassesInv

LEMMA InitFrontend == FInit => FrontendInv
BY InitDiscovery DEF FInit, FrontendInv, StageInv

\* Where main() begins to iterate there is an entry node.
LEMMA EntryReached ==
  ASSUME FrontendInv, stage # "discover"
  PROVE  EntryNode \in Keys /\ Reach(EntryNode) \subseteq Keys
<1>1. Root \in Keys /\ TableInv
  BY DEF FrontendInv, StageInv, DiscoveryInv, RInv, RootOpen
<1>2. EntryNode \in Keys
  BY <1>1, EntryNodeType
<1> QED BY <1>1, <1>2, ReachClosed

\* What is known of a component when the iterator yields it.
LEMMA SccYielded ==
  ASSUME FrontendInv, stage # "discover", NEW C \in NextSccs
  PROVE  /\ C \subseteq Reach(EntryNode) /\ C \subseteq Keys
         /\ C # {} /\ IsFiniteSet(C) /\ Cardinality(C) \in Nat
         /\ C \cap emitted = {}
         /\ Closed(emitted \union C)
         /\ \A q \in C : SccOf(q) = C /\ Reach(q) \subseteq emitted \union C
<1> USE DEF FrontendInv, DiscoveryInv
<1>1. PICK p \in Reach(EntryNode) \ emitted : C = SccOf(p)
  BY DEF NextSccs
<1>2. TableInv /\ EntryNode \in Keys /\ p \in Keys /\ Reach(p) \subseteq Reach(EntryNode)
  BY <1>1, EntryReached, ReachTransitive
<1>3. /\ C \subseteq Reach(EntryNode) /\ C \subseteq Keys
      /\ C # {} /\ IsFiniteSet(C) /\ Cardinality(C) \in Nat
  BY <1>1, <1>2, SccType
<1>4. \A q \in C : q \in Keys /\ p \in Reach(q) /\ SccOf(q) = C
  BY <1>1, <1>2, SccSame
<1>5. C \cap emitted = {}
  <2> SUFFICES ASSUME NEW q \in C, q \in emitted PROVE FALSE
    OBVIOUS
  <2>1. Reach(q) \subseteq emitted
    BY <1>2, <1>4, ReachInClosed DEF OrderInv
  <2> QED BY <1>1, <1>4, <2>1
<1>6. Closed(emitted \union C)
  <2>1. \A q \in C : Children(q) \subseteq C \union emitted
    BY DEF NextSccs
  <2> QED BY <2>1 DEF OrderInv, Closed
<1>7. \A q \in C : Reach(q) \subseteq emitted \union C
  BY <1>2, <1>4, <1>6, ReachInClosed
<1> QED BY <1>3, <1>4, <1>5, <1>6, <1>7

LEMMA SequenceOf ==
  ASSUME NEW n \in Nat, NEW S, NEW f, f = [i \in 1..n |-> f[i]], \A i \in 1..n : f[i] \in S
  PROVE  f \in Seq(S) /\ Len(f) = n
<1>1. [i \in 1..n |-> f[i]] \in Seq(S) /\ Len([i \in 1..n |-> f[i]]) = n
  OBVIOUS
<1> QED BY <1>1

LEMMA ConcatAt ==
  ASSUME NEW S, NEW s \in Seq(S), NEW t \in Seq(S)
  PROVE  \A i \in 1..(Len(s) + Len(t)) :
           (s \o t)[i] = IF i <= Len(s) THEN s[i] ELSE t[i - Len(s)]
OBVIOUS

LEMMA ConcatType ==
  ASSUME NEW S, NEW s \in Seq(S), NEW t \in Seq(S)
  PROVE  s \o t \in Seq(S) /\ Len(s \o t) = Len(s) + Len(t)
OBVIOUS

LEMMA AppendItems ==
  ASSUME NEW S, NEW s \in Seq(S), NEW x \in S
  PROVE  /\ Append(s, x) \in Seq(S) /\ Len(Append(s, x)) = Len(s) + 1
         /\ \A i \in DOMAIN s : Append(s, x)[i] = s[i]
         /\ Append(s, x)[Len(s) + 1] = x
         /\ {Append(s, x)[i] : i \in DOMAIN Append(s, x)} = {s[i] : i \in DOMAIN s} \union {x}
<1>1. /\ Append(s, x) \in Seq(S) /\ Len(Append(s, x)) = Len(s) + 1
      /\ \A i \in 1..Len(s) : Append(s, x)[i] = s[i]
      /\ Append(s, x)[Len(s) + 1] = x
  OBVIOUS
<1>2. DOMAIN s = 1..Len(s) /\ DOMAIN Append(s, x) = 1..(Len(s) + 1) /\ Len(s) \in Nat
  OBVIOUS
<1> QED BY <1>1, <1>2

\* Its units, in whatever order, go behind the others.
LEMMA PushBackScc ==
  ASSUME FrontendInv, stage # "discover", NEW C \in NextSccs,
         NEW s \in Seq(Keys), Len(s) = Cardinality(C),
         {s[i] : i \in 1..Cardinality(C)} = C,
         \A i, j \in 1..Cardinality(C) : s[i] = s[j] => i = j,
         order' = order \o s, emitted' = emitted \union C, UNCHANGED vars
  PROVE  OrderInv'
<1> PICK n : n = Cardinality(C)
  OBVIOUS
<1> PICK m : m = Len(order)
  OBVIOUS
<1>1. n \in Nat /\ m \in Nat /\ order \in Seq(Keys) /\ C \subseteq Keys /\ s \in Seq(Keys) /\ Len(s) = n
  <2>1. n \in Nat /\ C \subseteq Keys
    BY SccYielded
  <2>2. order \in Seq(Keys) /\ m \in Nat
    BY DEF FrontendInv, OrderInv
  <2> QED BY <2>1, <2>2
<1>2. /\ order' \in Seq(Keys) /\ Len(order') = m + n
      /\ \A i \in 1..m : order'[i] = order[i]
      /\ \A i \in 1..n : order'[m + i] = s[i]
  <2>0. PICK o, K : o = order /\ K = Keys
    OBVIOUS
  <2>0a. o \in Seq(K) /\ s \in Seq(K) /\ Len(o) = m /\ Len(s) = n
    BY <1>1, <2>0
  <2>0b. o \o s \in Seq(K) /\ Len(o \o s) = m + n
    <3>1. o \o s \in Seq(K)
      BY <2>0a, ConcatType
    <3>2. Len(o \o s) = Len(o) + Len(s)
      BY <2>0a, ConcatType
    <3> QED BY <2>0a, <3>1, <3>2
  <2>1. order' \in Seq(Keys) /\ Len(order') = m + n
    BY <2>0, <2>0b
  <2>2. \A i \in 1..(m + n) : order'[i] = IF i <= m THEN order[i] ELSE s[i - m]
    BY <1>1, ConcatAt
  <2>3. \A i \in 1..n : m + i \in 1..(m + n) /\ ~(m + i <= m) /\ (m + i) - m = i
    BY <1>1
  <2>4. \A i \in 1..m : i \in 1..(m + n) /\ i <= m
    BY <1>1
  <2> QED BY <2>1, <2>2, <2>3, <2>4
<1>3. \A i \in 1..(m + n) : i \in 1..m \/ (i - m \in 1..n /\ m + (i - m) = i)
  BY <1>1
<1>4. /\ DOMAIN order = 1..m /\ DOMAIN order' = 1..(m + n)
      /\ 1..m \subseteq 1..(m + n) /\ \A i \in 1..n : m + i \in 1..(m + n)
  BY <1>1, <1>2
<1>5. /\ Keys' = Keys /\ EntryNode' = EntryNode
      /\ \A p : Reach(p)' = Reach(p) /\ SccOf(p)' = SccOf(p) /\ Children(p)' = Children(p)
  BY DEF vars, Keys, EntryNode, Reach, SccOf, Children
<1>6. OrderInv
  BY DEF FrontendInv
<1>7. {order'[i] : i \in DOMAIN order'} = emitted'
  <2>1. \A i \in DOMAIN order' : order'[i] \in emitted'
    BY <1>2, <1>3, <1>4, <1>6 DEF OrderInv
  <2>2. \A p \in emitted : \E i \in DOMAIN order' : order'[i] = p
    BY <1>2, <1>4, <1>6 DEF OrderInv
  <2>3. ASSUME NEW p \in C PROVE \E i \in DOMAIN order' : order'[i] = p
    <3>1. PICK k \in 1..n : s[k] = p
      OBVIOUS
    <3> QED BY <1>2, <1>4, <3>1
  <2> QED BY <2>1, <2>2, <2>3
<1>8. ASSUME NEW i \in DOMAIN order', NEW j \in DOMAIN order', order'[i] = order'[j]
      PROVE  i = j
  <2>1. \A k \in 1..m : order[k] \in emitted
    BY <1>4, <1>6 DEF OrderInv
  <2>2. C \cap emitted = {}
    BY SccYielded
  <2>3. CASE i \in 1..m /\ j \in 1..m
    BY <1>2, <1>4, <1>6, <1>8, <2>3 DEF OrderInv
  <2>4. CASE i \in 1..m /\ j \notin 1..m
    BY <1>2, <1>3, <1>4, <1>8, <2>1, <2>2, <2>4
  <2>5. CASE i \notin 1..m /\ j \in 1..m
    BY <1>2, <1>3, <1>4, <1>8, <2>1, <2>2, <2>5
  <2>6. CASE i \notin 1..m /\ j \notin 1..m
    <3>1. i - m \in 1..n /\ j - m \in 1..n /\ s[i - m] = s[j - m]
      BY <1>2, <1>3, <1>4, <1>8, <2>6
    <3>2. i - m = j - m
      BY <1>4, <3>1
    <3>3. i \in Int /\ j \in Int /\ m \in Int
      BY <1>1, <1>2
    <3> QED BY <3>2, <3>3
  <2> QED BY <2>3, <2>4, <2>5, <2>6
<1>9. ASSUME NEW i \in DOMAIN order', NEW d \in Reach(order'[i]) \ SccOf(order'[i])
      PROVE  \E j \in 1..(i - 1) : order'[j] = d
  <2>1. CASE i \in 1..m
    <3>1. PICK j \in 1..(i - 1) : order[j] = d
      BY <1>2, <1>4, <1>6, <1>9, <2>1 DEF OrderInv
    <3>2. j \in 1..m
      BY <1>1, <2>1
    <3> QED BY <1>2, <3>1, <3>2
  <2>2. CASE i \notin 1..m
    <3>0. i \in 1..(m + n)
      BY <1>4, <1>9
    <3>1a. i - m \in 1..n /\ m + (i - m) = i
      BY <1>3, <2>2, <3>0
    <3>1b. i > m
      BY <1>1, <2>2, <3>0
    <3>1. order'[i] \in C /\ i > m
      BY <1>2, <3>1a, <3>1b
    <3>2. d \in emitted
      <4>1. PICK q \in C : q = order'[i]
        BY <3>1
      <4>2. SccOf(q) = C /\ Reach(q) \subseteq emitted \union C
        BY SccYielded
      <4>3. d \in Reach(q) \ SccOf(q)
        BY <1>9, <4>1
      <4> QED BY <4>2, <4>3
    <3>3. PICK j \in 1..m : order[j] = d
      BY <1>4, <1>6, <3>2 DEF OrderInv
    <3>4. j \in 1..(i - 1)
      BY <1>1, <1>4, <3>1
    <3> QED BY <1>2, <3>3, <3>4
  <2> QED BY <2>1, <2>2
<1>10. emitted' \subseteq Reach(EntryNode)
  BY <1>6, SccYielded DEF OrderInv
<1>11. Closed(emitted)'
  <2>1. \A q \in emitted' : Children(q) \subseteq emitted'
    BY SccYielded DEF Closed
  <2> QED BY <1>5, <2>1 DEF Closed
<1> QED BY <1>2, <1>5, <1>7, <1>8, <1>9, <1>10, <1>11 DEF OrderInv

LEMMA OrderingType ==
  ASSUME NEW C, NEW n, n = Cardinality(C), n \in Nat, NEW s \in Orderings(C)
  PROVE  /\ s \in Seq(C) /\ Len(s) = n
         /\ {s[i] : i \in 1..n} = C
         /\ \A i, j \in 1..n : s[i] = s[j] => i = j
<1>1. /\ s \in [1..n -> C]
      /\ \A q \in C : \E i \in 1..n : s[i] = q
      /\ \A i, j \in 1..n : s[i] = s[j] => i = j
  BY DEF Orderings, Fn!Bijection, Fn!Injection, Fn!Surjection, Fn!IsInjective
<1>2. s = [i \in 1..n |-> s[i]]
  BY <1>1
<1> QED BY <1>1, <1>2, SequenceOf

\* While the units are unchanged, so is their graph.
LEMMA GraphKept ==
  ASSUME UNCHANGED vars
  PROVE  /\ Keys' = Keys /\ EntryNode' = EntryNode /\ TableInv' = TableInv
         /\ Reach(EntryNode)' = Reach(EntryNode)
         /\ \A p : Reach(p)' = Reach(p) /\ SccOf(p)' = SccOf(p)
BY DEF vars, Keys, EntryNode, Reach, SccOf, Children, TableInv

\* Components and cycles after one more component.
LEMMA CyclesGrown ==
  ASSUME FrontendInv, stage # "discover", NEW C \in NextSccs,
         emitted' = emitted \union C, UNCHANGED vars,
         cycles' = IF Cardinality(C) > 1 THEN Append(cycles, C) ELSE cycles
  PROVE  CyclesInv'
<1> DEFINE Big(S) == {D \in {SccOf(p) : p \in S} : Cardinality(D) > 1}
<1>1. /\ C \subseteq Keys /\ C # {} /\ \A q \in C : SccOf(q) = C
  BY SccYielded
<1>2. /\ cycles \in Seq(SUBSET Keys)
      /\ {cycles[i] : i \in DOMAIN cycles} = Big(emitted)
  BY DEF FrontendInv, CyclesInv
<1>3. Big(emitted') = Big(emitted) \union (IF Cardinality(C) > 1 THEN {C} ELSE {})
  BY <1>1
<1>4. cycles' \in Seq(SUBSET Keys) /\ {cycles'[i] : i \in DOMAIN cycles'} = Big(emitted')
  <2> HIDE DEF Big
  <2>1. CASE Cardinality(C) > 1
    <3>1. cycles' = Append(cycles, C) /\ C \in SUBSET Keys
      BY <1>1, <2>1
    <3>2. /\ cycles' \in Seq(SUBSET Keys)
          /\ {cycles'[i] : i \in DOMAIN cycles'} = {cycles[i] : i \in DOMAIN cycles} \union {C}
      BY <1>2, <3>1, AppendItems
    <3> QED BY <1>2, <1>3, <2>1, <3>2
  <2>2. CASE ~(Cardinality(C) > 1)
    BY <1>2, <1>3, <2>2
  <2> QED BY <2>1, <2>2
<1>5. Keys' = Keys /\ \A p : SccOf(p)' = SccOf(p)
  BY GraphKept
<1> QED BY <1>4, <1>5 DEF CyclesInv

LEMMA PipelineType ==
  /\ Len(Pipeline) = 3 /\ DOMAIN Pipeline = 1..3
  /\ \A i, j \in 1..3 : Pipeline[i] = Pipeline[j] => i = j
BY DEF Pipeline

\* The n-th run of a pass: its unit and its place in the pipeline.
LEMMA UnitMajorType ==
  ASSUME NEW n \in Nat, order \in Seq(Keys), n < 3 * Len(order)
  PROVE  /\ (n \div 3) + 1 \in 1..Len(order) /\ (n % 3) + 1 \in 1..3
         /\ UnitMajor(n) = <<order[(n \div 3) + 1], Pipeline[(n % 3) + 1]>>
         /\ UnitMajor(n) \in Keys \X {Pipeline[i] : i \in DOMAIN Pipeline}
<1>1. (n \div 3) + 1 \in 1..Len(order) /\ (n % 3) + 1 \in 1..3
  OBVIOUS
<1>2. UnitMajor(n) = <<order[(n \div 3) + 1], Pipeline[(n % 3) + 1]>>
  BY PipelineType DEF UnitMajor
<1>3. order[(n \div 3) + 1] \in Keys
  BY <1>1
<1> QED BY <1>1, <1>2, <1>3, PipelineType

\* When discovery is over, every unit has its AST.
LEMMA AllParsed ==
  ASSUME DiscoveryInv, pc = "done"
  PROVE  \A p \in Keys : units[p].ast
<1>1. WorkQueue /\ queue = <<>>
  BY DEF DiscoveryInv, RInv, Over
<1>2. {queue[i] : i \in DOMAIN queue} = {}
  BY <1>1
<1> QED BY <1>1, <1>2 DEF WorkQueue

LEMMA NextFrontend == FrontendInv /\ [FNext]_allvars => FrontendInv'
<1> SUFFICES ASSUME FrontendInv, [FNext]_allvars PROVE FrontendInv'
  OBVIOUS
<1>0. DiscoveryInv /\ StageInv /\ (stage # "discover" => OrderInv /\ CyclesInv /\ PassesInv)
  BY DEF FrontendInv
<1>a. ASSUME UNCHANGED vars PROVE DiscoveryInv'
  BY <1>0, <1>a, NextDiscovery
<1>b. ASSUME UNCHANGED <<vars, emitted, order>>, OrderInv PROVE OrderInv'
  BY <1>b, GraphKept DEF OrderInv, Closed, vars, Children
<1>c. ASSUME UNCHANGED <<vars, emitted, cycles>>, CyclesInv PROVE CyclesInv'
  BY <1>c, GraphKept DEF CyclesInv
<1>d. ASSUME UNCHANGED <<vars, order, passes>>, PassesInv PROVE PassesInv'
  BY <1>d, GraphKept DEF PassesInv, UnitMajor
<1>1. CASE Discovery
  <2>1. stage = "discover" /\ stage' = stage
    BY <1>0, <1>1 DEF Discovery, fvars, StageInv, Next, OpenRoot, OpenRootFails, ParseFront,
         Finish, AtLoopHead, SkipModule, LinkKnown, OpenImport, ImportFails, AtImport
  <2>2. DiscoveryInv'
    BY <1>0, <1>1, NextDiscovery DEF Discovery
  <2>3. StageInv'
    BY <1>0, <1>1, <2>1 DEF Discovery, fvars, StageInv
  <2> QED BY <2>1, <2>2, <2>3 DEF FrontendInv
<1>2. CASE StartScc
  <2>1. /\ UNCHANGED <<vars, emitted, order, cycles, passes>> /\ stage = "discover"
        /\ stage' = "scc" /\ pc = "done"
    BY <1>2 DEF StartScc
  <2>2. emitted = {} /\ order = <<>> /\ cycles = <<>> /\ passes = <<>>
    BY <1>0, <2>1 DEF StageInv
  <2>3. OrderInv'
    BY <2>1, <2>2 DEF OrderInv, Closed
  <2>4. CyclesInv'
    BY <2>1, <2>2 DEF CyclesInv
  <2>5. PassesInv'
    BY <2>1, <2>2 DEF PassesInv
  <2>6. StageInv'
    BY <2>1, <2>2 DEF StageInv, vars
  <2> QED BY <1>a, <2>1, <2>3, <2>4, <2>5, <2>6 DEF FrontendInv
<1>3. CASE VisitUnit
  <2>1. /\ UNCHANGED <<vars, stage, cycles, passes>> /\ stage = "scc"
    BY <1>3 DEF VisitUnit
  <2>2. PICK C \in NextSccs : /\ Cardinality(C) = 1
                              /\ \E p \in C : order' = PushBack(order, <<p>>)
                              /\ emitted' = emitted \union C
    BY <1>3 DEF VisitUnit
  <2>3. PICK p \in C : order' = PushBack(order, <<p>>)
    BY <2>2
  <2>4. C \subseteq Keys /\ IsFiniteSet(C)
    BY <2>1, SccYielded
  <2>5. C = {p}
    BY <2>2, <2>3, <2>4, FS_Singleton
  <2>6. OrderInv'
    <3> PICK s : s = <<p>>
      OBVIOUS
    <3>1. s \in Seq(Keys) /\ Len(s) = 1 /\ s[1] = p
      BY <2>4
    <3>2. {s[i] : i \in 1..1} = C /\ \A i, j \in 1..1 : s[i] = s[j] => i = j
      BY <2>5, <3>1
    <3>3. order' = order \o s
      BY <2>3 DEF PushBack
    <3>4. /\ Len(s) = Cardinality(C) /\ {s[i] : i \in 1..Cardinality(C)} = C
          /\ \A i, j \in 1..Cardinality(C) : s[i] = s[j] => i = j
      BY <2>2, <3>1, <3>2
    <3> QED BY <2>1, <2>2, <3>1, <3>3, <3>4, PushBackScc
  <2>7. CyclesInv'
    BY <2>1, <2>2, CyclesGrown
  <2>8. StageInv'
    BY <1>0, <2>1 DEF StageInv, vars
  <2>9. passes' = <<>>
    BY <1>0, <2>1 DEF StageInv
  <2>10. order' \in Seq(Keys')
    BY <2>6 DEF OrderInv
  <2>11. PassesInv'
    BY <2>9, <2>10 DEF PassesInv
  <2> QED BY <1>a, <2>1, <2>6, <2>7, <2>8, <2>11 DEF FrontendInv
<1>4. CASE ReportCycle
  <2>1. /\ UNCHANGED <<vars, stage, passes>> /\ stage = "scc"
    BY <1>4 DEF ReportCycle
  <2>2. PICK C \in NextSccs : /\ Cardinality(C) > 1
                              /\ \E s \in Orderings(C) : order' = PushBack(order, s)
                              /\ cycles' = Append(cycles, C)
                              /\ emitted' = emitted \union C
    BY <1>4 DEF ReportCycle
  <2>3. PICK s \in Orderings(C) : order' = PushBack(order, s)
    BY <2>2
  <2>4. C \subseteq Keys /\ Cardinality(C) \in Nat
    BY <2>1, SccYielded
  <2>6. OrderInv'
    <3>1. /\ s \in Seq(C) /\ Len(s) = Cardinality(C)
          /\ {s[i] : i \in 1..Cardinality(C)} = C
          /\ \A i, j \in 1..Cardinality(C) : s[i] = s[j] => i = j
      BY <2>3, <2>4, OrderingType
    <3>2. s \in Seq(Keys)
      BY <2>4, <3>1
    <3>3. order' = order \o s
      BY <2>3 DEF PushBack
    <3> QED BY <2>1, <2>2, <3>1, <3>2, <3>3, PushBackScc
  <2>7. CyclesInv'
    BY <2>1, <2>2, CyclesGrown
  <2>8. StageInv'
    BY <1>0, <2>1 DEF StageInv, vars
  <2>9. passes' = <<>>
    BY <1>0, <2>1 DEF StageInv
  <2>10. order' \in Seq(Keys')
    BY <2>6 DEF OrderInv
  <2>11. PassesInv'
    BY <2>9, <2>10 DEF PassesInv
  <2> QED BY <1>a, <2>1, <2>6, <2>7, <2>8, <2>11 DEF FrontendInv
<1>5. CASE StartSema
  <2>1. /\ UNCHANGED <<vars, emitted, order, cycles, passes>> /\ stage = "scc" /\ stage' = "sema"
        /\ Reach(EntryNode) \subseteq emitted
    BY <1>5 DEF StartSema
  <2>2. emitted = Reach(EntryNode)
    BY <1>0, <2>1 DEF OrderInv
  <2>3. emitted' = Reach(EntryNode)'
    BY <2>1, <2>2, GraphKept
  <2>4. StageInv'
    BY <1>0, <2>1, <2>3 DEF StageInv, vars
  <2> QED BY <1>0, <1>a, <1>b, <1>c, <1>d, <2>1, <2>4 DEF FrontendInv
<1>6. CASE RunPass
  <2> PICK n : n = Len(passes)
    OBVIOUS
  <2>1. /\ UNCHANGED <<vars, emitted, order, cycles>> /\ stage = "sema"
        /\ order \in Seq(Keys) /\ PassesInv /\ n \in Nat
    BY <1>0, <1>6 DEF RunPass, OrderInv, PassesInv
  <2>2. n < 3 * Len(order)
    BY <1>6, PipelineType DEF RunPass
  <2>3. /\ UnitMajor(n) \in Keys \X {Pipeline[i] : i \in DOMAIN Pipeline}
    BY <2>1, <2>2, UnitMajorType
  <2>4. units[UnitMajor(n)[1]].ast
    BY <1>0, <2>1, <2>3, AllParsed DEF StageInv
  <2>5. passes' = Append(passes, UnitMajor(n)) /\ stage' = stage
    BY <1>6, <2>4 DEF RunPass
  <2>6. PassesInv'
    <3> PICK S : S = Keys \X {Pipeline[i] : i \in DOMAIN Pipeline}
      OBVIOUS
    <3>1. passes \in Seq(S) /\ UnitMajor(n) \in S
      BY <2>1, <2>3 DEF PassesInv
    <3>2. /\ passes' \in Seq(S) /\ Len(passes') = n + 1
          /\ \A i \in DOMAIN passes : passes'[i] = passes[i]
          /\ passes'[n + 1] = UnitMajor(n)
      BY <2>5, <3>1, AppendItems
    <3>3. ASSUME NEW i \in DOMAIN passes' PROVE passes'[i] = UnitMajor(i - 1)
      <4>1. DOMAIN passes = 1..n /\ DOMAIN passes' = 1..(n + 1)
        BY <2>1, <3>1, <3>2
      <4>2. CASE i \in 1..n
        BY <2>1, <3>2, <4>1, <4>2 DEF PassesInv
      <4>3. CASE i = n + 1
        <5>1. i - 1 = n
          BY <2>1, <4>3
        <5> QED BY <3>2, <4>3, <5>1
      <4> QED BY <2>1, <4>1, <4>2, <4>3
    <3>4. \A i : UnitMajor(i)' = UnitMajor(i)
      BY <2>1 DEF UnitMajor
    <3>5. Keys' = Keys
      BY <2>1, GraphKept
    <3>6. Len(passes') <= 3 * Len(order')
      BY <2>1, <2>2, <3>2
    <3>7. passes' \in Seq(Keys' \X {Pipeline[i] : i \in DOMAIN Pipeline})
      BY <3>2, <3>5
    <3> QED BY <3>3, <3>4, <3>6, <3>7 DEF PassesInv
  <2>7. StageInv'
    <3>1. Reach(EntryNode)' = Reach(EntryNode)
      BY <2>1, GraphKept
    <3> QED BY <1>0, <2>1, <2>5, <3>1 DEF StageInv, vars
  <2> QED BY <1>0, <1>a, <1>b, <1>c, <2>1, <2>6, <2>7 DEF FrontendInv
<1>7. CASE Return
  <2>1. /\ UNCHANGED <<vars, emitted, order, cycles, passes>> /\ stage = "sema" /\ stage' = "return"
        /\ Len(passes) = 3 * Len(order)
    BY <1>7, PipelineType DEF Return
  <2>2. Reach(EntryNode)' = Reach(EntryNode)
    BY <2>1, GraphKept
  <2>3. StageInv'
    BY <1>0, <2>1, <2>2 DEF StageInv, vars
  <2> QED BY <1>0, <1>a, <1>b, <1>c, <1>d, <2>1, <2>3 DEF FrontendInv
<1>8. CASE UNCHANGED allvars
  <2>1. UNCHANGED vars /\ UNCHANGED <<stage, emitted, order, cycles, passes>>
    BY <1>8 DEF allvars, fvars
  <2>2. Reach(EntryNode)' = Reach(EntryNode)
    BY <2>1, GraphKept
  <2>3. StageInv'
    BY <1>0, <2>1, <2>2 DEF StageInv, vars
  <2> QED BY <1>0, <1>a, <1>b, <1>c, <1>d, <2>1, <2>3 DEF FrontendInv
<1> QED BY <1>1, <1>2, <1>3, <1>4, <1>5, <1>6, <1>7, <1>8 DEF FNext

THEOREM FrontendInvariance == FSpec => []FrontendInv
BY InitFrontend, NextFrontend, PTL DEF FSpec

-----------------------------------------------------------------------------
(* What the invariant says of the passes.                                  *)

\* The unit and the pass of a run.
LEMMA RunOf ==
  ASSUME FrontendInv, stage # "discover", NEW i \in DOMAIN passes
  PROVE  /\ i \in 1..(3 * Len(order)) /\ i - 1 \in Nat
         /\ ((i - 1) \div 3) + 1 \in DOMAIN order
         /\ ((i - 1) % 3) + 1 \in 1..3
         /\ passes[i] = <<order[((i - 1) \div 3) + 1], Pipeline[((i - 1) % 3) + 1]>>
<1>1. /\ order \in Seq(Keys) /\ PassesInv /\ Len(passes) <= 3 * Len(order)
      /\ Len(passes) \in Nat /\ DOMAIN passes = 1..Len(passes) /\ Len(order) \in Nat
  BY DEF FrontendInv, OrderInv, PassesInv
<1>2. i \in 1..(3 * Len(order)) /\ i - 1 \in Nat /\ i - 1 < 3 * Len(order)
  BY <1>1
<1>3. passes[i] = UnitMajor(i - 1)
  BY <1>1 DEF PassesInv
<1>4. ((i - 1) \div 3) + 1 \in DOMAIN order
  BY <1>1, <1>2, UnitMajorType
<1> QED BY <1>1, <1>2, <1>3, <1>4, UnitMajorType

LEMMA RunNumber ==
  ASSUME NEW e \in Nat \ {0}, NEW k \in 1..3, NEW j, j = 3 * (e - 1) + k
  PROVE  j \in Nat \ {0} /\ ((j - 1) \div 3) + 1 = e /\ ((j - 1) % 3) + 1 = k
OBVIOUS

LEMMA RunBefore ==
  ASSUME NEW n \in Nat, NEW e \in 1..(n \div 3), NEW k \in 1..3
  PROVE  \E j \in 1..n : ((j - 1) \div 3) + 1 = e /\ ((j - 1) % 3) + 1 = k
<1> DEFINE j == 3 * (e - 1) + k
<1>1. e \in Nat \ {0} /\ e <= n \div 3 /\ n \div 3 \in Nat
  OBVIOUS
<1>2. j \in Nat \ {0} /\ ((j - 1) \div 3) + 1 = e /\ ((j - 1) % 3) + 1 = k
  BY <1>1, RunNumber
<1>3. j <= 3 * e /\ 3 * e <= n
  BY <1>1
<1>4. j \in 1..n
  BY <1>1, <1>2, <1>3
<1> HIDE DEF j
<1> QED BY <1>2, <1>4

LEMMA RunNumberIs ==
  ASSUME NEW n \in Nat
  PROVE  n = 3 * (n \div 3) + (n % 3) /\ n \div 3 \in Nat /\ n % 3 \in 0..2
OBVIOUS

\* FTypeOK: the driver's lists hold units and passes.
THEOREM DriverTypeCorrect == FSpec => []FTypeOK
<1>1. FrontendInv => FTypeOK
  <2> SUFFICES ASSUME FrontendInv PROVE FTypeOK
    OBVIOUS
  <2>1. stage \in {"discover", "scc", "sema", "return"}
    BY DEF FrontendInv, StageInv
  <2>2. CASE stage = "discover"
    <3>1. emitted = {} /\ order = <<>> /\ cycles = <<>> /\ passes = <<>>
      BY <2>2 DEF FrontendInv, StageInv
    <3> QED BY <2>1, <3>1 DEF FTypeOK
  <2>3. CASE stage # "discover"
    <3>1. emitted \subseteq Keys
      BY <2>3, EntryReached DEF FrontendInv, OrderInv
    <3> QED BY <2>1, <2>3, <3>1 DEF FTypeOK, FrontendInv, OrderInv, CyclesInv, PassesInv
  <2> QED BY <2>2, <2>3
<1> QED BY <1>1, FrontendInvariance, PTL

\* PassesInOrder: the passes of a unit run one after another, in the order in
\* which they are registered, and none finds a unit without an AST.
THEOREM PassesFollowPipeline == FSpec => []PassesInOrder
<1>1. FrontendInv => PassesInOrder
  <2> SUFFICES ASSUME FrontendInv PROVE PassesInOrder
    OBVIOUS
  <2>1. stage # "abort"
    BY DEF FrontendInv, StageInv
  <2>2. ASSUME NEW i \in DOMAIN passes, passes[i][2] # Pipeline[1]
        PROVE  \E k \in 2..Len(Pipeline) :
                 passes[i][2] = Pipeline[k] /\ passes[i - 1] = <<passes[i][1], Pipeline[k - 1]>>
    <3>1. stage # "discover"
      BY <2>2 DEF FrontendInv, StageInv
    <3>2. /\ i - 1 \in Nat /\ ((i - 1) % 3) + 1 \in 1..3
          /\ passes[i] = <<order[((i - 1) \div 3) + 1], Pipeline[((i - 1) % 3) + 1]>>
      BY <3>1, RunOf
    <3> PICK m : m = i - 1
      OBVIOUS
    <3>3. m \in Nat /\ m % 3 \in 1..2
      <4>1. m % 3 # 0
        BY <2>2, <3>2
      <4> QED BY <3>2, <4>1
    <3>4. /\ m \in Nat \ {0} /\ (m - 1) \div 3 = m \div 3 /\ (m - 1) % 3 = (m % 3) - 1
      BY <3>3
    <3>5. m \in DOMAIN passes
      <4>1. DOMAIN passes = 1..Len(passes) /\ Len(passes) \in Nat
        BY <3>1 DEF FrontendInv, PassesInv
      <4>2. i \in 1..Len(passes)
        BY <2>2, <4>1
      <4>3. m \in Nat \ {0} /\ m <= Len(passes)
        BY <3>4, <4>1, <4>2
      <4> QED BY <4>1, <4>3
    <3>6. passes[m] = <<order[((m - 1) \div 3) + 1], Pipeline[((m - 1) % 3) + 1]>>
      BY <3>1, <3>5, RunOf
    <3>7. passes[m] = <<order[(m \div 3) + 1], Pipeline[m % 3]>>
      <4>1. ((m % 3) - 1) + 1 = m % 3
        BY <3>3
      <4> QED BY <3>4, <3>6, <4>1
    <3> DEFINE k == (m % 3) + 1
    <3>8. k \in 2..Len(Pipeline) /\ k - 1 = m % 3
      BY <3>3, PipelineType
    <3>9. passes[i][2] = Pipeline[k] /\ passes[i - 1] = <<passes[i][1], Pipeline[k - 1]>>
      BY <3>2, <3>7, <3>8
    <3> QED BY <3>8, <3>9
  <2> QED BY <2>1, <2>2 DEF PassesInOrder
<1> QED BY <1>1, FrontendInvariance, PTL

\* DependencyOrder: all passes have been over every unit that a unit imports,
\* outside its cycle, before the first pass runs on the unit.
THEOREM DependenciesFirst == FSpec => []DependencyOrder
<1>1. FrontendInv => DependencyOrder
  <2> SUFFICES ASSUME FrontendInv, NEW i \in DOMAIN passes
               PROVE  /\ passes[i][1] \in Keys
                      /\ \A d \in Reach(passes[i][1]) \ SccOf(passes[i][1]), k \in DOMAIN Pipeline :
                           \E j \in 1..(i - 1) : passes[j] = <<d, Pipeline[k]>>
                      /\ \A j \in DOMAIN passes : passes[j] = passes[i] => j = i
    BY DEF DependencyOrder
  <2>1. stage # "discover"
    BY DEF FrontendInv, StageInv
  <2>2. OrderInv /\ PassesInv
    BY <2>1 DEF FrontendInv
  <2> DEFINE u(j) == ((j - 1) \div 3) + 1
             w(j) == ((j - 1) % 3) + 1
  <2>3. \A j \in DOMAIN passes : /\ j - 1 \in Nat /\ j \in 1..Len(passes) /\ u(j) \in DOMAIN order
                                 /\ w(j) \in 1..3 /\ passes[j] = <<order[u(j)], Pipeline[w(j)]>>
    BY <2>1, <2>2, RunOf DEF PassesInv
  <2>4. passes[i][1] = order[u(i)] /\ passes[i][1] \in Keys
    <3>1. passes[i] = <<order[u(i)], Pipeline[w(i)]>> /\ u(i) \in DOMAIN order
      BY <2>3
    <3> HIDE DEF u, w
    <3>2. passes[i][1] = order[u(i)]
      BY <3>1
    <3> QED BY <2>2, <3>1, <3>2 DEF OrderInv
  <2>5. ASSUME NEW d \in Reach(passes[i][1]) \ SccOf(passes[i][1]), NEW k \in DOMAIN Pipeline
        PROVE  \E j \in 1..(i - 1) : passes[j] = <<d, Pipeline[k]>>
    <3> PICK m : m = u(i)
      OBVIOUS
    <3>1. PICK e \in 1..(m - 1) : order[e] = d
      <4>1. m \in DOMAIN order /\ d \in Reach(order[m]) \ SccOf(order[m])
        BY <2>3, <2>4, <2>5
      <4> QED BY <2>2, <4>1 DEF OrderInv
    <3>2. k \in 1..3
      BY PipelineType
    <3>3. PICK j \in 1..(i - 1) : u(j) = e /\ w(j) = k
      <4> PICK n : n = i - 1
        OBVIOUS
      <4>1. n \in Nat /\ m = (n \div 3) + 1
        BY <2>3
      <4>2. e \in 1..(n \div 3)
        BY <3>1, <4>1
      <4>3. \E j \in 1..n : ((j - 1) \div 3) + 1 = e /\ ((j - 1) % 3) + 1 = k
        <5> HIDE DEF u, w
        <5>1. n \in Nat /\ e \in 1..(n \div 3) /\ k \in 1..3
          BY <3>2, <4>1, <4>2
        <5>2. \A a \in Nat : \A b \in 1..(a \div 3), c \in 1..3 : \E j \in 1..a : ((j - 1) \div 3) + 1 = b /\ ((j - 1) % 3) + 1 = c
          BY RunBefore
        <5>3. n \in Nat
          BY <5>1
        <5>4. \A b \in 1..(n \div 3), c \in 1..3 : \E j \in 1..n : ((j - 1) \div 3) + 1 = b /\ ((j - 1) % 3) + 1 = c
          BY <5>3, <5>2
        <5>5. \A c \in 1..3 : \E j \in 1..n : ((j - 1) \div 3) + 1 = e /\ ((j - 1) % 3) + 1 = c
          BY <5>1, <5>4
        <5> QED BY <5>1, <5>5
      <4> QED BY <4>3
    <3>4. j \in DOMAIN passes
      <4>1. DOMAIN passes = 1..Len(passes) /\ Len(passes) \in Nat /\ i \in 1..Len(passes)
        BY <2>2, <2>3 DEF PassesInv
      <4> QED BY <3>3, <4>1
    <3> HIDE DEF u, w
    <3> QED BY <2>3, <3>1, <3>3, <3>4
  <2>6. ASSUME NEW j \in DOMAIN passes, passes[j] = passes[i]
        PROVE  j = i
    <3>1. /\ u(i) \in DOMAIN order /\ u(j) \in DOMAIN order /\ w(i) \in 1..3 /\ w(j) \in 1..3
          /\ order[u(i)] = order[u(j)] /\ Pipeline[w(i)] = Pipeline[w(j)]
      <4> HIDE DEF u, w
      <4> QED BY <2>3, <2>6
    <3>2. u(i) = u(j) /\ w(i) = w(j)
      <4> HIDE DEF u, w
      <4> QED BY <2>2, <3>1, PipelineType DEF OrderInv
    <3>3. i - 1 \in Nat /\ j - 1 \in Nat
      BY <2>3
    <3>4. (i - 1) \div 3 = (j - 1) \div 3 /\ (i - 1) % 3 = (j - 1) % 3
      BY <3>2, <3>3, RunNumberIs
    <3>5. i - 1 = j - 1
      BY <3>3, <3>4, RunNumberIs
    <3>6. i \in Int /\ j \in Int
      BY <2>3
    <3> QED BY <3>5, <3>6
  <2> QED BY <2>4, <2>5, <2>6
<1> QED BY <1>1, FrontendInvariance, PTL

\* AllReached: at the end exactly the units that the entry node reaches have
\* been through the passes, and exactly their cycles have been reported.
THEOREM NoneLeftOut == FSpec => []AllReached
<1>1. FrontendInv => AllReached
  <2> SUFFICES ASSUME FrontendInv, stage = "return"
               PROVE  /\ {cycles[i] : i \in DOMAIN cycles} =
                           {C \in {SccOf(p) : p \in Reach(EntryNode)} : Cardinality(C) > 1}
                      /\ {passes[i][1] : i \in DOMAIN passes} = Reach(EntryNode)
    BY DEF AllReached
  <2>1. /\ OrderInv /\ CyclesInv /\ PassesInv /\ emitted = Reach(EntryNode)
        /\ Len(passes) = 3 * Len(order)
    BY DEF FrontendInv, StageInv
  <2>2. {cycles[i] : i \in DOMAIN cycles} =
          {C \in {SccOf(p) : p \in Reach(EntryNode)} : Cardinality(C) > 1}
    BY <2>1 DEF CyclesInv
  <2>3. /\ DOMAIN passes = 1..(3 * Len(order)) /\ DOMAIN order = 1..Len(order) /\ Len(order) \in Nat
    BY <2>1 DEF OrderInv, PassesInv
  <2>4. ASSUME NEW i \in DOMAIN passes PROVE passes[i][1] \in emitted
    <3>1. passes[i][1] = order[((i - 1) \div 3) + 1] /\ ((i - 1) \div 3) + 1 \in DOMAIN order
      BY RunOf
    <3> QED BY <2>1, <3>1 DEF OrderInv
  <2>5. ASSUME NEW p \in emitted PROVE \E i \in DOMAIN passes : passes[i][1] = p
    <3>1. PICK e \in DOMAIN order : order[e] = p
      BY <2>1 DEF OrderInv
    <3> PICK j : j = 3 * (e - 1) + 1
      OBVIOUS
    <3>2. j \in DOMAIN passes /\ ((j - 1) \div 3) + 1 = e
      BY <2>3
    <3>3. passes[j][1] = p
      BY <3>1, <3>2, RunOf
    <3> QED BY <3>2, <3>3
  <2> QED BY <2>1, <2>2, <2>4, <2>5
<1> QED BY <1>1, FrontendInvariance, PTL
=============================================================================
