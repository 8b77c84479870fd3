--------------------------- MODULE TypeCheckProofs ---------------------------
(***************************************************************************)
(* Proofs about the type checking pass, for every translation unit.        *)
(***************************************************************************)
EXTENDS TypeCheck, FiniteSetTheorems, WellFoundedInduction, TLAPS

-----------------------------------------------------------------------------
(* The tree.                                                               *)

LEMMA ProgramType ==
  ASSUME prog \in Programs
  PROVE  /\ DOMAIN prog \subseteq Nat \ {Null}
         /\ \A n \in DOMAIN prog : prog[n] \in Node
         /\ Root \in DOMAIN prog /\ prog[Root].kind = "Program"
         /\ \A n \in DOMAIN prog : \A k \in DOMAIN prog[n].kids :
              \/ prog[n].kids[k] = Null
              \/ prog[n].kids[k] \in DOMAIN prog /\ prog[n].kids[k] > n
BY ProgramAssumption

LEMMA TreeType ==
  ASSUME prog \in Programs
  PROVE  /\ \A n \in DOMAIN prog \ {Root} :
              \E q \in DOMAIN prog : \E k \in DOMAIN prog[q].kids : prog[q].kids[k] = n
         /\ \A q, r \in DOMAIN prog : \A j \in DOMAIN prog[q].kids, k \in DOMAIN prog[r].kids :
              prog[q].kids[j] = prog[r].kids[k] => prog[q].kids[j] = Null \/ (q = r /\ j = k)
         /\ \A n \in DOMAIN prog :
              /\ prog[n].kids # <<>> => prog[n].kind \in Variable \union ScopedKinds \union {"Expr"}
              /\ \A k \in DOMAIN prog[n].kids :
                   prog[n].kids[k] # Null /\ prog[prog[n].kids[k]].kind \in Variable
                     => prog[n].kind \in ScopedKinds
BY TreeAssumption

LEMMA ParentType ==
  ASSUME prog \in Programs, NEW n \in DOMAIN prog, n # Root
  PROVE  /\ Parent(n) \in DOMAIN prog /\ n > Parent(n)
         /\ \E k \in DOMAIN prog[Parent(n)].kids : prog[Parent(n)].kids[k] = n
<1>1. \E q \in DOMAIN prog : \E k \in DOMAIN prog[q].kids : prog[q].kids[k] = n
  BY TreeType
<1>2. /\ Parent(n) \in DOMAIN prog
      /\ \E k \in DOMAIN prog[Parent(n)].kids : prog[Parent(n)].kids[k] = n
  BY <1>1 DEF Parent
<1> QED BY <1>2, ProgramType

LEMMA KidParent ==
  ASSUME prog \in Programs, NEW n \in DOMAIN prog, NEW k \in DOMAIN prog[n].kids,
         prog[n].kids[k] # Null
  PROVE  /\ prog[n].kids[k] \in DOMAIN prog /\ prog[n].kids[k] > n /\ prog[n].kids[k] # Root
         /\ Parent(prog[n].kids[k]) = n
<1>1. prog[n].kids[k] \in DOMAIN prog /\ prog[n].kids[k] > n /\ prog[n].kids[k] # Root
  <2>1. n \in Nat \ {Null}
    BY ProgramType
  <2>2. prog[n].kids[k] > n
    BY ProgramType
  <2> QED BY <2>1, <2>2, ProgramType DEF Null, Root
<1>2. \A q \in DOMAIN prog : (\E j \in DOMAIN prog[q].kids : prog[q].kids[j] = prog[n].kids[k]) => q = n
  BY TreeType
<1>3. \E q \in DOMAIN prog : \E j \in DOMAIN prog[q].kids : prog[q].kids[j] = prog[n].kids[k]
  OBVIOUS
<1> QED BY <1>1, <1>2, <1>3 DEF Parent

\* `up` has a value: the least relation that has the parents of a node and what
\* is above its parent.
LEMMA AboveUnfold ==
  ASSUME prog \in Programs
  PROVE  /\ DOMAIN Above = DOMAIN prog
         /\ Above[Root] = {}
         /\ \A n \in DOMAIN prog \ {Root} : Above[n] = {Parent(n)} \union Above[Parent(n)]
<1> DEFINE S == DOMAIN prog
           Step(R) == \A n \in S \ {Root} :
                        /\ <<n, Parent(n)>> \in R
                        /\ \A q \in S : <<Parent(n), q>> \in R => <<n, q>> \in R
           Least(n) == {q \in S : \A R \in SUBSET (S \X S) : Step(R) => <<n, q>> \in R}
           Def(f) == f = [n \in S |-> IF n = Root THEN {} ELSE {Parent(n)} \union f[Parent(n)]]
<1>0. \A n \in S \ {Root} : Parent(n) \in S
  BY ParentType
<1>1. Least(Root) = {}
  <2> SUFFICES ASSUME NEW q \in Least(Root) PROVE FALSE
    OBVIOUS
  <2> DEFINE R == (S \ {Root}) \X S
  <2>1. Step(R)
    BY <1>0
  <2>2. <<Root, q>> \in R
    BY <2>1
  <2> QED BY <2>2
<1>2. ASSUME NEW n \in S \ {Root}
      PROVE  {Parent(n)} \union Least(Parent(n)) \subseteq Least(n)
  BY <1>0, <1>2
<1>3. ASSUME NEW n \in S \ {Root}
      PROVE  Least(n) \subseteq {Parent(n)} \union Least(Parent(n))
  <2> DEFINE R == {x \in S \X S : x[1] # Root /\ x[2] \in {Parent(x[1])} \union Least(Parent(x[1]))}
  <2>1. ASSUME NEW m \in S \ {Root}
        PROVE  /\ <<m, Parent(m)>> \in R
               /\ \A q \in S : <<Parent(m), q>> \in R => <<m, q>> \in R
    <3>1. <<m, Parent(m)>> \in R
      BY <1>0, <2>1
    <3>2. ASSUME NEW q \in S, <<Parent(m), q>> \in R
          PROVE  <<m, q>> \in R
      <4>1. Parent(m) \in S \ {Root} /\ q \in {Parent(Parent(m))} \union Least(Parent(Parent(m)))
        BY <1>0, <2>1, <3>2
      <4>2. q \in Least(Parent(m))
        BY <1>2, <4>1
      <4> QED BY <2>1, <4>2
    <3> QED BY <3>1, <3>2
  <2>2. R \in SUBSET (S \X S) /\ Step(R)
    BY <2>1
  <2> SUFFICES ASSUME NEW q \in Least(n) PROVE q \in {Parent(n)} \union Least(Parent(n))
    OBVIOUS
  <2>3. <<n, q>> \in R
    BY <2>2
  <2> QED BY <2>3
<1>4. \E f : Def(f)
  <2> DEFINE f == [n \in S |-> Least(n)]
  <2> HIDE DEF Least
  <2>1. \A n \in S : f[n] = IF n = Root THEN {} ELSE {Parent(n)} \union f[Parent(n)]
    BY <1>0, <1>1, <1>2, <1>3
  <2>2. f = [n \in S |-> IF n = Root THEN {} ELSE {Parent(n)} \union f[Parent(n)]]
    BY <2>1
  <2> QED BY <2>2
<1>5. Above = CHOOSE f : Def(f)
  BY DEF Above
<1>6. Def(Above)
  <2> HIDE DEF Def
  <2> QED BY <1>4, <1>5
<1> QED BY <1>6, ProgramType

\* A set of numbers has a least one.
LEMMA LeastNumber ==
  ASSUME NEW T, T \subseteq Nat, T # {}
  PROVE  \E a \in T : \A b \in T : ~(b < a)
<1> DEFINE R == OpToRel(<, Nat)
<1>1. IsWellFoundedOn(R, Nat)
  BY NatLessThanWellFounded
<1>2. \A a, b \in Nat : a < b => <<a, b>> \in R
  BY DEF OpToRel
<1> HIDE DEF R
<1>3. PICK a \in T : \A b \in T : ~(<<b, a>> \in R)
  BY <1>1, WFMin
<1> QED BY <1>2, <1>3

\* A set of nodes that has a node whenever it has its parent has all of them.
LEMMA TreeInduction ==
  ASSUME prog \in Programs, NEW S \in SUBSET DOMAIN prog, Root \in S,
         \A n \in DOMAIN prog \ {Root} : Parent(n) \in S => n \in S
  PROVE  S = DOMAIN prog
<1> SUFFICES ASSUME S # DOMAIN prog PROVE FALSE
  OBVIOUS
<1> DEFINE T == {n \in Nat : n \in DOMAIN prog \ S}
<1>1. T # {}
  BY ProgramType
<1>2. PICK n \in T : \A m \in T : ~(m < n)
  BY <1>1, LeastNumber
<1>3. n \in DOMAIN prog /\ n # Root
  BY <1>2
<1>4. Parent(n) \in DOMAIN prog /\ n > Parent(n) /\ Parent(n) \in Nat /\ n \in Nat
  BY <1>3, ParentType, ProgramType
<1>5. Parent(n) \notin T
  BY <1>2, <1>4
<1> QED BY <1>2, <1>3, <1>4, <1>5

LEMMA AboveLess ==
  ASSUME prog \in Programs, NEW n \in DOMAIN prog, NEW q \in Above[n]
  PROVE  q \in DOMAIN prog /\ n > q
<1> DEFINE S == {m \in DOMAIN prog : \A r \in Above[m] : r \in DOMAIN prog /\ m > r}
<1>1. Root \in S
  BY AboveUnfold, ProgramType
<1>2. ASSUME NEW m \in DOMAIN prog \ {Root}, Parent(m) \in S
      PROVE  m \in S
  <2> SUFFICES ASSUME NEW r \in Above[m] PROVE r \in DOMAIN prog /\ m > r
    OBVIOUS
  <2>1. Parent(m) \in DOMAIN prog /\ m > Parent(m)
    BY ParentType
  <2>2. r = Parent(m) \/ r \in Above[Parent(m)]
    BY AboveUnfold
  <2>3. CASE r \in Above[Parent(m)]
    <3>1. r \in DOMAIN prog /\ Parent(m) > r
      BY <1>2, <2>3
    <3> QED BY <2>1, <3>1, ProgramType
  <2> QED BY <2>1, <2>2, <2>3
<1>3. S = DOMAIN prog
  <2> HIDE DEF S
  <2>1. S \in SUBSET DOMAIN prog
    BY DEF S
  <2> QED BY <1>1, <1>2, <2>1, TreeInduction
<1> QED BY <1>3

LEMMA AboveTransitive ==
  ASSUME prog \in Programs, NEW n \in DOMAIN prog, NEW q \in Above[n]
  PROVE  Above[q] \subseteq Above[n]
<1> DEFINE S == {m \in DOMAIN prog : \A r \in Above[m] : Above[r] \subseteq Above[m]}
<1>1. Root \in S
  BY AboveUnfold, ProgramType
<1>2. ASSUME NEW m \in DOMAIN prog \ {Root}, Parent(m) \in S
      PROVE  m \in S
  BY <1>2, AboveUnfold
<1>3. S = DOMAIN prog
  <2> HIDE DEF S
  <2>1. S \in SUBSET DOMAIN prog
    BY DEF S
  <2> QED BY <1>1, <1>2, <2>1, TreeInduction
<1> QED BY <1>3

LEMMA RootAbove ==
  ASSUME prog \in Programs, NEW n \in DOMAIN prog, n # Root
  PROVE  Root \in Above[n]
<1> DEFINE S == {m \in DOMAIN prog : m # Root => Root \in Above[m]}
<1>1. Root \in S
  BY ProgramType
<1>2. ASSUME NEW m \in DOMAIN prog \ {Root}, Parent(m) \in S
      PROVE  m \in S
  BY <1>2, AboveUnfold
<1>3. S = DOMAIN prog
  <2> HIDE DEF S
  <2>1. S \in SUBSET DOMAIN prog
    BY DEF S
  <2> QED BY <1>1, <1>2, <2>1, TreeInduction
<1> QED BY <1>3

LEMMA KidAbove ==
  ASSUME prog \in Programs, NEW n \in DOMAIN prog, NEW k \in DOMAIN prog[n].kids,
         prog[n].kids[k] # Null
  PROVE  Above[prog[n].kids[k]] = {n} \union Above[n]
BY KidParent, AboveUnfold

\* The scope of a variable is the node it stands in, and no two variables of
\* one scope are above each other.
LEMMA VariableScope ==
  ASSUME prog \in Programs, NEW d \in Variables
  PROVE  /\ ScopeOf(d) = Parent(d) /\ ScopeOf(d) \in ScopeNodes
         /\ ScopeOf(d) \in Above[d]
         /\ \A t \in Above[d] \intersect ScopeNodes : t <= ScopeOf(d)
<1>1. d \in DOMAIN prog /\ prog[d].kind \in Variable
  BY DEF Variables
<1>2. d # Root
  BY <1>1, ProgramType DEF Variable
<1>3. Parent(d) \in DOMAIN prog /\ Above[d] = {Parent(d)} \union Above[Parent(d)]
  BY <1>1, <1>2, ParentType, AboveUnfold
<1>4. Parent(d) \in ScopeNodes
  <2>1. PICK k \in DOMAIN prog[Parent(d)].kids : prog[Parent(d)].kids[k] = d
    BY <1>1, <1>2, ParentType
  <2>2. d # Null
    BY <1>1, ProgramType
  <2> QED BY <1>1, <1>3, <2>1, <2>2, TreeType DEF ScopeNodes
<1>5. \A t \in Above[d] \intersect ScopeNodes : t <= Parent(d)
  <2> SUFFICES ASSUME NEW t \in Above[d] PROVE t <= Parent(d)
    OBVIOUS
  <2>1. CASE t = Parent(d)
    BY <1>3, <2>1, ProgramType
  <2>2. CASE t \in Above[Parent(d)]
    BY <1>3, <2>2, AboveLess, ProgramType
  <2> QED BY <1>3, <2>1, <2>2
<1>6. \A s \in Above[d] \intersect ScopeNodes :
        (\A t \in Above[d] \intersect ScopeNodes : t <= s) => s = Parent(d)
  <2> SUFFICES ASSUME NEW s \in Above[d] \intersect ScopeNodes,
                      \A t \in Above[d] \intersect ScopeNodes : t <= s
               PROVE  s = Parent(d)
    OBVIOUS
  <2>1. s <= Parent(d) /\ Parent(d) <= s
    BY <1>3, <1>4, <1>5
  <2> QED BY <1>3, <2>1, ProgramType DEF ScopeNodes
<1> QED BY <1>3, <1>4, <1>5, <1>6 DEF ScopeOf

LEMMA NestedElsewhere ==
  ASSUME prog \in Programs, NEW d \in Variables, NEW e \in Variables, d \in Above[e]
  PROVE  ScopeOf(e) # ScopeOf(d)
<1>1. d \in DOMAIN prog /\ e \in DOMAIN prog /\ e # Root /\ prog[d].kind \in Variable
  BY ProgramType DEF Variables, Variable
<1>2. Above[e] = {Parent(e)} \union Above[Parent(e)] /\ Parent(e) \in DOMAIN prog
  BY <1>1, AboveUnfold, ParentType
<1>3. d # Parent(e)
  BY <1>1, VariableScope DEF ScopeNodes, ScopedKinds, Variable
<1>4. Parent(e) > d
  BY <1>2, <1>3, AboveLess
<1>5. d > ScopeOf(d) /\ ScopeOf(d) \in DOMAIN prog
  BY <1>1, VariableScope, AboveLess
<1> QED BY <1>1, <1>2, <1>4, <1>5, VariableScope, ProgramType

-----------------------------------------------------------------------------
(* The walk.  Scopes and variables are left again by a visit of their own, *)
(* which stands in `todo` to the right of all that is below them.          *)

Visit == [op : {"begin", "end"}, node : DOMAIN prog \union {Null}, size : Nat]
Bracketed == ScopeNodes \union Variables

\* What is to the left of the end of a node is below it, and what is below a
\* node that is being visited is to the left of its end.
WalkInv ==
  /\ prog \in Programs
  /\ todo \in Seq(Visit)
  /\ \A i \in DOMAIN todo : todo[i].op = "end" => todo[i].node \in Bracketed
  /\ \A i, j \in DOMAIN todo :
       i < j /\ todo[j].op = "end" /\ todo[i].node # Null => todo[j].node \in Above[todo[i].node]
  /\ \A i \in DOMAIN todo : todo[i].node # Null =>
       \A q \in Above[todo[i].node] \intersect Bracketed :
         \E j \in DOMAIN todo : i < j /\ todo[j].op = "end" /\ todo[j].node = q
  /\ \A i \in DOMAIN todo : todo[i].node = Null =>
       \E j \in DOMAIN todo : i < j /\ todo[j].op = "end" /\ todo[j].node = Root

\* What a visit puts in front of the rest: the kids, and the end of the node.
IsFront(f, n) ==
  \/ f = <<>>
  \/ /\ n \in DOMAIN prog
     /\ f = Visits(prog[n].kids) /\ n \notin Bracketed
  \/ /\ n \in DOMAIN prog /\ n \in Bracketed
     /\ \E size \in Nat : f = Visits(prog[n].kids) \o <<End(n, size)>>

LEMMA KidsType ==
  ASSUME prog \in Programs, NEW n \in DOMAIN prog
  PROVE  /\ prog[n].kids \in Seq(Nat)
         /\ Visits(prog[n].kids) \in Seq(Visit)
         /\ Len(Visits(prog[n].kids)) = Len(prog[n].kids)
         /\ \A k \in DOMAIN prog[n].kids : Visits(prog[n].kids)[k] = Begin(prog[n].kids[k])
<1>1. prog[n].kids \in Seq(Nat)
  BY ProgramType DEF Node
<1>2. \A k \in DOMAIN prog[n].kids : Begin(prog[n].kids[k]) \in Visit
  BY ProgramType DEF Begin, Visit
<1>3. Visits(prog[n].kids) = [k \in 1..Len(prog[n].kids) |-> Begin(prog[n].kids[k])]
  BY <1>1 DEF Visits
<1> QED BY <1>1, <1>2, <1>3

LEMMA FrontType ==
  ASSUME prog \in Programs, NEW n, NEW f, IsFront(f, n)
  PROVE  /\ f \in Seq(Visit) /\ Len(f) \in Nat /\ DOMAIN f = 1..Len(f)
         /\ f # <<>> => n \in DOMAIN prog
         /\ \A i \in DOMAIN f :
              \/ f[i].op = "begin" /\ f[i].node = Null
              \/ f[i].op = "begin" /\ f[i].node \in DOMAIN prog /\ f[i].node # Root
                 /\ f[i].node > n /\ Parent(f[i].node) = n
                 /\ Above[f[i].node] = {n} \union Above[n]
              \/ i = Len(f) /\ f[i].op = "end" /\ f[i].node = n /\ n \in Bracketed
         /\ f # <<>> /\ n \in Bracketed =>
              Len(f) \in DOMAIN f /\ f[Len(f)].op = "end" /\ f[Len(f)].node = n
<1>1. CASE f = <<>>
  BY <1>1
<1>2. CASE f # <<>>
  <2>1. n \in DOMAIN prog
    BY <1>2 DEF IsFront
  <2>2. PICK v : v = Visits(prog[n].kids)
    OBVIOUS
  <2>3. /\ v \in Seq(Visit) /\ Len(v) = Len(prog[n].kids) /\ Len(v) \in Nat
        /\ DOMAIN v = 1..Len(v) /\ DOMAIN prog[n].kids = 1..Len(v)
        /\ \A k \in 1..Len(v) : v[k] = Begin(prog[n].kids[k])
    BY <2>1, <2>2, KidsType
  <2>4. \A k \in 1..Len(v) :
           \/ v[k].op = "begin" /\ v[k].node = Null
           \/ v[k].op = "begin" /\ v[k].node \in DOMAIN prog /\ v[k].node # Root
              /\ v[k].node > n /\ Parent(v[k].node) = n
              /\ Above[v[k].node] = {n} \union Above[n]
    <3> TAKE k \in 1..Len(v)
    <3>1. v[k].op = "begin" /\ v[k].node = prog[n].kids[k] /\ k \in DOMAIN prog[n].kids
      <4>1. v[k] = [op |-> "begin", node |-> prog[n].kids[k], size |-> 0]
        BY <2>3 DEF Begin
      <4>2. v[k].op = "begin" /\ v[k].node = prog[n].kids[k]
        BY <4>1
      <4> QED BY <2>3, <4>2
    <3> QED BY <2>1, <3>1, KidParent, KidAbove
  <2>5. CASE f = v /\ n \notin Bracketed
    BY <2>1, <2>3, <2>4, <2>5
  <2>6. CASE n \in Bracketed /\ \E size \in Nat : f = v \o <<End(n, size)>>
    <3>1. PICK size \in Nat : f = v \o <<End(n, size)>>
      BY <2>6
    <3>2. PICK e : e = End(n, size)
      OBVIOUS
    <3>3. e \in Visit /\ e.op = "end" /\ e.node = n
      BY <2>1, <3>2 DEF End, Visit
    <3>4. f = Append(v, e)
      BY <2>3, <3>1, <3>2
    <3>5. /\ f \in Seq(Visit) /\ Len(f) = Len(v) + 1 /\ DOMAIN f = 1..(Len(v) + 1)
          /\ f[Len(v) + 1] = e /\ \A k \in 1..Len(v) : f[k] = v[k]
      BY <2>3, <3>3, <3>4
    <3>6. \A k \in 1..(Len(v) + 1) : k = Len(v) + 1 \/ k \in 1..Len(v)
      BY <2>3
    <3>7. f # <<>> /\ Len(f) \in Nat /\ Len(f) \in DOMAIN f /\ f[Len(f)] = e
      BY <2>3, <3>5
    <3>8. ASSUME NEW i \in DOMAIN f
          PROVE  \/ f[i].op = "begin" /\ f[i].node = Null
                 \/ f[i].op = "begin" /\ f[i].node \in DOMAIN prog /\ f[i].node # Root
                    /\ f[i].node > n /\ Parent(f[i].node) = n
                    /\ Above[f[i].node] = {n} \union Above[n]
                 \/ i = Len(f) /\ f[i].op = "end" /\ f[i].node = n /\ n \in Bracketed
      <4>1. CASE i = Len(v) + 1
        BY <2>6, <3>3, <3>5, <4>1
      <4>2. CASE i \in 1..Len(v)
        <5>1. f[i] = v[i]
          BY <3>5, <4>2
        <5> QED BY <2>4, <4>2, <5>1
      <4> QED BY <3>5, <3>6, <4>1, <4>2
    <3> QED BY <2>1, <3>3, <3>5, <3>7, <3>8
  <2> QED BY <1>2, <2>2, <2>5, <2>6 DEF IsFront
<1> QED BY <1>1, <1>2

\* Where the visits are after a step.
LEMMA Shift ==
  ASSUME NEW V, NEW t \in Seq(V), t # <<>>, NEW f \in Seq(V), NEW u, u = f \o Tail(t),
         NEW K, K = Len(f)
  PROVE  /\ u \in Seq(V) /\ K \in Nat /\ Len(t) \in Nat
         /\ DOMAIN f = 1..K /\ DOMAIN t = 1..Len(t) /\ 1 \in DOMAIN t /\ Head(t) = t[1]
         /\ \A i \in DOMAIN u : i \in Nat /\ (i \in 1..K \/ i - K + 1 \in DOMAIN t)
         /\ \A i \in 1..K : i \in DOMAIN u /\ u[i] = f[i]
         /\ \A i \in DOMAIN u : i \notin 1..K => u[i] = t[i - K + 1] /\ i > K
         /\ \A j \in DOMAIN t : j > 1 => \E i \in DOMAIN u : i = j + K - 1 /\ i > K /\ u[i] = t[j]
<1>1. /\ K \in Nat /\ Len(t) \in Nat /\ Len(t) >= 1 /\ DOMAIN f = 1..K /\ DOMAIN t = 1..Len(t)
      /\ Head(t) = t[1]
  OBVIOUS
<1>2. PICK r : r = Tail(t)
  OBVIOUS
<1>3. /\ r \in Seq(V) /\ Len(r) = Len(t) - 1
      /\ \A i \in 1..(Len(t) - 1) : r[i] = t[i + 1]
  BY <1>1, <1>2
<1>4. u \in Seq(V) /\ Len(u) = K + Len(t) - 1
  BY <1>1, <1>2, <1>3
<1>5. \A i \in 1..K : u[i] = f[i]
  BY <1>1, <1>2, <1>3
<1>6. \A i \in 1..(K + Len(t) - 1) : i \notin 1..K => u[i] = r[i - K]
  BY <1>1, <1>2, <1>3
<1>7. DOMAIN u = 1..(K + Len(t) - 1)
  BY <1>4
<1>8. \A i \in DOMAIN u : i \notin 1..K => u[i] = t[i - K + 1] /\ i > K
  <2> SUFFICES ASSUME NEW i \in DOMAIN u, i \notin 1..K PROVE u[i] = t[i - K + 1] /\ i > K
    OBVIOUS
  <2>1. i \in Nat /\ i > K /\ i - K \in 1..(Len(t) - 1)
    BY <1>1, <1>7
  <2>2. u[i] = r[i - K]
    BY <1>6, <1>7
  <2> QED BY <1>3, <2>1, <2>2
<1>9. \A j \in DOMAIN t : j > 1 => \E i \in DOMAIN u : i = j + K - 1 /\ i > K /\ u[i] = t[j]
  <2> SUFFICES ASSUME NEW j \in DOMAIN t, j > 1
               PROVE  j + K - 1 \in DOMAIN u /\ u[j + K - 1] = t[j] /\ j + K - 1 > K
    OBVIOUS
  <2>1. j + K - 1 \in DOMAIN u /\ j + K - 1 > K /\ (j + K - 1) - K + 1 = j
    BY <1>1, <1>7
  <2>2. j + K - 1 \notin 1..K
    BY <1>1, <2>1
  <2>3. u[j + K - 1] = t[(j + K - 1) - K + 1]
    BY <1>8, <2>1, <2>2
  <2> QED BY <2>1, <2>3
<1>10. \A i \in DOMAIN u : i \in Nat /\ (i \in 1..K \/ i - K + 1 \in DOMAIN t)
  BY <1>1, <1>7
<1>11. \A i \in 1..K : i \in DOMAIN u
  BY <1>1, <1>7
<1>12. 1 \in DOMAIN t
  BY <1>1
<1>13. u \in Seq(V)
  BY <1>4
<1> QED BY <1>1, <1>5, <1>8, <1>9, <1>10, <1>11, <1>12, <1>13

LEMMA TreeStays ==
  ASSUME prog' = prog
  PROVE  /\ Above' = Above /\ ScopeNodes' = ScopeNodes /\ Variables' = Variables
         /\ Bracketed' = Bracketed /\ Visit' = Visit
         /\ \A n : Parent(n)' = Parent(n)
<1>1. \A n : Parent(n)' = Parent(n)
  BY DEF Parent
<1>2. Above' = Above
  BY DEF Above, Parent
<1> QED BY <1>1, <1>2 DEF ScopeNodes, Variables, Bracketed, Visit

\* A step that replaces the first visit keeps the order of the walk.
LEMMA WalkStep ==
  ASSUME WalkInv, prog' = prog, todo # <<>>, NEW n, n = Head(todo).node,
         NEW f, IsFront(f, n), todo' = f \o Tail(todo)
  PROVE  WalkInv'
<1>0. prog \in Programs /\ todo \in Seq(Visit)
  BY DEF WalkInv
<1>1. PICK K : K = Len(f)
  OBVIOUS
<1>2. /\ f \in Seq(Visit) /\ K \in Nat /\ DOMAIN f = 1..K
      /\ f # <<>> => n \in DOMAIN prog /\ K \in 1..K
      /\ \A i \in 1..K :
           \/ f[i].op = "begin" /\ f[i].node = Null
           \/ f[i].op = "begin" /\ f[i].node \in DOMAIN prog
              /\ Above[f[i].node] = {n} \union Above[n]
           \/ i = K /\ f[i].op = "end" /\ f[i].node = n /\ n \in Bracketed
      /\ f # <<>> /\ n \in Bracketed => f[K].op = "end" /\ f[K].node = n
  <2>1. /\ f \in Seq(Visit) /\ K \in Nat /\ DOMAIN f = 1..K
        /\ f # <<>> => n \in DOMAIN prog
        /\ \A i \in DOMAIN f :
             \/ f[i].op = "begin" /\ f[i].node = Null
             \/ f[i].op = "begin" /\ f[i].node \in DOMAIN prog
                /\ Above[f[i].node] = {n} \union Above[n]
             \/ i = K /\ f[i].op = "end" /\ f[i].node = n /\ n \in Bracketed
        /\ f # <<>> /\ n \in Bracketed => f[K].op = "end" /\ f[K].node = n
    BY <1>0, <1>1, FrontType
  <2>2. f # <<>> => K \in 1..K
    BY <1>1, <2>1
  <2> QED BY <2>1, <2>2
<1>3. PICK t, u : t = todo /\ u = todo'
  OBVIOUS
<1>4. /\ u \in Seq(Visit)
      /\ DOMAIN t \subseteq Nat /\ 1 \in DOMAIN t /\ t[1].node = n
      /\ \A i \in DOMAIN u : i \in Nat /\ (i \in 1..K \/ i - K + 1 \in DOMAIN t)
      /\ \A i \in 1..K : i \in DOMAIN u /\ u[i] = f[i]
      /\ \A i \in DOMAIN u : i \notin 1..K => u[i] = t[i - K + 1] /\ i > K
      /\ \A j \in DOMAIN t : j > 1 => \E i \in DOMAIN u : i = j + K - 1 /\ i > K /\ u[i] = t[j]
  <2>1. t \in Seq(Visit) /\ t # <<>> /\ u = f \o Tail(t) /\ Head(t).node = n
    BY <1>0, <1>3
  <2>2. f \in Seq(Visit)
    BY <1>2
  <2>3. u \in Seq(Visit) /\ DOMAIN t = 1..Len(t) /\ 1 \in DOMAIN t /\ Head(t) = t[1]
    BY <1>1, <2>1, <2>2, Shift
  <2>4. \A i \in DOMAIN u : i \in Nat /\ (i \in 1..K \/ i - K + 1 \in DOMAIN t)
    BY <1>1, <2>1, <2>2, Shift
  <2>5. \A i \in 1..K : i \in DOMAIN u /\ u[i] = f[i]
    BY <1>1, <2>1, <2>2, Shift
  <2>6. \A i \in DOMAIN u : i \notin 1..K => u[i] = t[i - K + 1] /\ i > K
    BY <1>1, <2>1, <2>2, Shift
  <2>7. \A j \in DOMAIN t : j > 1 => \E i \in DOMAIN u : i = j + K - 1 /\ i > K /\ u[i] = t[j]
    BY <1>1, <2>1, <2>2, Shift
  <2>8. DOMAIN t \subseteq Nat
    BY <2>3
  <2> QED BY <2>1, <2>3, <2>4, <2>5, <2>6, <2>7, <2>8
<1>5. /\ \A i \in DOMAIN t : t[i].op = "end" => t[i].node \in Bracketed
      /\ \A i, j \in DOMAIN t :
           i < j /\ t[j].op = "end" /\ t[i].node # Null => t[j].node \in Above[t[i].node]
      /\ \A i \in DOMAIN t : t[i].node # Null =>
           \A q \in Above[t[i].node] \intersect Bracketed :
             \E j \in DOMAIN t : i < j /\ t[j].op = "end" /\ t[j].node = q
      /\ \A i \in DOMAIN t : t[i].node = Null =>
           \E j \in DOMAIN t : i < j /\ t[j].op = "end" /\ t[j].node = Root
  BY <1>3 DEF WalkInv
<1>6. f # <<>> => n # Null
  BY <1>0, <1>2, ProgramType
<1>7. \A i \in DOMAIN u : u[i].op = "end" => u[i].node \in Bracketed
  <2> SUFFICES ASSUME NEW i \in DOMAIN u, u[i].op = "end" PROVE u[i].node \in Bracketed
    OBVIOUS
  <2>1. CASE i \in 1..K
    <3>1. u[i] = f[i]
      BY <1>4, <2>1
    <3> QED BY <1>2, <2>1, <3>1
  <2>2. CASE i \notin 1..K
    <3>1. i - K + 1 \in DOMAIN t /\ u[i] = t[i - K + 1]
      BY <1>4, <2>2
    <3> QED BY <1>5, <3>1
  <2> QED BY <2>1, <2>2
<1>8. ASSUME NEW i \in DOMAIN u, NEW j \in DOMAIN u,
             i < j, u[j].op = "end", u[i].node # Null
      PROVE  u[j].node \in Above[u[i].node]
  <2>1. CASE i \in 1..K /\ j \in 1..K
    <3>0. u[j] = f[j] /\ u[i] = f[i]
      BY <1>4, <2>1
    <3>1. j = K /\ u[j].node = n
      BY <1>2, <1>8, <2>1, <3>0
    <3>2. i # K
      BY <1>2, <1>8, <2>1, <3>1
    <3>3. Above[u[i].node] = {n} \union Above[n]
      BY <1>2, <1>8, <2>1, <3>0, <3>2
    <3> QED BY <3>1, <3>3
  <2>2. CASE i \in 1..K /\ j \notin 1..K
    <3>1. j - K + 1 \in DOMAIN t /\ u[j] = t[j - K + 1] /\ 1 < j - K + 1
      BY <1>2, <1>4, <2>2
    <3>2. f # <<>>
      BY <1>1, <1>2, <2>2
    <3>3. u[j].node \in Above[n]
      BY <1>4, <1>5, <1>6, <1>8, <3>1, <3>2
    <3>4. Above[n] \subseteq Above[u[i].node]
      BY <1>2, <1>4, <1>8, <2>2
    <3> QED BY <3>3, <3>4
  <2>3. CASE i \notin 1..K
    <3>1. j \notin 1..K
      BY <1>2, <1>4, <1>8, <2>3
    <3>2. /\ j - K + 1 \in DOMAIN t /\ u[j] = t[j - K + 1]
          /\ i - K + 1 \in DOMAIN t /\ u[i] = t[i - K + 1]
          /\ i - K + 1 < j - K + 1
      BY <1>2, <1>4, <1>8, <2>3, <3>1
    <3> QED BY <1>5, <1>8, <3>2
  <2> QED BY <2>1, <2>2, <2>3
<1>9. ASSUME NEW q, NEW i \in DOMAIN u,
             \E j \in DOMAIN t : 1 < j /\ (i \notin 1..K => i - K + 1 < j)
                                 /\ t[j].op = "end" /\ t[j].node = q
      PROVE  \E j \in DOMAIN u : i < j /\ u[j].op = "end" /\ u[j].node = q
  <2>1. PICK j \in DOMAIN t : 1 < j /\ (i \notin 1..K => i - K + 1 < j)
                              /\ t[j].op = "end" /\ t[j].node = q
    BY <1>9
  <2>2. PICK k \in DOMAIN u : k = j + K - 1 /\ k > K /\ u[k] = t[j]
    BY <1>4, <2>1
  <2>3. i < k
    BY <1>2, <1>4, <2>1, <2>2
  <2> QED BY <2>1, <2>2, <2>3
<1>10. ASSUME NEW i \in DOMAIN u, u[i].node # Null,
              NEW q \in Above[u[i].node] \intersect Bracketed
       PROVE  \E j \in DOMAIN u : i < j /\ u[j].op = "end" /\ u[j].node = q
  <2>1. CASE i \in 1..K
    <3>0. f # <<>>
      BY <1>1, <1>2, <2>1
    <3>1. CASE q \in Above[n]
      <4>1. PICK j \in DOMAIN t : 1 < j /\ t[j].op = "end" /\ t[j].node = q
        BY <1>4, <1>5, <1>6, <1>10, <3>0, <3>1
      <4> QED BY <1>9, <2>1, <4>1
    <3>2. CASE q \notin Above[n]
      <4>1. q = n /\ i # K /\ n \in Bracketed
        BY <1>2, <1>4, <1>10, <2>1, <3>2
      <4>2. K \in DOMAIN u /\ i < K /\ u[K] = f[K]
        BY <1>2, <1>4, <2>1, <3>0, <4>1
      <4> QED BY <1>2, <3>0, <4>1, <4>2
    <3> QED BY <3>1, <3>2
  <2>2. CASE i \notin 1..K
    <3>1. i - K + 1 \in DOMAIN t /\ u[i] = t[i - K + 1] /\ 1 < i - K + 1
      BY <1>2, <1>4, <2>2
    <3>2. PICK j \in DOMAIN t : i - K + 1 < j /\ t[j].op = "end" /\ t[j].node = q
      BY <1>5, <1>10, <3>1
    <3>3. 1 < j
      BY <1>2, <1>4, <3>1, <3>2
    <3> QED BY <1>9, <3>2, <3>3
  <2> QED BY <2>1, <2>2
<1>11. ASSUME NEW i \in DOMAIN u, u[i].node = Null
       PROVE  \E j \in DOMAIN u : i < j /\ u[j].op = "end" /\ u[j].node = Root
  <2>1. CASE i \in 1..K
    <3>0. f # <<>> /\ n \in DOMAIN prog
      BY <1>1, <1>2, <2>1
    <3>1. CASE n = Root
      <4>1. n \in Bracketed
        BY <1>0, <3>1, ProgramType DEF Bracketed, ScopeNodes, ScopedKinds
      <4>2. K \in DOMAIN u /\ i < K /\ u[K] = f[K]
        BY <1>2, <1>4, <1>6, <1>11, <2>1, <3>0, <4>1
      <4> QED BY <1>2, <3>0, <3>1, <4>1, <4>2
    <3>2. CASE n # Root
      <4>1. Root \in Above[n] /\ Root \in Bracketed
        BY <1>0, <3>0, <3>2, RootAbove, ProgramType DEF Bracketed, ScopeNodes, ScopedKinds
      <4>2. PICK j \in DOMAIN t : 1 < j /\ t[j].op = "end" /\ t[j].node = Root
        BY <1>4, <1>5, <1>6, <3>0, <4>1
      <4> QED BY <1>9, <2>1, <4>2
    <3> QED BY <3>1, <3>2
  <2>2. CASE i \notin 1..K
    <3>1. i - K + 1 \in DOMAIN t /\ u[i] = t[i - K + 1] /\ 1 < i - K + 1
      BY <1>2, <1>4, <2>2
    <3>2. PICK j \in DOMAIN t : i - K + 1 < j /\ t[j].op = "end" /\ t[j].node = Root
      BY <1>5, <1>11, <3>1
    <3>3. 1 < j
      BY <1>2, <1>4, <3>1, <3>2
    <3> QED BY <1>9, <3>2, <3>3
  <2> QED BY <2>1, <2>2
<1>12. prog' \in Programs /\ todo' \in Seq(Visit')
  BY <1>0, <1>3, <1>4, TreeStays
<1>13. /\ \A i \in DOMAIN todo' : todo'[i].op = "end" => todo'[i].node \in Bracketed'
       /\ \A i, j \in DOMAIN todo' :
            i < j /\ todo'[j].op = "end" /\ todo'[i].node # Null
              => todo'[j].node \in Above'[todo'[i].node]
  BY <1>3, <1>7, <1>8, TreeStays
<1>14. \A i \in DOMAIN todo' : todo'[i].node # Null =>
         \A q \in Above'[todo'[i].node] \intersect Bracketed' :
           \E j \in DOMAIN todo' : i < j /\ todo'[j].op = "end" /\ todo'[j].node = q
  <2>1. Above' = Above /\ Bracketed' = Bracketed
    BY TreeStays
  <2> QED BY <1>3, <1>10, <2>1
<1>15. \A i \in DOMAIN todo' : todo'[i].node = Null =>
         \E j \in DOMAIN todo' : i < j /\ todo'[j].op = "end" /\ todo'[j].node = Root
  BY <1>3, <1>11
<1> QED BY <1>12, <1>13, <1>14, <1>15 DEF WalkInv

\* Which visits there are after such a step.
FrontAdded(f) ==
  /\ \A i \in DOMAIN todo' :
       \/ \E k \in DOMAIN f : todo'[i] = f[k]
       \/ \E j \in DOMAIN todo : j > 1 /\ todo'[i] = todo[j]
  /\ \A j \in DOMAIN todo : j > 1 => \E i \in DOMAIN todo' : todo'[i] = todo[j]
  /\ \A k \in DOMAIN f : \E i \in DOMAIN todo' : todo'[i] = f[k]

LEMMA Items ==
  ASSUME WalkInv, todo # <<>>, NEW n, n = Head(todo).node,
         NEW f, IsFront(f, n), todo' = f \o Tail(todo)
  PROVE  FrontAdded(f)
<1>0. prog \in Programs /\ todo \in Seq(Visit)
  BY DEF WalkInv
<1>1. PICK K : K = Len(f)
  OBVIOUS
<1>2. K \in Nat /\ DOMAIN f = 1..K
  BY <1>0, <1>1, FrontType
<1>13. f \in Seq(Visit)
  BY <1>0, FrontType
<1>3. PICK t, u : t = todo /\ u = todo'
  OBVIOUS
<1>4. t \in Seq(Visit) /\ t # <<>> /\ u = f \o Tail(t) /\ Head(t).node = n
  BY <1>0, <1>3
<1>5. DOMAIN t = 1..Len(t) /\ Len(t) \in Nat
  BY <1>4
<1>6. \A i \in DOMAIN u : i \in Nat /\ (i \in 1..K \/ i - K + 1 \in DOMAIN t)
  BY <1>1, <1>4, <1>13, Shift
<1>7. \A i \in 1..K : i \in DOMAIN u /\ u[i] = f[i]
  BY <1>1, <1>4, <1>13, Shift
<1>8. \A i \in DOMAIN u : i \notin 1..K => u[i] = t[i - K + 1] /\ i > K
  BY <1>1, <1>4, <1>13, Shift
<1>9. \A j \in DOMAIN t : j > 1 => \E i \in DOMAIN u : i = j + K - 1 /\ i > K /\ u[i] = t[j]
  BY <1>1, <1>4, <1>13, Shift
<1>10. \A i \in DOMAIN u :
         \/ \E k \in DOMAIN f : u[i] = f[k]
         \/ \E j \in DOMAIN t : j > 1 /\ u[i] = t[j]
  <2> SUFFICES ASSUME NEW i \in DOMAIN u, i \notin 1..K
               PROVE  \E j \in DOMAIN t : j > 1 /\ u[i] = t[j]
    BY <1>2, <1>7
  <2>1. i - K + 1 \in DOMAIN t /\ u[i] = t[i - K + 1] /\ i - K + 1 > 1
    BY <1>2, <1>6, <1>8
  <2> QED BY <2>1
<1>11. \A j \in DOMAIN t : j > 1 => \E i \in DOMAIN u : u[i] = t[j]
  BY <1>9
<1>12. \A k \in DOMAIN f : \E i \in DOMAIN u : u[i] = f[k]
  BY <1>2, <1>7
<1> QED BY <1>3, <1>10, <1>11, <1>12 DEF FrontAdded

\* The steps that only drop the first visit.
LEMMA Dropping ==
  ASSUME WalkInv, todo # <<>>, todo' = Tail(todo)
  PROVE  todo' = <<>> \o Tail(todo) /\ \A n : IsFront(<<>>, n)
<1>1. todo \in Seq(Visit)
  BY DEF WalkInv
<1>2. todo' = <<>> \o Tail(todo)
  BY <1>1
<1> QED BY <1>2 DEF IsFront

LEMMA HeadType ==
  ASSUME WalkInv, todo # <<>>
  PROVE  /\ 1 \in DOMAIN todo /\ Head(todo) = todo[1] /\ Head(todo) \in Visit
         /\ \A j \in DOMAIN todo : j \in Nat /\ (j = 1 \/ j > 1)
BY DEF WalkInv

-----------------------------------------------------------------------------
(* The current scope is the one that the node being visited is in.         *)

EndIn(q) == \E i \in DOMAIN todo : todo[i].op = "end" /\ todo[i].node = q

ScopesInv ==
  /\ scopes \in Seq(ScopeNodes)
  /\ \A j, k \in DOMAIN scopes : j < k => scopes[j] < scopes[k]
  /\ \A s \in ScopeNodes : (\E k \in DOMAIN scopes : scopes[k] = s) <=> EndIn(s)

\* The ends that are to come are those of the brackets around the first visit.
LEMMA EndsAbove ==
  ASSUME WalkInv, todo # <<>>, NEW n, n = Head(todo).node, n # Null, NEW q \in Bracketed
  PROVE  /\ EndIn(q) <=> q \in Above[n] \/ (q = n /\ Head(todo).op = "end")
         /\ n \in DOMAIN prog /\ n \notin Above[n]
         /\ \A j \in DOMAIN todo : j > 1 /\ todo[j].op = "end" => todo[j].node \in Above[n]
<1>1. 1 \in DOMAIN todo /\ Head(todo) = todo[1] /\ n \in DOMAIN prog /\ prog \in Programs
  BY HeadType DEF Visit, WalkInv
<1>2. n \notin Above[n]
  <2>1. ~(n > n)
    BY <1>1, ProgramType
  <2> QED BY <1>1, <2>1, AboveLess
<1>3. \A j \in DOMAIN todo : j > 1 /\ todo[j].op = "end" => todo[j].node \in Above[n]
  <2> SUFFICES ASSUME NEW j \in DOMAIN todo, j > 1, todo[j].op = "end"
               PROVE  todo[j].node \in Above[n]
    OBVIOUS
  <2>1. 1 < j
    BY HeadType
  <2> QED BY <1>1, <2>1 DEF WalkInv
<1>4. q \in Above[n] => EndIn(q)
  BY <1>1 DEF WalkInv, EndIn
<1>5. EndIn(q) => q \in Above[n] \/ (q = n /\ Head(todo).op = "end")
  BY <1>1, <1>3, HeadType DEF EndIn
<1>6. q = n /\ Head(todo).op = "end" => EndIn(q)
  BY <1>1 DEF EndIn
<1> QED BY <1>1, <1>2, <1>3, <1>4, <1>5, <1>6

LEMMA ScopesLast ==
  ASSUME WalkInv, ScopesInv, NEW s \in ScopeNodes, EndIn(s),
         \A r \in ScopeNodes : EndIn(r) => r <= s
  PROVE  scopes # <<>> /\ Len(scopes) \in DOMAIN scopes /\ scopes[Len(scopes)] = s
<1>1. PICK k \in DOMAIN scopes : scopes[k] = s
  BY DEF ScopesInv
<1>2. /\ scopes \in Seq(ScopeNodes) /\ Len(scopes) \in Nat /\ DOMAIN scopes = 1..Len(scopes)
  BY DEF ScopesInv
<1>3. Len(scopes) \in DOMAIN scopes /\ scopes[Len(scopes)] \in ScopeNodes
  BY <1>1, <1>2
<1>4. scopes[Len(scopes)] <= s
  BY <1>3 DEF ScopesInv
<1>5. ~(k < Len(scopes))
  <2> SUFFICES ASSUME k < Len(scopes) PROVE FALSE
    OBVIOUS
  <2>1. s < scopes[Len(scopes)]
    BY <1>1, <1>3 DEF ScopesInv
  <2>2. s \in Nat /\ scopes[Len(scopes)] \in Nat
    BY <1>3, ProgramType DEF ScopeNodes, WalkInv
  <2> QED BY <1>4, <2>1, <2>2
<1> QED BY <1>1, <1>2, <1>3, <1>5

LEMMA CurrentScope ==
  ASSUME WalkInv, ScopesInv, todo # <<>>, NEW d, d = Head(todo).node, d \in Variables
  PROVE  scopes # <<>> /\ Scope = ScopeOf(d) /\ Scope \in ScopeNodes
<1>1. prog \in Programs /\ d # Null /\ d \notin ScopeNodes
  BY ProgramType DEF WalkInv, Variables, ScopeNodes, Variable, ScopedKinds
<1>2. \A s \in ScopeNodes : EndIn(s) <=> s \in Above[d]
  BY <1>1, EndsAbove DEF Bracketed
<1>3. \A r \in ScopeNodes : EndIn(r) => r <= ScopeOf(d)
  BY <1>1, <1>2, VariableScope
<1>4. ScopeOf(d) \in ScopeNodes /\ EndIn(ScopeOf(d))
  BY <1>1, <1>2, VariableScope
<1> QED BY <1>3, <1>4, ScopesLast DEF Scope

\* A step that neither enters nor leaves a scope.
LEMMA ScopesKept ==
  ASSUME WalkInv, ScopesInv, prog' = prog, scopes' = scopes, todo # <<>>,
         NEW n, n = Head(todo).node, n \notin ScopeNodes,
         NEW f, IsFront(f, n), todo' = f \o Tail(todo)
  PROVE  ScopesInv'
<1>0. prog \in Programs
  BY DEF WalkInv
<1>1. \A k \in DOMAIN f : f[k].op = "end" => f[k].node \notin ScopeNodes
  <2> TAKE k \in DOMAIN f
  <2> HAVE f[k].op = "end"
  <2>1. f[k].node = n
    BY <1>0, FrontType
  <2> QED BY <2>1
<1>2. ASSUME NEW s \in ScopeNodes
      PROVE  EndIn(s)' <=> EndIn(s)
  <2>1. EndIn(s) => EndIn(s)'
    <3> SUFFICES ASSUME EndIn(s) PROVE EndIn(s)'
      OBVIOUS
    <3>1. PICK j \in DOMAIN todo : todo[j].op = "end" /\ todo[j].node = s
      BY DEF EndIn
    <3>2. j > 1
      BY <3>1, HeadType
    <3>3. PICK i \in DOMAIN todo' : todo'[i] = todo[j]
      BY <3>2, Items DEF FrontAdded
    <3> QED BY <3>1, <3>3 DEF EndIn
  <2>2. EndIn(s)' => EndIn(s)
    <3> SUFFICES ASSUME EndIn(s)' PROVE EndIn(s)
      OBVIOUS
    <3>1. PICK i \in DOMAIN todo' : todo'[i].op = "end" /\ todo'[i].node = s
      BY DEF EndIn
    <3>2. \/ \E k \in DOMAIN f : todo'[i] = f[k]
          \/ \E j \in DOMAIN todo : j > 1 /\ todo'[i] = todo[j]
      BY Items DEF FrontAdded
    <3>3. ~ \E k \in DOMAIN f : todo'[i] = f[k]
      BY <1>1, <3>1
    <3> QED BY <3>1, <3>2, <3>3 DEF EndIn
  <2> QED BY <2>1, <2>2
<1> QED BY <1>2, TreeStays DEF ScopesInv

LEMMA ScopesAppend ==
  ASSUME NEW S, NEW s \in Seq(S), NEW x \in S
  PROVE  /\ Append(s, x) \in Seq(S) /\ Len(s) \in Nat /\ DOMAIN s = 1..Len(s)
         /\ DOMAIN Append(s, x) = 1..(Len(s) + 1)
         /\ \A k \in 1..Len(s) : Append(s, x)[k] = s[k]
         /\ Append(s, x)[Len(s) + 1] = x
OBVIOUS

LEMMA EnterScopeScopes ==
  ASSUME WalkInv, ScopesInv, EnterScope
  PROVE  ScopesInv'
<1>0. PICK n : n = Head(todo).node
  OBVIOUS
<1>1. /\ prog' = prog /\ todo # <<>> /\ n # Null /\ n \in ScopeNodes /\ Head(todo).op = "begin"
      /\ scopes' = Append(scopes, n) /\ prog \in Programs /\ n \in DOMAIN prog
      /\ todo' = Visits(prog[n].kids) \o <<End(n, 0)>> \o Tail(todo)
  <2>1. Head(todo) \in Visit /\ Head(todo).node # Null /\ prog' = prog /\ todo # <<>>
    BY HeadType DEF EnterScope, Beginning, WalkInv
  <2> QED BY <1>0, <2>1 DEF EnterScope, Beginning, This, ScopeNodes, WalkInv, Visit
<1>2. PICK f : f = Visits(prog[n].kids) \o <<End(n, 0)>> /\ IsFront(f, n)
  BY <1>1 DEF IsFront, Bracketed
<1>3. todo' = f \o Tail(todo)
  BY <1>1, <1>2
<1>4. \A s \in ScopeNodes : EndIn(s) => s \in Above[n] /\ s < n
  <2> TAKE s \in ScopeNodes
  <2> HAVE EndIn(s)
  <2>1. s \in Above[n]
    BY <1>0, <1>1, EndsAbove DEF Bracketed
  <2>2. n > s /\ s \in DOMAIN prog
    BY <1>1, <2>1, AboveLess
  <2> QED BY <1>1, <2>1, <2>2, ProgramType
<1>10. /\ \A i \in DOMAIN todo' :
            \/ \E k \in DOMAIN f : todo'[i] = f[k]
            \/ \E j \in DOMAIN todo : j > 1 /\ todo'[i] = todo[j]
       /\ \A j \in DOMAIN todo : j > 1 => \E i \in DOMAIN todo' : todo'[i] = todo[j]
       /\ \A k \in DOMAIN f : \E i \in DOMAIN todo' : todo'[i] = f[k]
  <2>1. todo # <<>> /\ n = Head(todo).node /\ IsFront(f, n)
    BY <1>0, <1>1, <1>2
  <2>2. FrontAdded(f)
    BY <1>3, <2>1, Items
  <2> QED BY <2>2 DEF FrontAdded
<1>5. ASSUME NEW s \in ScopeNodes
      PROVE  EndIn(s)' <=> EndIn(s) \/ s = n
  <2>1. EndIn(s) => EndIn(s)'
    <3> SUFFICES ASSUME EndIn(s) PROVE EndIn(s)'
      OBVIOUS
    <3>1. PICK j \in DOMAIN todo : todo[j].op = "end" /\ todo[j].node = s
      BY DEF EndIn
    <3>2. j > 1
      BY <1>1, <3>1, HeadType
    <3>3. PICK i \in DOMAIN todo' : todo'[i] = todo[j]
      BY <1>10, <3>2
    <3> QED BY <3>1, <3>3 DEF EndIn
  <2>2. EndIn(n)'
    <3>1. f # <<>>
      BY <1>1, <1>2, KidsType DEF End
    <3>2. n \in Bracketed
      BY <1>1 DEF Bracketed
    <3>3. Len(f) \in DOMAIN f /\ f[Len(f)].op = "end" /\ f[Len(f)].node = n
      BY <1>1, <1>2, <3>1, <3>2, FrontType
    <3> QED BY <1>10, <3>3 DEF EndIn
  <2>3. EndIn(s)' => EndIn(s) \/ s = n
    <3> SUFFICES ASSUME EndIn(s)', s # n PROVE EndIn(s)
      OBVIOUS
    <3>1. PICK i \in DOMAIN todo' : todo'[i].op = "end" /\ todo'[i].node = s
      BY DEF EndIn
    <3>2. \A k \in DOMAIN f : f[k].op = "end" => f[k].node = n
      <4>1. \A k \in DOMAIN f :
              \/ f[k].op = "begin"
              \/ k = Len(f) /\ f[k].op = "end" /\ f[k].node = n /\ n \in Bracketed
        <5>1. prog \in Programs /\ IsFront(f, n)
          BY <1>1, <1>2
        <5> QED BY <5>1, FrontType
      <4> QED BY <4>1
    <3>3. \/ \E k \in DOMAIN f : todo'[i] = f[k]
          \/ \E j \in DOMAIN todo : j > 1 /\ todo'[i] = todo[j]
      BY <1>10
    <3>4. ~ \E k \in DOMAIN f : todo'[i] = f[k]
      BY <3>1, <3>2
    <3> QED BY <3>1, <3>3, <3>4 DEF EndIn
  <2> QED BY <2>1, <2>2, <2>3
<1>6. PICK L, r : L = Len(scopes) /\ r = scopes'
  OBVIOUS
<1>7. /\ r \in Seq(ScopeNodes) /\ L \in Nat /\ DOMAIN scopes = 1..L /\ DOMAIN r = 1..(L + 1)
      /\ \A k \in 1..L : r[k] = scopes[k]
      /\ r[L + 1] = n
  BY <1>1, <1>6, ScopesAppend DEF ScopesInv
<1>8. ASSUME NEW j \in DOMAIN r, NEW k \in DOMAIN r, j < k
      PROVE  r[j] < r[k]
  <2>1. j \in 1..L /\ r[j] = scopes[j]
    BY <1>7, <1>8
  <2>2. CASE k = L + 1
    <3>1. scopes[j] \in ScopeNodes /\ EndIn(scopes[j])
      BY <1>7, <2>1 DEF ScopesInv
    <3> QED BY <1>4, <1>7, <2>1, <2>2, <3>1
  <2>3. CASE k \in 1..L
    BY <1>7, <1>8, <2>1, <2>3 DEF ScopesInv
  <2> QED BY <1>7, <2>2, <2>3
<1>9. ASSUME NEW s \in ScopeNodes
      PROVE  (\E k \in DOMAIN r : r[k] = s) <=> EndIn(s) \/ s = n
  <2>1. (\E k \in DOMAIN scopes : scopes[k] = s) <=> EndIn(s)
    BY DEF ScopesInv
  <2>2. (\E k \in DOMAIN r : r[k] = s) => EndIn(s) \/ s = n
    <3> SUFFICES ASSUME NEW k \in DOMAIN r, r[k] = s PROVE EndIn(s) \/ s = n
      OBVIOUS
    <3>1. k = L + 1 \/ k \in 1..L
      BY <1>7
    <3> QED BY <1>7, <2>1, <3>1
  <2>3. L + 1 \in 1..(L + 1) /\ \A k \in 1..L : k \in 1..(L + 1)
    BY <1>7
  <2> QED BY <1>7, <2>1, <2>2, <2>3
<1> QED BY <1>1, <1>5, <1>6, <1>7, <1>8, <1>9, TreeStays DEF ScopesInv

LEMMA LeaveScopeScopes ==
  ASSUME WalkInv, ScopesInv, LeaveScope
  PROVE  ScopesInv'
<1>0. PICK n : n = Head(todo).node
  OBVIOUS
<1>1. /\ prog' = prog /\ todo # <<>> /\ Head(todo).op = "end" /\ todo' = Tail(todo)
      /\ prog \in Programs /\ n \in ScopeNodes /\ n # Null /\ n \in DOMAIN prog
  <2>1. Head(todo).op = "end" /\ prog[n].kind \in ScopedKinds /\ prog' = prog /\ todo # <<>>
        /\ todo' = Tail(todo)
    BY <1>0 DEF LeaveScope, Ending
  <2>2. n \in Bracketed /\ prog \in Programs
    BY <1>0, <2>1, HeadType DEF WalkInv
  <2>3. n \in DOMAIN prog
    BY <2>2 DEF Bracketed, ScopeNodes, Variables
  <2> QED BY <2>1, <2>2, <2>3, ProgramType DEF ScopeNodes
<1>2. \A s \in ScopeNodes : EndIn(s) <=> s \in Above[n] \/ s = n
  BY <1>0, <1>1, EndsAbove DEF Bracketed
<1>3. \A s \in ScopeNodes : s \in Above[n] => n > s /\ s \in Nat /\ n \in Nat /\ s # n
  <2> TAKE s \in ScopeNodes
  <2> HAVE s \in Above[n]
  <2>1. n > s /\ s \in DOMAIN prog
    BY <1>1, AboveLess
  <2> QED BY <1>1, <2>1, ProgramType
<1>4. scopes # <<>> /\ Len(scopes) \in DOMAIN scopes /\ scopes[Len(scopes)] = n
  <2>1. \A r \in ScopeNodes : EndIn(r) => r <= n
    <3> TAKE r \in ScopeNodes
    <3> HAVE EndIn(r)
    <3>1. CASE r = n
      BY <1>1, <3>1, ProgramType
    <3>2. CASE r \in Above[n]
      BY <1>3, <3>2
    <3> QED BY <1>2, <3>1, <3>2
  <2> QED BY <1>1, <1>2, <2>1, ScopesLast
<1>5. ASSUME NEW s \in ScopeNodes
      PROVE  EndIn(s)' <=> s \in Above[n]
  <2>0. /\ \A i \in DOMAIN todo' : \E j \in DOMAIN todo : j > 1 /\ todo'[i] = todo[j]
        /\ \A j \in DOMAIN todo : j > 1 => \E i \in DOMAIN todo' : todo'[i] = todo[j]
    <3>1. todo' = <<>> \o Tail(todo) /\ IsFront(<<>>, n)
      BY <1>1, Dropping
    <3>2. DOMAIN <<>> = {}
      OBVIOUS
    <3> QED BY <1>0, <1>1, <3>1, <3>2, Items DEF FrontAdded
  <2>1. s \in Above[n] => EndIn(s)'
    <3> SUFFICES ASSUME s \in Above[n] PROVE EndIn(s)'
      OBVIOUS
    <3>1. PICK j \in DOMAIN todo : todo[j].op = "end" /\ todo[j].node = s
      BY <1>2 DEF EndIn
    <3>2. j > 1
      BY <1>0, <1>3, <3>1, HeadType, <1>1
    <3>3. PICK i \in DOMAIN todo' : todo'[i] = todo[j]
      BY <2>0, <3>2
    <3> QED BY <3>1, <3>3 DEF EndIn
  <2>2. EndIn(s)' => s \in Above[n]
    <3> SUFFICES ASSUME EndIn(s)' PROVE s \in Above[n]
      OBVIOUS
    <3>1. PICK i \in DOMAIN todo' : todo'[i].op = "end" /\ todo'[i].node = s
      BY DEF EndIn
    <3>2. PICK j \in DOMAIN todo : j > 1 /\ todo'[i] = todo[j]
      BY <2>0
    <3> QED BY <1>0, <1>1, <3>1, <3>2, EndsAbove DEF Bracketed
  <2> QED BY <2>1, <2>2
<1>6. PICK L, r : L = Len(scopes) /\ r = scopes'
  OBVIOUS
<1>7. /\ r \in Seq(ScopeNodes) /\ L \in Nat /\ L >= 1 /\ DOMAIN scopes = 1..L
      /\ DOMAIN r = 1..(L - 1) /\ \A k \in 1..(L - 1) : r[k] = scopes[k]
  <2>1. scopes \in Seq(ScopeNodes) /\ scopes' = SubSeq(scopes, 1, L - 1)
    BY <1>4, <1>6 DEF LeaveScope, ScopesInv
  <2>2. L \in Nat /\ L >= 1 /\ DOMAIN scopes = 1..L
    BY <1>4, <1>6, <2>1
  <2> QED BY <1>6, <2>1, <2>2
<1>8. \A j, k \in DOMAIN r : j < k => r[j] < r[k]
  <2> TAKE j, k \in DOMAIN r
  <2>1. j \in DOMAIN scopes /\ k \in DOMAIN scopes /\ r[j] = scopes[j] /\ r[k] = scopes[k]
    BY <1>7
  <2> QED BY <2>1 DEF ScopesInv
<1>9. ASSUME NEW s \in ScopeNodes
      PROVE  (\E k \in DOMAIN r : r[k] = s) <=> s \in Above[n]
  <2>1. (\E k \in DOMAIN r : r[k] = s) => s \in Above[n]
    <3> SUFFICES ASSUME NEW k \in DOMAIN r, r[k] = s PROVE s \in Above[n]
      OBVIOUS
    <3>1. k \in DOMAIN scopes /\ scopes[k] = s /\ k < L /\ L \in DOMAIN scopes
      BY <1>7
    <3>2. EndIn(s) /\ s < n
      BY <1>4, <1>6, <3>1 DEF ScopesInv
    <3>3. s # n
      BY <1>1, <3>2, ProgramType
    <3> QED BY <1>2, <3>2, <3>3
  <2>2. s \in Above[n] => \E k \in DOMAIN r : r[k] = s
    <3> SUFFICES ASSUME s \in Above[n] PROVE \E k \in DOMAIN r : r[k] = s
      OBVIOUS
    <3>1. PICK k \in DOMAIN scopes : scopes[k] = s
      BY <1>2 DEF ScopesInv
    <3>2. k # L
      BY <1>3, <1>4, <1>6, <3>1
    <3>3. k \in 1..(L - 1)
      BY <1>7, <3>2
    <3> QED BY <1>7, <3>1, <3>3
  <2> QED BY <2>1, <2>2
<1> QED BY <1>1, <1>5, <1>6, <1>7, <1>8, <1>9, TreeStays DEF ScopesInv

-----------------------------------------------------------------------------
(* The data.                                                               *)

FileDecls == {n \in DOMAIN prog : prog[n].kind \in {"Func", "TypeDecl"}}

\* The declarations of a kind are declarations.
LEMMA OfKindType ==
  ASSUME prog \in Programs, NEW x \in Name, NEW kind \in {"Func", "TypeDecl"}
  PROVE  OfKind(prog, kind, x) \in Seq(FileDecls)
<1> DEFINE kids == prog[Root].kids
           L == Len(kids)
           Fits(n) == n # Null /\ prog[n].kind = kind /\ prog[n].name = x
           Value(g, k) == IF k = 0 THEN <<>>
                          ELSE IF Fits(kids[k]) THEN Append(g[k - 1], kids[k]) ELSE g[k - 1]
           Def(m, g) == g = [k \in 0..m |-> Value(g, k)]
<1>1. kids \in Seq(Nat) /\ L \in Nat /\ DOMAIN kids = 1..L
  BY KidsType, ProgramType
<1>2. \A k \in 1..L : Fits(kids[k]) => kids[k] \in FileDecls
  BY <1>1, ProgramType DEF FileDecls
<1> HIDE DEF kids
<1>3. \E g : Def(0, g)
  <2> DEFINE g == [k \in 0..0 |-> <<>>]
  <2>1. \A k \in 0..0 : g[k] = Value(g, k)
    OBVIOUS
  <2>2. g = [k \in 0..0 |-> Value(g, k)]
    BY <2>1
  <2> QED BY <2>2
<1>4. ASSUME NEW m \in Nat, NEW g, Def(m, g)
      PROVE  \E h : Def(m + 1, h)
  <2> DEFINE next == IF Fits(kids[m + 1]) THEN Append(g[m], kids[m + 1]) ELSE g[m]
             h == [k \in 0..(m + 1) |-> IF k = m + 1 THEN next ELSE g[k]]
  <2>1. \A k \in 0..m : g[k] = Value(g, k)
    BY <1>4
  <2>2. \A k \in 0..(m + 1) : h[k] = Value(h, k)
    <3> TAKE k \in 0..(m + 1)
    <3>1. CASE k = m + 1
      <4>1. k # 0 /\ k - 1 = m /\ m \in 0..(m + 1) /\ m # m + 1
        BY <3>1
      <4>2. h[k] = next /\ h[k - 1] = g[m]
        BY <3>1, <4>1
      <4> QED BY <3>1, <4>1, <4>2
    <3>2. CASE k = 0
      BY <2>1, <3>2
    <3>3. CASE k # m + 1 /\ k # 0
      <4>1. k \in 0..m /\ k - 1 \in 0..(m + 1) /\ k - 1 # m + 1
        BY <3>3
      <4>2. h[k] = g[k] /\ h[k - 1] = g[k - 1]
        BY <3>3, <4>1
      <4> HIDE DEF h
      <4> QED BY <2>1, <3>3, <4>1, <4>2
    <3> QED BY <3>1, <3>2, <3>3
  <2>3. h = [k \in 0..(m + 1) |-> Value(h, k)]
    BY <2>2
  <2> QED BY <2>3
<1> HIDE DEF Def
<1>5. \E g : Def(L, g)
  <2> SUFFICES ASSUME ~ \E g : Def(L, g) PROVE FALSE
    OBVIOUS
  <2> DEFINE T == {m \in Nat : ~ \E g : Def(m, g)}
  <2>1. PICK m \in T : \A a \in T : ~(a < m)
    BY <1>1, LeastNumber
  <2>2. m \in Nat /\ m # 0
    BY <1>3, <2>1
  <2>3. m - 1 \in Nat /\ m - 1 < m /\ (m - 1) + 1 = m
    BY <2>2
  <2>4. \E g : Def(m - 1, g)
    BY <2>1, <2>3
  <2>5. \E h : Def((m - 1) + 1, h)
    BY <1>4, <2>3, <2>4
  <2> QED BY <2>1, <2>3, <2>5
<1>6. OfKind(prog, kind, x) = (CHOOSE g : Def(L, g))[L]
  BY DEF OfKind, Def, kids
<1>7. PICK g : Def(L, g) /\ OfKind(prog, kind, x) = g[L]
  BY <1>5, <1>6
<1>8. /\ g[0] = <<>>
      /\ \A k \in 1..L : g[k] = IF Fits(kids[k]) THEN Append(g[k - 1], kids[k]) ELSE g[k - 1]
  <2>1. \A k \in 0..L : g[k] = Value(g, k)
    BY <1>7 DEF Def
  <2>2. 0 \in 0..L /\ \A k \in 1..L : k \in 0..L /\ k # 0
    BY <1>1
  <2> QED BY <2>1, <2>2
<1>9. \A k \in 0..L : g[k] \in Seq(FileDecls)
  <2> DEFINE T == {k \in Nat : k \in 0..L /\ g[k] \notin Seq(FileDecls)}
  <2> SUFFICES ASSUME T # {} PROVE FALSE
    BY <1>1
  <2>1. PICK k \in T : \A a \in T : ~(a < k)
    <3> HIDE DEF T
    <3>1. T \subseteq Nat
      BY DEF T
    <3> QED BY <3>1, LeastNumber
  <2>2. k # 0
    <3>1. g[0] \in Seq(FileDecls)
      BY <1>8
    <3> QED BY <2>1, <3>1
  <2>3. k \in 1..L /\ k - 1 \in 0..L /\ k - 1 < k
    BY <1>1, <2>1, <2>2
  <2>4. g[k - 1] \in Seq(FileDecls)
    BY <2>1, <2>3
  <2>5. g[k] \in Seq(FileDecls)
    <3>1. g[k] = IF Fits(kids[k]) THEN Append(g[k - 1], kids[k]) ELSE g[k - 1]
      BY <1>8, <2>3
    <3>2. Fits(kids[k]) => kids[k] \in FileDecls
      BY <1>2, <2>3
    <3> HIDE DEF Fits
    <3> QED BY <2>4, <3>1, <3>2
  <2> QED BY <2>1, <2>5
<1> QED BY <1>1, <1>7, <1>9

\* The table of the file scope has functions and type declarations at first.
LEMMA DeclaredBeforeType ==
  ASSUME prog \in Programs, NEW x \in Name
  PROVE  DeclaredBefore(prog, x) \in Seq(FileDecls)
<1>1. PICK types : types = OfKind(prog, "TypeDecl", x)
  OBVIOUS
<1>2. types \in Seq(FileDecls) /\ OfKind(prog, "Func", x) \in Seq(FileDecls)
  BY <1>1, OfKindType
<1>3. types # <<>> => <<types[1]>> \in Seq(FileDecls)
  BY <1>2
<1> QED BY <1>1, <1>2, <1>3 DEF DeclaredBefore

-----------------------------------------------------------------------------
(* What the steps have in common: a step stops the pass, drops the first   *)
(* visit, or puts the visits of the kids in its place.                     *)

Stops == phase' # "check" /\ UNCHANGED <<prog, todo, scopes, table, hints, result, exprType>>

Drops == todo # <<>> /\ todo' = Tail(todo) /\ UNCHANGED <<prog, phase>>

\* The visits of all kids, and the end of the node if it has one.
IsOpened(f, n) ==
  /\ n \in DOMAIN prog
  /\ \/ f = Visits(prog[n].kids) /\ n \notin Bracketed
     \/ n \in Bracketed /\ \E size \in Nat : f = Visits(prog[n].kids) \o <<End(n, size)>>

Opens(f) ==
  /\ todo # <<>> /\ Head(todo).op = "begin"
  /\ IsOpened(f, Head(todo).node)
  /\ todo' = f \o Tail(todo)
  /\ UNCHANGED <<prog, phase, table, exprType, diags>>

LEMMA BeginType ==
  ASSUME WalkInv, NEW kinds, Beginning(kinds), NEW n, n = Head(todo).node
  PROVE  /\ todo # <<>> /\ n \in DOMAIN prog /\ n # Null /\ prog[n] \in Node
         /\ prog[n].kind \in kinds /\ Head(todo).op = "begin"
<1>1. todo # <<>> /\ n # Null /\ prog[n].kind \in kinds /\ Head(todo).op = "begin"
  BY DEF Beginning
<1>2. n \in DOMAIN prog
  BY <1>1, HeadType DEF Visit
<1> QED BY <1>1, <1>2, ProgramType DEF WalkInv

LEMMA EndType ==
  ASSUME WalkInv, NEW kinds, Ending(kinds), NEW n, n = Head(todo).node
  PROVE  /\ todo # <<>> /\ n \in DOMAIN prog /\ n # Null /\ prog[n] \in Node
         /\ prog[n].kind \in kinds /\ Head(todo).op = "end" /\ n \in Bracketed
<1>1. todo # <<>> /\ prog[n].kind \in kinds /\ Head(todo).op = "end"
  BY DEF Ending
<1>2. n \in Bracketed
  BY <1>1, HeadType DEF WalkInv
<1>3. n \in DOMAIN prog
  BY <1>2 DEF Bracketed, ScopeNodes, Variables
<1> QED BY <1>1, <1>2, <1>3, ProgramType DEF WalkInv

LEMMA EnterScopeOpens ==
  ASSUME WalkInv, EnterScope
  PROVE  \E f : Opens(f)
<1>0. PICK n : n = Head(todo).node
  OBVIOUS
<1>1. todo # <<>> /\ n \in DOMAIN prog /\ prog[n].kind \in ScopedKinds /\ Head(todo).op = "begin"
  BY <1>0, BeginType DEF EnterScope
<1>2. n \in Bracketed
  BY <1>1 DEF Bracketed, ScopeNodes
<1>3. PICK f : f = Visits(prog[n].kids) \o <<End(n, 0)>>
  OBVIOUS
<1>4. IsOpened(f, n)
  BY <1>1, <1>2, <1>3 DEF IsOpened
<1>5. todo' = f \o Tail(todo) /\ UNCHANGED <<prog, phase, table, exprType, diags>>
  BY <1>0, <1>3 DEF EnterScope, This
<1> QED BY <1>0, <1>1, <1>4, <1>5 DEF Opens

LEMMA VisitPartsOpens ==
  ASSUME WalkInv, VisitParts
  PROVE  \E f : Opens(f)
<1>0. PICK n : n = Head(todo).node
  OBVIOUS
<1>1. todo # <<>> /\ n \in DOMAIN prog /\ prog[n].kind = "Expr" /\ Head(todo).op = "begin"
  BY <1>0, BeginType DEF VisitParts
<1>2. n \notin Bracketed
  BY <1>1 DEF Bracketed, ScopeNodes, Variables, ScopedKinds, Variable
<1>3. IsOpened(Visits(prog[n].kids), n)
  BY <1>1, <1>2 DEF IsOpened
<1>4. todo' = Visits(prog[n].kids) \o Tail(todo) /\ UNCHANGED <<prog, phase, table, exprType, diags>>
  BY <1>0 DEF VisitParts, This
<1> QED BY <1>0, <1>1, <1>3, <1>4 DEF Opens

LEMMA PushHintOpens ==
  ASSUME WalkInv, hints \in Seq(Type), PushHint, NEW n, n = Head(todo).node
  PROVE  /\ n \in Variables /\ Len(hints) \in Nat
         /\ Opens(Visits(prog[n].kids) \o <<End(n, Len(hints))>>)
<1>1. todo # <<>> /\ n \in DOMAIN prog /\ prog[n].kind \in Variable /\ Head(todo).op = "begin"
  BY BeginType DEF PushHint
<1>2. n \in Variables /\ n \in Bracketed /\ Len(hints) \in Nat
  BY <1>1 DEF Bracketed, Variables
<1>3. IsOpened(Visits(prog[n].kids) \o <<End(n, Len(hints))>>, n)
  BY <1>1, <1>2 DEF IsOpened
<1>4. /\ todo' = Visits(prog[n].kids) \o <<End(n, Len(hints))>> \o Tail(todo)
      /\ UNCHANGED <<prog, phase, table, exprType, diags>>
  BY DEF PushHint, This
<1>5. PICK f : f = Visits(prog[n].kids) \o <<End(n, Len(hints))>>
  OBVIOUS
<1> QED BY <1>1, <1>2, <1>3, <1>4, <1>5 DEF Opens

LEMMA OpensFront ==
  ASSUME NEW f, Opens(f)
  PROVE  IsFront(f, Head(todo).node)
BY DEF Opens, IsOpened, IsFront

LEMMA ActionShape ==
  ASSUME Next
  PROVE  EnterScope \/ VisitParts \/ PushHint \/ Drops \/ Stops
<1>1. CASE LeaveScope \/ VisitUntyped
  BY <1>1 DEF LeaveScope, VisitUntyped, Beginning, Ending, Drops
<1>2. CASE VisitNull \/ VisitNumberUnhinted \/ Finish
  BY <1>2 DEF VisitNull, VisitNumberUnhinted, Finish, Stops
<1>3. CASE RejectRedeclared \/ RejectBare \/ SkipUnknown
  BY <1>3 DEF RejectRedeclared, RejectBare, SkipUnknown, Beginning, Drop, Drops
<1>4. CASE VisitFixed \/ VisitNumber
  BY <1>4 DEF VisitFixed, VisitNumber, TypeLiteral, Beginning, Drops
<1>5. CASE InsertVariable
  BY <1>5 DEF InsertVariable, Ending, Stops, Drops
<1> QED BY <1>1, <1>2, <1>3, <1>4, <1>5 DEF Next

LEMMA StepShape ==
  ASSUME WalkInv, hints \in Seq(Type), Next
  PROVE  Stops \/ Drops \/ \E f : Opens(f)
BY ActionShape, EnterScopeOpens, VisitPartsOpens, PushHintOpens

LEMMA WalkPreserved ==
  ASSUME WalkInv, hints \in Seq(Type), Next
  PROVE  WalkInv'
<1>1. CASE Stops
  BY <1>1, TreeStays DEF Stops, WalkInv
<1>2. CASE Drops
  <2>1. todo' = <<>> \o Tail(todo) /\ IsFront(<<>>, Head(todo).node) /\ todo # <<>> /\ prog' = prog
    BY <1>2, Dropping DEF Drops
  <2> QED BY <2>1, WalkStep
<1>3. CASE \E f : Opens(f)
  <2>1. PICK f : Opens(f)
    BY <1>3
  <2>2. todo' = f \o Tail(todo) /\ todo # <<>> /\ prog' = prog
    BY <2>1 DEF Opens
  <2> QED BY <2>1, <2>2, OpensFront, WalkStep
<1> QED BY <1>1, <1>2, <1>3, StepShape

\* A dropped visit is not followed by others.
LEMMA DropItems ==
  ASSUME WalkInv, Drops
  PROVE  /\ \A i \in DOMAIN todo' : \E j \in DOMAIN todo : j > 1 /\ todo'[i] = todo[j]
         /\ \A j \in DOMAIN todo : j > 1 => \E i \in DOMAIN todo' : todo'[i] = todo[j]
<1>1. todo' = <<>> \o Tail(todo) /\ todo # <<>>
  BY Dropping DEF Drops
<1>2. PICK n : n = Head(todo).node
  OBVIOUS
<1>3. IsFront(<<>>, n) /\ DOMAIN <<>> = {}
  BY DEF IsFront
<1>4. ASSUME NEW i \in DOMAIN todo'
      PROVE  \E j \in DOMAIN todo : j > 1 /\ todo'[i] = todo[j]
  <2>1. \/ \E k \in DOMAIN <<>> : todo'[i] = <<>>[k]
        \/ \E j \in DOMAIN todo : j > 1 /\ todo'[i] = todo[j]
    BY <1>1, <1>2, <1>3, Items DEF FrontAdded
  <2> QED BY <1>3, <2>1
<1>5. \A j \in DOMAIN todo : j > 1 => \E i \in DOMAIN todo' : todo'[i] = todo[j]
  BY <1>1, <1>2, <1>3, Items DEF FrontAdded
<1> QED BY <1>4, <1>5

LEMMA OpenItems ==
  ASSUME WalkInv, NEW f, Opens(f)
  PROVE  /\ \A i \in DOMAIN todo' :
              \/ \E k \in DOMAIN f : todo'[i] = f[k]
              \/ \E j \in DOMAIN todo : j > 1 /\ todo'[i] = todo[j]
         /\ \A j \in DOMAIN todo : j > 1 => \E i \in DOMAIN todo' : todo'[i] = todo[j]
         /\ \A k \in DOMAIN f : \E i \in DOMAIN todo' : todo'[i] = f[k]
<1>1. PICK n : n = Head(todo).node
  OBVIOUS
<1>2. todo' = f \o Tail(todo) /\ todo # <<>> /\ IsFront(f, n)
  BY <1>1, OpensFront DEF Opens
<1>3. FrontAdded(f)
  BY <1>1, <1>2, Items
<1> QED BY <1>3 DEF FrontAdded

\* Which brackets are open after a step.
LEMMA EndsOpened ==
  ASSUME WalkInv, NEW f, Opens(f), NEW n, n = Head(todo).node, NEW q \in Bracketed
  PROVE  EndIn(q)' <=> EndIn(q) \/ q = n
<1>1. /\ \A i \in DOMAIN todo' :
            \/ \E k \in DOMAIN f : todo'[i] = f[k]
            \/ \E j \in DOMAIN todo : j > 1 /\ todo'[i] = todo[j]
      /\ \A j \in DOMAIN todo : j > 1 => \E i \in DOMAIN todo' : todo'[i] = todo[j]
      /\ \A k \in DOMAIN f : \E i \in DOMAIN todo' : todo'[i] = f[k]
  BY OpenItems
<1>2. IsFront(f, n) /\ prog \in Programs /\ Head(todo) = todo[1] /\ Head(todo).op = "begin"
  BY OpensFront, HeadType DEF Opens, WalkInv
<1>3. \A k \in DOMAIN f :
        \/ f[k].op = "begin"
        \/ k = Len(f) /\ f[k].op = "end" /\ f[k].node = n /\ n \in Bracketed
  BY <1>2, FrontType
<1>4. EndIn(q) => EndIn(q)'
  <2> SUFFICES ASSUME EndIn(q) PROVE EndIn(q)'
    OBVIOUS
  <2>1. PICK j \in DOMAIN todo : todo[j].op = "end" /\ todo[j].node = q
    BY DEF EndIn
  <2>2. j > 1
    BY <1>2, <2>1, HeadType DEF Opens
  <2>3. PICK i \in DOMAIN todo' : todo'[i] = todo[j]
    BY <1>1, <2>2
  <2> QED BY <2>1, <2>3 DEF EndIn
<1>5. EndIn(q)' => EndIn(q) \/ q = n
  <2> SUFFICES ASSUME EndIn(q)', q # n PROVE EndIn(q)
    OBVIOUS
  <2>1. PICK i \in DOMAIN todo' : todo'[i].op = "end" /\ todo'[i].node = q
    BY DEF EndIn
  <2>2. ~ \E k \in DOMAIN f : todo'[i] = f[k]
    BY <1>3, <2>1
  <2> QED BY <1>1, <2>1, <2>2 DEF EndIn
<1>6. q = n => EndIn(q)'
  <2> SUFFICES ASSUME q = n PROVE EndIn(q)'
    OBVIOUS
  <2>1. PICK size \in Nat : f = Visits(prog[n].kids) \o <<End(n, size)>>
    BY DEF Opens, IsOpened
  <2>2. f # <<>>
    <3>1. n \in DOMAIN prog
      BY DEF Opens, IsOpened
    <3>2. Visits(prog[n].kids) \in Seq(Visit)
      BY <1>2, <3>1, KidsType
    <3> QED BY <2>1, <3>2
  <2>3. Len(f) \in DOMAIN f /\ f[Len(f)].op = "end" /\ f[Len(f)].node = n
    BY <1>2, <2>2, FrontType
  <2> QED BY <1>1, <2>3 DEF EndIn
<1> QED BY <1>4, <1>5, <1>6

LEMMA EndsDropped ==
  ASSUME WalkInv, Drops, NEW n, n = Head(todo).node, n # Null, NEW q \in Bracketed
  PROVE  EndIn(q)' <=> q \in Above[n]
<1>1. todo # <<>> /\ n \in DOMAIN prog /\ n \notin Above[n]
  BY EndsAbove DEF Drops
<1>2. EndIn(q)' => q \in Above[n]
  <2> SUFFICES ASSUME EndIn(q)' PROVE q \in Above[n]
    OBVIOUS
  <2>1. PICK i \in DOMAIN todo' : todo'[i].op = "end" /\ todo'[i].node = q
    BY DEF EndIn
  <2>2. PICK j \in DOMAIN todo : j > 1 /\ todo'[i] = todo[j]
    BY DropItems
  <2> QED BY <1>1, <2>1, <2>2, EndsAbove
<1>3. q \in Above[n] => EndIn(q)'
  <2> SUFFICES ASSUME q \in Above[n] PROVE EndIn(q)'
    OBVIOUS
  <2>1. EndIn(q)
    BY <1>1, EndsAbove
  <2>2. PICK j \in DOMAIN todo : todo[j].op = "end" /\ todo[j].node = q
    BY <2>1 DEF EndIn
  <2>3. j > 1
    BY <1>1, <2>2, HeadType
  <2>4. PICK i \in DOMAIN todo' : todo'[i] = todo[j]
    BY <2>3, DropItems
  <2> QED BY <2>2, <2>4 DEF EndIn
<1> QED BY <1>2, <1>3

LEMMA ScopesPreserved ==
  ASSUME WalkInv, ScopesInv, hints \in Seq(Type), Next
  PROVE  ScopesInv'
<1>0. PICK n : n = Head(todo).node
  OBVIOUS
<1>1. CASE Stops
  BY <1>1, TreeStays DEF Stops, ScopesInv, EndIn
<1>2. CASE EnterScope
  BY <1>2, EnterScopeScopes
<1>3. CASE LeaveScope
  BY <1>3, LeaveScopeScopes
<1>4. ASSUME todo # <<>>, prog' = prog, scopes' = scopes, n \notin ScopeNodes,
             \E f : IsFront(f, n) /\ todo' = f \o Tail(todo)
      PROVE  ScopesInv'
  BY <1>0, <1>4, ScopesKept
<1>5. CASE VisitParts
  <2>1. n \notin ScopeNodes
    BY <1>0, <1>5, BeginType DEF VisitParts, ScopeNodes, ScopedKinds
  <2> QED BY <1>0, <1>4, <1>5, <2>1, VisitPartsOpens, OpensFront DEF Opens, VisitParts
<1>6. CASE PushHint
  <2>1. PICK f : Opens(f)
    BY <1>0, <1>6, PushHintOpens
  <2>2. n \notin ScopeNodes
    BY <1>0, <1>6, BeginType DEF PushHint, ScopeNodes, ScopedKinds, Variable
  <2> QED BY <1>0, <1>4, <1>6, <2>1, <2>2, OpensFront DEF Opens, PushHint
<1>7. ASSUME Drops, scopes' = scopes, n \notin ScopeNodes
      PROVE  ScopesInv'
  <2>1. todo' = <<>> \o Tail(todo) /\ IsFront(<<>>, n)
    BY <1>7, Dropping DEF Drops
  <2> QED BY <1>4, <1>7, <2>1 DEF Drops
<1>8. CASE VisitUntyped
  BY <1>0, <1>7, <1>8, BeginType DEF VisitUntyped, Beginning, Drops, ScopeNodes, ScopedKinds
<1>9. CASE RejectRedeclared \/ RejectBare \/ SkipUnknown
  BY <1>0, <1>7, <1>9, BeginType
     DEF RejectRedeclared, RejectBare, SkipUnknown, Drop, Beginning, Drops, ScopeNodes, ScopedKinds, Variable
<1>10. CASE VisitFixed \/ VisitNumber
  <2>1. Drops /\ scopes' = scopes
    BY <1>10 DEF VisitFixed, VisitNumber, TypeLiteral, Beginning, Drops
  <2>2. prog[n].kind \in {"Bool", "Char", "Text", "Int", "Float"}
    BY <1>0, <1>10 DEF VisitFixed, VisitNumber, Beginning, Fixed
  <2> QED BY <1>7, <2>1, <2>2 DEF ScopeNodes, ScopedKinds
<1>11. CASE InsertVariable
  <2>1. prog[n].kind \in Variable /\ scopes' = scopes
    BY <1>0, <1>11 DEF InsertVariable, Ending
  <2>2. Stops \/ Drops
    BY <1>11 DEF InsertVariable, Ending, Stops, Drops
  <2> QED BY <1>1, <1>7, <2>1, <2>2 DEF ScopeNodes, ScopedKinds, Variable
<1>12. CASE VisitNull \/ VisitNumberUnhinted \/ Finish
  BY <1>1, <1>12 DEF VisitNull, VisitNumberUnhinted, Finish, Stops
<1> QED BY <1>2, <1>3, <1>5, <1>6, <1>8, <1>9, <1>10, <1>11, <1>12 DEF Next

-----------------------------------------------------------------------------
(* Types of the data.                                                      *)

Diagnostic == {"redefinition", "previous", "untyped", "mismatch", "undeduced"}
                \X (DOMAIN prog \union {Null})

DataInv ==
  /\ phase \in {"check", "done", "null", "underflow", "unhinted"}
  /\ table \in [ScopeNodes -> [Name -> Seq(DOMAIN prog)]]
  /\ hints \in Seq(Type)
  /\ result \in Type
  /\ exprType \in [DOMAIN prog -> Type]
  /\ diags \in Seq(Diagnostic)

LEMMA LiteralTypes ==
  /\ \A kind \in DOMAIN Fixed : Fixed[kind] \in Type
  /\ \A kind : \A t \in Type : NumberType(kind, t) \in Type
  /\ Unknown \in Type
<1>1. Unknown \in Type /\ {"i1", "i8", "i64", "f64", "string"} \subseteq Type
  BY DEF Type, Builtin, Integer, Floating
<1>2. \A kind \in DOMAIN Fixed : Fixed[kind] \in Type
  BY <1>1 DEF Fixed
<1>3. ASSUME NEW kind, NEW t \in Type
      PROVE  NumberType(kind, t) \in Type
  BY <1>1 DEF NumberType, Deduce
<1> QED BY <1>1, <1>2, <1>3

LEMMA DeclaredTypeType ==
  ASSUME NEW n, prog[n] \in Node
  PROVE  DeclaredType(n) \in Type
<1>1. prog[n].declared \in Type \union {NoType}
  BY DEF Node
<1> QED BY <1>1, LiteralTypes DEF DeclaredType

\* A sequence of diagnostics stays one.
LEMMA Reports ==
  ASSUME NEW D, NEW s \in Seq(D)
  PROVE  /\ \A x \in D : Append(s, x) \in Seq(D)
         /\ \A x, y \in D : s \o <<x, y>> \in Seq(D)
OBVIOUS

LEMMA ReportType ==
  ASSUME diags \in Seq(Diagnostic), NEW n \in DOMAIN prog,
         NEW what \in {"redefinition", "previous", "untyped", "mismatch", "undeduced"}
  PROVE  Append(diags, <<what, n>>) \in Seq(Diagnostic)
<1>1. <<what, n>> \in Diagnostic
  BY DEF Diagnostic
<1> QED BY <1>1, Reports

LEMMA DataPreserved ==
  ASSUME WalkInv, ScopesInv, DataInv, Next
  PROVE  DataInv'
<1>0. PICK n : n = Head(todo).node
  OBVIOUS
<1>1. This = n
  BY <1>0 DEF This
<1>2. prog' = prog /\ ScopeNodes' = ScopeNodes /\ Diagnostic' = Diagnostic
  <2>1. prog' = prog
    BY StepShape DEF DataInv, Stops, Drops, Opens
  <2> QED BY <2>1, TreeStays DEF Diagnostic
<1>3. CASE EnterScope \/ VisitParts \/ VisitUntyped \/ VisitNull \/ SkipUnknown
            \/ VisitNumberUnhinted \/ Finish
  BY <1>2, <1>3, LiteralTypes
     DEF DataInv, EnterScope, VisitParts, VisitUntyped, VisitNull, SkipUnknown, Drop,
         VisitNumberUnhinted, Finish
<1>4. CASE LeaveScope
  BY <1>2, <1>4 DEF DataInv, LeaveScope
<1>5. CASE RejectBare
  <2>1. n \in DOMAIN prog
    BY <1>0, <1>5, BeginType DEF RejectBare
  <2>2. diags' = Append(diags, <<"untyped", n>>)
    BY <1>1, <1>5 DEF RejectBare, Report
  <2>3. diags' \in Seq(Diagnostic)
    BY <2>1, <2>2, ReportType DEF DataInv
  <2> QED BY <1>2, <1>5, <2>3, LiteralTypes DEF DataInv, RejectBare, Drop
<1>6. CASE RejectRedeclared
  <2>1. n \in Variables /\ todo # <<>> /\ prog[n].name \in Name
    <3>1. n \in DOMAIN prog /\ todo # <<>> /\ prog[n] \in Node /\ prog[n].kind \in Variable
      BY <1>0, <1>6, BeginType DEF RejectRedeclared
    <3> QED BY <3>1 DEF Variables, Node
  <2>2. Scope \in ScopeNodes
    BY <1>0, <2>1, CurrentScope
  <2>3. PICK s : s = table[Scope][prog[n].name]
    OBVIOUS
  <2>4. s \in Seq(DOMAIN prog) /\ s # <<>>
    BY <1>1, <1>6, <2>1, <2>2, <2>3 DEF DataInv, RejectRedeclared, IsDeclared
  <2>5. s[1] \in DOMAIN prog
    BY <2>4
  <2>6. diags' = diags \o <<<<"redefinition", s[1]>>, <<"previous", Null>>>>
    BY <1>1, <1>6, <2>3 DEF RejectRedeclared
  <2>7. <<"redefinition", s[1]>> \in Diagnostic /\ <<"previous", Null>> \in Diagnostic
    BY <2>5 DEF Diagnostic
  <2>8. diags' \in Seq(Diagnostic)
    BY <2>6, <2>7, Reports DEF DataInv
  <2> QED BY <1>2, <1>6, <2>8, LiteralTypes DEF DataInv, RejectRedeclared, Drop
<1>7. CASE PushHint
  <2>1. DeclaredType(n) \in Type
    BY <1>0, <1>7, BeginType, DeclaredTypeType DEF PushHint
  <2>2. hints' \in Seq(Type)
    BY <1>1, <1>7, <2>1 DEF PushHint, DataInv
  <2> QED BY <1>2, <1>7, <2>2 DEF DataInv, PushHint
<1>8. CASE InsertVariable
  <2>1. n \in Variables /\ n \in DOMAIN prog /\ todo # <<>> /\ prog[n] \in Node
        /\ prog[n].name \in Name
    <3>1. n \in DOMAIN prog /\ todo # <<>> /\ prog[n] \in Node /\ prog[n].kind \in Variable
      BY <1>0, <1>8, EndType DEF InsertVariable
    <3> QED BY <3>1 DEF Variables, Node
  <2>2. Scope \in ScopeNodes
    BY <1>0, <2>1, CurrentScope
  <2>3. diags' \in Seq(Diagnostic)
    BY <1>1, <1>8, <2>1, ReportType DEF InsertVariable, DataInv
  <2>4. CASE Len(hints) < Head(todo).size
    BY <1>2, <1>8, <2>3, <2>4 DEF InsertVariable, DataInv
  <2>5. CASE ~(Len(hints) < Head(todo).size)
    <3>1. hints' \in Seq(Type)
      <4>1. PICK size : size = Head(todo).size
        OBVIOUS
      <4>2. size \in Nat /\ Len(hints) \in Nat /\ size <= Len(hints)
        BY <2>1, <2>5, <4>1, HeadType DEF Visit, DataInv
      <4>3. hints' = SubSeq(hints, 1, Len(hints) - size)
        BY <1>8, <2>5, <4>1 DEF InsertVariable, Popped
      <4> QED BY <4>2, <4>3 DEF DataInv
    <3>2. VariableType(n) \in Type
      BY <2>1, DeclaredTypeType, LiteralTypes DEF VariableType, DataInv
    <3>3. table' = [table EXCEPT ![Scope][prog[n].name] = Append(@, n)]
      BY <1>1, <1>8, <2>5 DEF InsertVariable
    <3>4. table' \in [ScopeNodes -> [Name -> Seq(DOMAIN prog)]]
      BY <2>1, <2>2, <3>3 DEF DataInv
    <3> QED BY <1>1, <1>2, <1>8, <2>3, <2>5, <3>1, <3>2, <3>4 DEF InsertVariable, DataInv
  <2> QED BY <2>4, <2>5
<1>9. CASE VisitFixed
  <2>1. n \in DOMAIN prog /\ prog[n].kind \in DOMAIN Fixed
    BY <1>0, <1>9, BeginType DEF VisitFixed
  <2>2. Fixed[prog[n].kind] \in Type
    BY <2>1, LiteralTypes
  <2> QED BY <1>1, <1>2, <1>9, <2>1, <2>2 DEF VisitFixed, TypeLiteral, DataInv
<1>10. CASE VisitNumber
  <2>1. n \in DOMAIN prog
    BY <1>0, <1>10, BeginType DEF VisitNumber
  <2>2. PICK t, hint : hint = hints[Len(hints)] /\ t = NumberType(prog[n].kind, hint)
    OBVIOUS
  <2>3. hint \in Type
    BY <1>10, <2>2 DEF VisitNumber, DataInv
  <2>4. t \in Type
    BY <2>2, <2>3, LiteralTypes
  <2>5. TypeLiteral(t) /\ (diags' = diags \/ diags' = Append(diags, <<"undeduced", n>>))
    BY <1>1, <1>10, <2>2 DEF VisitNumber, Report
  <2>6. diags' \in Seq(Diagnostic)
    BY <2>1, <2>5, ReportType DEF DataInv
  <2> QED BY <1>1, <1>2, <2>1, <2>4, <2>5, <2>6 DEF TypeLiteral, DataInv
<1> QED BY <1>3, <1>4, <1>5, <1>6, <1>7, <1>8, <1>9, <1>10 DEF Next

-----------------------------------------------------------------------------
(* Names: while the initializer of a variable is visited its scope has no  *)
(* declaration of the name, and no variable nested in it is put there.     *)

NameFree(d) == table[ScopeOf(d)][prog[d].name] = <<>>

NamesInv ==
  /\ NamesDistinct
  /\ \A d \in Variables : EndIn(d) => NameFree(d)

LEMMA TableStays ==
  ASSUME prog' = prog, table' = table
  PROVE  /\ NamesDistinct' = NamesDistinct
         /\ \A d : NameFree(d)' = NameFree(d)
BY TreeStays DEF NamesDistinct, NameFree, ScopeOf

\* What the end of a variable does to the tables.
LEMMA Inserting ==
  ASSUME WalkInv, ScopesInv, DataInv, NamesInv, InsertVariable, Drops,
         NEW n, n = Head(todo).node
  PROVE  /\ n \in Variables /\ n \in DOMAIN prog /\ n # Null /\ EndIn(n)
         /\ ScopeOf(n) \in ScopeNodes /\ prog[n].name \in Name
         /\ NameFree(n)
         /\ table'[ScopeOf(n)][prog[n].name] = <<n>>
         /\ \A s \in ScopeNodes, x \in Name :
              s # ScopeOf(n) \/ x # prog[n].name => table'[s][x] = table[s][x]
<1>1. /\ n \in DOMAIN prog /\ todo # <<>> /\ prog[n] \in Node /\ prog[n].kind \in Variable
      /\ n # Null /\ Head(todo).op = "end"
  BY EndType DEF InsertVariable
<1>2. n \in Variables /\ prog[n].name \in Name
  BY <1>1 DEF Variables, Node
<1>3. Scope = ScopeOf(n) /\ Scope \in ScopeNodes
  BY <1>1, <1>2, CurrentScope
<1>4. EndIn(n)
  BY <1>1, HeadType DEF EndIn
<1>5. NameFree(n)
  BY <1>2, <1>4 DEF NamesInv
<1>6. table' = [table EXCEPT ![ScopeOf(n)][prog[n].name] = Append(@, n)]
  <2>1. ~(Len(hints) < Head(todo).size)
    <3>1. phase = "check" /\ phase' = phase
      BY DEF InsertVariable, Ending, Drops
    <3> QED BY <3>1 DEF InsertVariable
  <2> QED BY <1>3, <2>1 DEF InsertVariable, This
<1>7. table'[ScopeOf(n)][prog[n].name] = <<n>>
  BY <1>2, <1>3, <1>5, <1>6 DEF NameFree, DataInv
<1>8. \A s \in ScopeNodes, x \in Name :
        s # ScopeOf(n) \/ x # prog[n].name => table'[s][x] = table[s][x]
  BY <1>2, <1>3, <1>6 DEF DataInv
<1> QED BY <1>1, <1>2, <1>3, <1>4, <1>5, <1>7, <1>8

\* Only InsertVariable changes the tables, and only PushHint opens a variable.
LEMMA TableChanges ==
  ASSUME Next
  PROVE  table' = table \/ (InsertVariable /\ Drops)
BY DEF Next, EnterScope, LeaveScope, VisitParts, VisitUntyped, VisitNull, RejectRedeclared,
       RejectBare, SkipUnknown, Drop, PushHint, InsertVariable, Ending, Drops, VisitFixed, VisitNumber,
       TypeLiteral, VisitNumberUnhinted, Finish

LEMMA OpenedVariable ==
  ASSUME WalkInv, ScopesInv, DataInv, Next, NEW d \in Variables, EndIn(d)', ~EndIn(d)
  PROVE  PushHint /\ d = Head(todo).node /\ NameFree(d)
<1>0. PICK n : n = Head(todo).node
  OBVIOUS
<1>1. d \in Bracketed
  BY DEF Bracketed
<1>2. CASE Stops
  BY <1>2 DEF Stops, EndIn
<1>3. CASE Drops
  <2>1. PICK i \in DOMAIN todo' : todo'[i].op = "end" /\ todo'[i].node = d
    BY DEF EndIn
  <2>2. PICK j \in DOMAIN todo : todo'[i] = todo[j]
    BY <1>3, DropItems
  <2> QED BY <2>1, <2>2 DEF EndIn
<1>4. CASE EnterScope \/ VisitParts
  <2>1. PICK f : Opens(f)
    BY <1>4, EnterScopeOpens, VisitPartsOpens
  <2>2. prog[n].kind \notin Variable
    BY <1>0, <1>4 DEF EnterScope, VisitParts, Beginning, ScopedKinds, Variable
  <2> QED BY <1>0, <1>1, <2>1, <2>2, EndsOpened DEF Variables
<1>5. CASE PushHint
  <2>1. Opens(Visits(prog[n].kids) \o <<End(n, Len(hints))>>)
    BY <1>0, <1>5, PushHintOpens DEF DataInv
  <2>2. d = n /\ todo # <<>>
    BY <1>0, <1>1, <2>1, EndsOpened DEF Opens
  <2>3. Scope = ScopeOf(n) /\ ~IsDeclared(prog[n].name)
    BY <1>0, <1>5, <2>2, CurrentScope DEF PushHint, This
  <2> QED BY <1>0, <1>5, <2>2, <2>3 DEF IsDeclared, NameFree
<1> QED BY <1>2, <1>3, <1>4, <1>5, ActionShape

LEMMA NamesPreserved ==
  ASSUME WalkInv, ScopesInv, DataInv, NamesInv, Next
  PROVE  NamesInv'
<1>0. prog \in Programs /\ prog' = prog
  BY StepShape DEF Stops, Drops, Opens, WalkInv, DataInv
<1>1. CASE table' = table
  <2>1. ASSUME NEW d \in Variables, EndIn(d)'
        PROVE  NameFree(d)
    BY <2>1, OpenedVariable DEF NamesInv
  <2> QED BY <1>0, <1>1, <2>1, TableStays, TreeStays DEF NamesInv
<1>2. CASE InsertVariable /\ Drops
  <2>0. PICK n : n = Head(todo).node
    OBVIOUS
  <2>1. PICK t : t = table'
    OBVIOUS
  <2>2. /\ n \in Variables /\ n \in DOMAIN prog /\ n # Null /\ n \in Bracketed
        /\ ScopeOf(n) \in ScopeNodes /\ prog[n].name \in Name /\ NameFree(n)
        /\ t[ScopeOf(n)][prog[n].name] = <<n>>
        /\ \A s \in ScopeNodes, x \in Name :
             s # ScopeOf(n) \/ x # prog[n].name => t[s][x] = table[s][x]
    BY <1>2, <2>0, <2>1, Inserting DEF Bracketed
  <2>3. \A s \in ScopeNodes, x \in Name :
          (\E i \in DOMAIN t[s][x] : t[s][x][i] \in Variables) => Len(t[s][x]) = 1
    <3> SUFFICES ASSUME NEW s \in ScopeNodes, NEW x \in Name,
                        \E i \in DOMAIN t[s][x] : t[s][x][i] \in Variables
                 PROVE  Len(t[s][x]) = 1
      OBVIOUS
    <3>1. CASE s = ScopeOf(n) /\ x = prog[n].name
      BY <2>2, <3>1
    <3>2. CASE s # ScopeOf(n) \/ x # prog[n].name
      BY <2>2, <3>2 DEF NamesInv, NamesDistinct
    <3> QED BY <3>1, <3>2
  <2>4. ASSUME NEW d \in Variables, EndIn(d)'
        PROVE  t[ScopeOf(d)][prog[d].name] = <<>>
    <3>1. d \in Above[n] /\ EndIn(d)
      <4>1. d \in Above[n]
        BY <1>2, <2>0, <2>2, <2>4, EndsDropped DEF Bracketed
      <4> QED BY <1>2, <2>0, <2>2, <4>1, EndsAbove DEF Bracketed, Drops
    <3>2. ScopeOf(n) # ScopeOf(d)
      BY <1>0, <2>2, <3>1, NestedElsewhere
    <3>3. NameFree(d)
      BY <3>1 DEF NamesInv
    <3>4. ScopeOf(d) \in ScopeNodes /\ prog[d].name \in Name
      BY <1>0, VariableScope, ProgramType DEF Variables, Node
    <3> QED BY <2>2, <3>2, <3>3, <3>4 DEF NameFree
  <2>5. /\ ScopeNodes' = ScopeNodes /\ Variables' = Variables
        /\ \A d : ScopeOf(d)' = ScopeOf(d)
    BY <1>0, TreeStays DEF ScopeOf
  <2>6. NamesDistinct'
    BY <2>1, <2>3, <2>5 DEF NamesDistinct
  <2>7. \A d \in Variables' : EndIn(d)' => NameFree(d)'
    BY <1>0, <2>1, <2>4, <2>5 DEF NameFree
  <2> QED BY <2>6, <2>7 DEF NamesInv
<1> QED BY <1>1, <1>2, TableChanges

-----------------------------------------------------------------------------
(* The base of the invariants, and what follows from them.                 *)

BaseInv == WalkInv /\ ScopesInv /\ DataInv /\ NamesInv

LEMMA InitBase ==
  ASSUME Init
  PROVE  BaseInv
<1>0. prog \in Programs /\ Root \in DOMAIN prog /\ prog[Root].kind = "Program" /\ Root # Null
  BY ProgramType DEF Init, Root, Null
<1>1. PICK b : b = Begin(Root)
  OBVIOUS
<1>2. b \in Visit /\ b.op = "begin" /\ b.node = Root
  BY <1>0, <1>1 DEF Begin, Visit
<1>3. todo = <<b>>
  BY <1>1 DEF Init
<1>4. todo \in Seq(Visit) /\ DOMAIN todo = {1} /\ todo[1] = b
  BY <1>2, <1>3
<1>5. WalkInv
  <2>1. \A i \in DOMAIN todo : todo[i].op = "begin" /\ todo[i].node = Root
    BY <1>2, <1>4
  <2>2. Above[Root] = {}
    BY <1>0, AboveUnfold
  <2> QED BY <1>0, <1>4, <2>1, <2>2 DEF WalkInv
<1>6. ScopesInv
  <2>1. scopes = <<>>
    BY DEF Init
  <2>2. \A q : ~EndIn(q)
    BY <1>2, <1>4 DEF EndIn
  <2> QED BY <2>1, <2>2 DEF ScopesInv
<1>7. \A x \in Name : DeclaredBefore(prog, x) \in Seq(FileDecls)
  BY <1>0, DeclaredBeforeType
<1>8. \A s \in ScopeNodes, x \in Name : table[s][x] \in Seq(FileDecls)
  <2> TAKE s \in ScopeNodes, x \in Name
  <2>1. table[s][x] = IF s = Root THEN DeclaredBefore(prog, x) ELSE <<>>
    BY DEF Init
  <2> QED BY <1>7, <2>1
<1>9. DataInv
  <2>1. \A s \in ScopeNodes, x \in Name : table[s][x] \in Seq(DOMAIN prog)
    <3> TAKE s \in ScopeNodes, x \in Name
    <3>1. table[s][x] \in Seq(FileDecls) /\ FileDecls \subseteq DOMAIN prog
      BY <1>8 DEF FileDecls
    <3> QED BY <3>1
  <2>2. table = [s \in ScopeNodes |-> [x \in Name |-> table[s][x]]]
    BY DEF Init
  <2>3. table \in [ScopeNodes -> [Name -> Seq(DOMAIN prog)]]
    BY <2>1, <2>2
  <2>4. exprType \in [DOMAIN prog -> Type] /\ result \in Type
    BY LiteralTypes DEF Init
  <2>5. phase = "check" /\ hints = <<>> /\ diags = <<>>
    BY DEF Init
  <2> QED BY <2>3, <2>4, <2>5 DEF DataInv
<1>10. NamesInv
  <2>1. \A s \in ScopeNodes, x \in Name : \A i \in DOMAIN table[s][x] : table[s][x][i] \notin Variables
    <3> TAKE s \in ScopeNodes, x \in Name
    <3> TAKE i \in DOMAIN table[s][x]
    <3>1. table[s][x][i] \in FileDecls
      BY <1>8
    <3> QED BY <3>1 DEF FileDecls, Variables, Variable
  <2>2. \A q : ~EndIn(q)
    BY <1>2, <1>4 DEF EndIn
  <2> QED BY <2>1, <2>2 DEF NamesInv, NamesDistinct
<1> QED BY <1>5, <1>6, <1>9, <1>10 DEF BaseInv

LEMMA BasePreserved ==
  ASSUME BaseInv, [Next]_vars
  PROVE  BaseInv'
<1>1. CASE Next
  <2>1. WalkInv /\ ScopesInv /\ DataInv /\ NamesInv /\ hints \in Seq(Type)
    BY DEF BaseInv, DataInv
  <2> QED BY <1>1, <2>1, WalkPreserved, ScopesPreserved, DataPreserved, NamesPreserved DEF BaseInv
<1>2. CASE UNCHANGED vars
  <2>1. /\ Above' = Above /\ ScopeNodes' = ScopeNodes /\ Variables' = Variables
        /\ Bracketed' = Bracketed /\ Visit' = Visit /\ Diagnostic' = Diagnostic
    BY <1>2, TreeStays DEF vars, Diagnostic
  <2>2. WalkInv' /\ ScopesInv'
    BY <1>2, <2>1 DEF vars, BaseInv, WalkInv, ScopesInv, EndIn
  <2>3. DataInv'
    BY <1>2, <2>1 DEF vars, BaseInv, DataInv
  <2>4. NamesInv'
    BY <1>2, <2>1, TableStays DEF vars, BaseInv, NamesInv, EndIn
  <2> QED BY <2>2, <2>3, <2>4 DEF BaseInv
<1> QED BY <1>1, <1>2

LEMMA BaseTypeOK ==
  ASSUME BaseInv
  PROVE  TypeOK
<1>0. WalkInv /\ ScopesInv /\ DataInv /\ prog \in Programs
  BY DEF BaseInv, WalkInv
<1>1. \A i \in DOMAIN todo :
        /\ todo[i].op \in {"begin", "end"}
        /\ todo[i].node \in DOMAIN prog \union {Null}
        /\ todo[i].size \in Nat
  <2> TAKE i \in DOMAIN todo
  <2>1. todo[i] \in Visit
    BY <1>0 DEF WalkInv
  <2> QED BY <2>1 DEF Visit
<1>2. scopes = <<>> => \A i \in DOMAIN todo : todo[i].node = Root
  <2> SUFFICES ASSUME scopes = <<>>, NEW i \in DOMAIN todo, todo[i].node # Root PROVE FALSE
    OBVIOUS
  <2>1. Root \in ScopeNodes
    BY <1>0, ProgramType DEF ScopeNodes, ScopedKinds
  <2>2. ~EndIn(Root)
    BY <1>0, <2>1 DEF ScopesInv
  <2>3. todo[i].node # Null
    BY <1>0, <2>2 DEF WalkInv, EndIn
  <2>4. Root \in Above[todo[i].node]
    BY <1>0, <1>1, <2>3, RootAbove
  <2> QED BY <1>0, <2>1, <2>2, <2>3, <2>4 DEF WalkInv, EndIn, Bracketed
<1>3. \A i \in DOMAIN scopes : scopes[i] \in ScopeNodes
  BY <1>0 DEF ScopesInv
<1>4. DOMAIN table = ScopeNodes /\ \A s \in ScopeNodes : DOMAIN table[s] = Name
  BY <1>0 DEF DataInv
<1>5. \A i \in DOMAIN hints : hints[i] \in Type
  BY <1>0 DEF DataInv
<1> QED BY <1>0, <1>1, <1>2, <1>3, <1>4, <1>5 DEF TypeOK, DataInv

LEMMA BaseAlways == Spec => []BaseInv
<1>1. Init => BaseInv
  BY InitBase
<1>2. BaseInv /\ [Next]_vars => BaseInv'
  BY BasePreserved
<1> QED BY <1>1, <1>2, PTL DEF Spec

\* Every variable of the unit has a value of its type, and whenever a node
\* other than the root is visited there is a current scope (EnterScope and
\* LeaveScope bracket each other over the whole of the walk).
THEOREM TypeCorrect == Spec => []TypeOK
<1>1. BaseInv => TypeOK
  BY BaseTypeOK
<1> QED BY <1>1, BaseAlways, PTL

\* A variable shares its name with no other declaration of its scope, although
\* blocks of its initializer declare names between the look-up and the insertion.
THEOREM NamesAreDistinct == Spec => []NamesDistinct
<1>1. BaseInv => NamesDistinct
  BY DEF BaseInv, NamesInv
<1> QED BY <1>1, BaseAlways, PTL

-----------------------------------------------------------------------------
(* Hints: while an initializer without declarations is visited, the type   *)
(* its variable is declared with is the last hint.                         *)

Innermost(d) == \A e \in Variables : d \notin Above[e]
Hinted(d) == hints # <<>> /\ hints[Len(hints)] = DeclaredType(d)

HintsInv ==
  /\ HintsReachNumbers
  /\ \A d \in Variables : EndIn(d) /\ Innermost(d) => Hinted(d)

\* Only a declaration changes the hints.
LEMMA HintChanges ==
  ASSUME Next
  PROVE  hints' = hints \/ PushHint \/ (InsertVariable /\ Drops)
BY DEF Next, EnterScope, LeaveScope, VisitParts, VisitUntyped, VisitNull, RejectRedeclared,
       RejectBare, SkipUnknown, Drop, PushHint, InsertVariable, Ending, Drops, VisitFixed, VisitNumber,
       TypeLiteral, VisitNumberUnhinted, Finish

LEMMA TypeChanges ==
  ASSUME Next
  PROVE  exprType' = exprType \/ VisitFixed \/ VisitNumber
BY DEF Next, EnterScope, LeaveScope, VisitParts, VisitUntyped, VisitNull, RejectRedeclared,
       RejectBare, SkipUnknown, Drop, PushHint, InsertVariable, VisitNumberUnhinted, Finish

LEMMA Pushed ==
  ASSUME NEW S, NEW s \in Seq(S), NEW x \in S
  PROVE  /\ Append(s, x) # <<>> /\ Append(s, x)[Len(Append(s, x))] = x
         /\ Len(s) \in Nat /\ Len(Append(s, x)) = Len(s) + 1
OBVIOUS

LEMMA HintsKept ==
  ASSUME BaseInv, HintsInv, Next
  PROVE  \A d \in Variables : EndIn(d)' /\ Innermost(d) =>
           hints' # <<>> /\ hints'[Len(hints')] = DeclaredType(d)
<1>0. WalkInv /\ ScopesInv /\ DataInv /\ NamesInv /\ prog \in Programs /\ hints \in Seq(Type)
  BY DEF BaseInv, WalkInv, DataInv
<1> TAKE d \in Variables
<1> HAVE EndIn(d)' /\ Innermost(d)
<1>1. PICK n : n = Head(todo).node
  OBVIOUS
<1>2. CASE PushHint
  <2>1. n \in Variables /\ Opens(Visits(prog[n].kids) \o <<End(n, Len(hints))>>)
    BY <1>0, <1>1, <1>2, PushHintOpens
  <2>2. n \in DOMAIN prog /\ n # Null /\ todo # <<>> /\ prog[n] \in Node
    BY <1>0, <1>1, <1>2, BeginType DEF PushHint
  <2>3. d = n
    <3>1. EndIn(d) \/ d = n
      BY <1>0, <1>1, <2>1, EndsOpened DEF Bracketed
    <3>2. EndIn(d) => d \in Above[n] \/ d = n
      BY <1>0, <1>1, <2>2, EndsAbove DEF Bracketed
    <3>3. d \notin Above[n]
      BY <2>1 DEF Innermost
    <3> QED BY <3>1, <3>2, <3>3
  <2>4. hints' = Append(hints, DeclaredType(n)) /\ DeclaredType(n) \in Type
    BY <1>1, <1>2, <2>2, DeclaredTypeType DEF PushHint, This
  <2> QED BY <1>0, <2>3, <2>4, Pushed
<1>3. CASE InsertVariable /\ Drops
  <2>1. n \in Variables /\ n # Null
    BY <1>0, <1>1, <1>3, Inserting
  <2>2. d \in Above[n]
    BY <1>0, <1>1, <1>3, <2>1, EndsDropped DEF Bracketed
  <2> QED BY <2>1, <2>2 DEF Innermost
<1>4. CASE hints' = hints /\ ~PushHint
  <2>1. EndIn(d)
    BY <1>0, <1>4, OpenedVariable
  <2> QED BY <1>4, <2>1 DEF HintsInv, Hinted
<1> QED BY <1>2, <1>3, <1>4, HintChanges

LEMMA NumbersKept ==
  ASSUME BaseInv, HintsInv, Next
  PROVE  \A n \in DOMAIN prog : prog[n].kind \in {"Int", "Float"} /\ exprType'[n] # Unknown =>
           \A d \in Variables : d \in Above[n] /\ Innermost(d) =>
             exprType'[n] = NumberType(prog[n].kind, DeclaredType(d))
<1>0. WalkInv /\ ScopesInv /\ DataInv /\ prog \in Programs
  BY DEF BaseInv, WalkInv
<1> TAKE n \in DOMAIN prog
<1> HAVE prog[n].kind \in {"Int", "Float"} /\ exprType'[n] # Unknown
<1> TAKE d \in Variables
<1> HAVE d \in Above[n] /\ Innermost(d)
<1>1. CASE exprType'[n] = exprType[n]
  BY <1>1 DEF HintsInv, HintsReachNumbers, Enclosing, Innermost
<1>2. CASE exprType'[n] # exprType[n]
  <2>1. PICK m : m = Head(todo).node
    OBVIOUS
  <2>2. VisitFixed \/ VisitNumber
    BY <1>2, TypeChanges
  <2>3. m = n
    BY <1>0, <1>2, <2>1, <2>2 DEF VisitFixed, VisitNumber, TypeLiteral, This, DataInv
  <2>4. VisitNumber
    BY <2>1, <2>2, <2>3 DEF VisitFixed, Beginning, Fixed
  <2>5. todo # <<>> /\ n # Null /\ Head(todo).op = "begin"
    BY <1>0, <2>1, <2>3, <2>4, BeginType DEF VisitNumber
  <2>6. EndIn(d)
    BY <1>0, <2>1, <2>3, <2>5, EndsAbove DEF Bracketed
  <2>7. hints[Len(hints)] = DeclaredType(d)
    BY <2>6 DEF HintsInv, Hinted
  <2>8. PICK t : t = NumberType(prog[n].kind, hints[Len(hints)])
    OBVIOUS
  <2>9. exprType' = [exprType EXCEPT ![n] = t]
    BY <2>1, <2>3, <2>4, <2>8 DEF VisitNumber, TypeLiteral, This
  <2> QED BY <1>0, <2>7, <2>8, <2>9 DEF DataInv
<1> QED BY <1>1, <1>2

LEMMA HintsPreserved ==
  ASSUME BaseInv, HintsInv, [Next]_vars
  PROVE  HintsInv'
<1>0. prog' = prog
  BY StepShape DEF Stops, Drops, Opens, BaseInv, DataInv, vars
<1>1. /\ Above' = Above /\ Variables' = Variables
      /\ \A d : Innermost(d)' <=> Innermost(d)
      /\ \A d : DeclaredType(d)' = DeclaredType(d)
      /\ \A n : Enclosing(n)' = Enclosing(n)
  BY <1>0, TreeStays DEF Innermost, DeclaredType, Enclosing
<1>2. CASE Next
  <2>1. \A d \in Variables' : EndIn(d)' /\ Innermost(d)' => Hinted(d)'
    BY <1>1, <1>2, HintsKept DEF Hinted
  <2>2. HintsReachNumbers'
    BY <1>0, <1>1, <1>2, NumbersKept DEF HintsReachNumbers, Innermost, Enclosing
  <2> QED BY <2>1, <2>2 DEF HintsInv
<1>3. CASE UNCHANGED vars
  BY <1>0, <1>1, <1>3 DEF vars, HintsInv, HintsReachNumbers, EndIn, Hinted
<1> QED BY <1>2, <1>3

\* A number in an initializer that declares nothing itself is typed after the
\* variable it initializes, whatever HintCtxExit has left on HintStack.
THEOREM NumbersHinted == Spec => []HintsReachNumbers
<1>1. Init => HintsInv
  <2> SUFFICES ASSUME Init PROVE HintsInv
    OBVIOUS
  <2>1. \A n \in DOMAIN prog : exprType[n] = Unknown
    BY DEF Init
  <2>2. \A d : ~EndIn(d)
    <3>1. PICK b : b = Begin(Root)
      OBVIOUS
    <3>2. b.op = "begin" /\ todo = <<b>>
      BY <3>1 DEF Begin, Init
    <3>3. DOMAIN todo = {1} /\ todo[1] = b
      BY <3>2
    <3> QED BY <3>2, <3>3 DEF EndIn
  <2> QED BY <2>1, <2>2 DEF HintsInv, HintsReachNumbers
<1>2. BaseInv /\ HintsInv /\ [Next]_vars => HintsInv'
  BY HintsPreserved
<1>3. HintsInv => HintsReachNumbers
  BY DEF HintsInv
<1> QED BY <1>1, <1>2, <1>3, BaseAlways, PTL DEF Spec

-----------------------------------------------------------------------------
(* Stops: how many hints there are.  A declaration that has ended leaves   *)
(* one at most, so the innermost variable that is being visited has its    *)
(* own hint and those it found, unless one in its initializer has ended;   *)
(* an outermost one has found at most one, and keeps one as long as there  *)
(* is no nesting in its initializer.                                       *)

\* No variable in the initializer of d has another in its own.
FlatIn(d) == \A e \in Variables : d \in Enclosing(e) => Enclosing(e) = {d}

\* Few nodes are above one.
LEMMA EnclosingFinite ==
  ASSUME prog \in Programs, NEW d \in Variables
  PROVE  IsFiniteSet(Enclosing(d))
<1>1. d \in DOMAIN prog /\ d \in Nat
  BY ProgramType DEF Variables
<1>2. Enclosing(d) \subseteq 0..d
  <2> SUFFICES ASSUME NEW q \in Above[d] PROVE q \in 0..d
    BY DEF Enclosing
  <2>1. d > q /\ q \in DOMAIN prog
    BY <1>1, AboveLess
  <2> QED BY <1>1, <2>1, ProgramType
<1>3. IsFiniteSet(0..d)
  BY <1>1, FS_Interval
<1> QED BY <1>2, <1>3, FS_Subset

LEMMA DeepNesting ==
  ASSUME prog \in Programs, NEW d \in Variables, NEW a \in Enclosing(d), NEW b \in Enclosing(d), a # b
  PROVE  Nesting(d) >= 2
<1>1. IsFiniteSet(Enclosing(d))
  BY EnclosingFinite
<1>2. Cardinality({a, b}) = 2
  <2>1. IsFiniteSet({a}) /\ Cardinality({a}) = 1
    BY FS_Singleton
  <2>2. Cardinality({a} \union {b}) = 2
    <3>1. b \notin {a}
      OBVIOUS
    <3> QED BY <2>1, <3>1, FS_AddElement
  <2>3. {a, b} = {a} \union {b}
    OBVIOUS
  <2> QED BY <2>2, <2>3
<1>3. Cardinality({a, b}) <= Cardinality(Enclosing(d))
  <2>1. {a, b} \subseteq Enclosing(d)
    OBVIOUS
  <2> QED BY <1>1, <2>1, FS_Subset
<1>4. Cardinality(Enclosing(d)) \in Nat
  BY <1>1, FS_CardinalityType
<1> QED BY <1>2, <1>3, <1>4 DEF Nesting

\* A variable in the initializer of d is within others if d is in one, or if the
\* initializer of d is not flat.
LEMMA DeepWithin ==
  ASSUME prog \in Programs, NEW d \in Variables, NEW e \in Variables, d \in Enclosing(e),
         Enclosing(d) # {} \/ ~FlatIn(d)
  PROVE  \E g \in Variables : Nesting(g) >= 2 /\ d \in Enclosing(g)
<1>1. CASE Enclosing(d) # {}
  <2>1. PICK c \in Enclosing(d) : TRUE
    BY <1>1
  <2>2. d \in DOMAIN prog /\ e \in DOMAIN prog /\ d \in Above[e] /\ c \in Above[d] /\ c \in Variables
    BY DEF Variables, Enclosing
  <2>3. c \in Enclosing(e)
    BY <2>2, AboveTransitive DEF Enclosing
  <2>4. c # d
    BY <2>2, AboveLess, ProgramType
  <2> QED BY <2>3, <2>4, DeepNesting
<1>2. CASE ~FlatIn(d)
  <2>1. PICK g \in Variables : d \in Enclosing(g) /\ Enclosing(g) # {d}
    BY <1>2 DEF FlatIn
  <2>2. PICK c \in Enclosing(g) : c # d
    BY <2>1
  <2> QED BY <2>1, <2>2, DeepNesting
<1> QED BY <1>1, <1>2

\* The innermost of the variables around a node.
LEMMA InnermostAround ==
  ASSUME prog \in Programs, NEW n \in DOMAIN prog, Enclosing(n) # {}
  PROVE  \E d \in Enclosing(n) : \A e \in Enclosing(n) : d \notin Above[e]
<1>1. \A d \in Enclosing(n) : d \in Nat /\ d \in DOMAIN prog /\ n - d \in Nat
  <2> TAKE d \in Enclosing(n)
  <2>1. n > d /\ d \in DOMAIN prog
    BY AboveLess DEF Enclosing
  <2> QED BY <2>1, ProgramType
<1> DEFINE T == {n - d : d \in Enclosing(n)}
<1>2. PICK t \in T : \A b \in T : ~(b < t)
  <2>1. T \subseteq Nat /\ T # {}
    BY <1>1
  <2> HIDE DEF T
  <2> QED BY <2>1, LeastNumber
<1>3. PICK d \in Enclosing(n) : t = n - d
  OBVIOUS
<1>4. ASSUME NEW e \in Enclosing(n), d \in Above[e]
      PROVE  FALSE
  <2>1. e > d
    BY <1>1, <1>4, AboveLess
  <2>2. ~(n - e < n - d)
    BY <1>2, <1>3
  <2>3. n \in Nat /\ e \in Nat /\ d \in Nat
    BY <1>1, ProgramType
  <2> QED BY <2>1, <2>2, <2>3
<1> QED BY <1>4

\* The other steps leave the variables whose initializers are being visited.
LEMMA SameVariables ==
  ASSUME WalkInv, ScopesInv, DataInv, Next, ~PushHint, ~(InsertVariable /\ Drops)
  PROVE  /\ \A d \in Variables : EndIn(d)' <=> EndIn(d)
         /\ \A i \in DOMAIN todo' : todo'[i].op = "end" /\ todo'[i].node \in Variables =>
              \E j \in DOMAIN todo : todo'[i] = todo[j]
<1>0. PICK n : n = Head(todo).node
  OBVIOUS
<1>1. CASE Stops
  BY <1>1 DEF Stops, EndIn
<1>2. CASE Drops
  <2>1. n # Null /\ todo # <<>> /\ (Head(todo).op = "end" => n \notin Variables)
    <3>1. ~VisitNull /\ ~Finish /\ ~VisitNumberUnhinted
      BY <1>2 DEF Drops, VisitNull, Finish, VisitNumberUnhinted
    <3>2. CASE LeaveScope
      BY <1>0, <3>2, EndType DEF LeaveScope, Variables, Variable, ScopedKinds
    <3>3. CASE ~LeaveScope
      BY <1>0, <1>2, <3>1, <3>3
         DEF Next, EnterScope, VisitParts, VisitUntyped, RejectRedeclared, RejectBare, SkipUnknown,
             VisitFixed, VisitNumber, Beginning
    <3> QED BY <3>2, <3>3
  <2>2. \A d \in Variables : EndIn(d)' <=> EndIn(d)
    BY <1>0, <1>2, <2>1, EndsDropped, EndsAbove DEF Bracketed
  <2>3. \A i \in DOMAIN todo' : \E j \in DOMAIN todo : todo'[i] = todo[j]
    BY <1>2, DropItems
  <2> QED BY <2>2, <2>3
<1>3. CASE EnterScope \/ VisitParts
  <2>1. PICK f : Opens(f)
    BY <1>3, EnterScopeOpens, VisitPartsOpens
  <2>2. n \notin Variables
    BY <1>0, <1>3 DEF EnterScope, VisitParts, Beginning, ScopedKinds, Variable, Variables
  <2>3. \A d \in Variables : EndIn(d)' <=> EndIn(d)
    BY <1>0, <2>1, <2>2, EndsOpened DEF Bracketed
  <2>4. ASSUME NEW i \in DOMAIN todo', todo'[i].op = "end", todo'[i].node \in Variables
        PROVE  \E j \in DOMAIN todo : todo'[i] = todo[j]
    <3>1. IsFront(f, n) /\ prog \in Programs
      BY <1>0, <2>1, OpensFront DEF WalkInv
    <3>2. \A k \in DOMAIN f : f[k].op = "begin" \/ f[k].node = n
      BY <3>1, FrontType
    <3>3. \/ \E k \in DOMAIN f : todo'[i] = f[k]
          \/ \E j \in DOMAIN todo : j > 1 /\ todo'[i] = todo[j]
      BY <2>1, OpenItems
    <3> QED BY <2>2, <2>4, <3>2, <3>3
  <2> QED BY <2>3, <2>4
<1> QED BY <1>1, <1>2, <1>3, ActionShape

HasNull == \E n \in DOMAIN prog : \E k \in DOMAIN prog[n].kids : prog[n].kids[k] = Null

LastOpen(d) == \A e \in Variables : EndIn(e) => d \notin Above[e]

DepthInv ==
  /\ (\A d \in Variables : ~EndIn(d)) => Len(hints) <= 1
  /\ \A i \in DOMAIN todo : todo[i].op = "end" /\ todo[i].node \in Variables =>
       LET d == todo[i].node
       IN  /\ Enclosing(d) = {} => todo[i].size <= 1
           /\ LastOpen(d) =>
                \/ Len(hints) = todo[i].size + 1
                \/ Len(hints) <= 1 /\ \E e \in Variables : d \in Enclosing(e)
           /\ LastOpen(d) /\ Enclosing(d) = {} /\ FlatIn(d) => Len(hints) >= 1

NullsInv == \A i \in DOMAIN todo : todo[i].node = Null => HasNull

LEMMA PushDepth ==
  ASSUME BaseInv, DepthInv, Next, PushHint
  PROVE  DepthInv'
<1>0. WalkInv /\ ScopesInv /\ DataInv /\ prog \in Programs /\ hints \in Seq(Type)
  BY DEF BaseInv, WalkInv, DataInv
<1>1. PICK n, L : n = Head(todo).node /\ L = Len(hints)
  OBVIOUS
<1>2. PICK f : f = Visits(prog[n].kids) \o <<End(n, L)>>
  OBVIOUS
<1>3. n \in Variables /\ L \in Nat /\ Opens(f)
  BY <1>0, <1>1, <1>2, PushHintOpens
<1>4. n \in DOMAIN prog /\ n # Null /\ todo # <<>> /\ prog[n] \in Node /\ Head(todo).op = "begin"
  BY <1>0, <1>1, BeginType DEF PushHint
<1>5. prog' = prog /\ Len(hints') = L + 1
  <2>1. hints' = Append(hints, DeclaredType(n)) /\ prog' = prog
    BY <1>1 DEF PushHint, This
  <2>2. DeclaredType(n) \in Type
    BY <1>4, DeclaredTypeType
  <2> QED BY <1>0, <1>1, <2>1, <2>2, Pushed
<1>6. \A d \in Variables : EndIn(d)' <=> EndIn(d) \/ d = n
  BY <1>0, <1>1, <1>3, EndsOpened DEF Bracketed
<1>7. \A d \in Variables : EndIn(d) <=> d \in Enclosing(n)
  BY <1>0, <1>1, <1>4, EndsAbove DEF Bracketed, Enclosing
<1>8. \A k \in DOMAIN f : f[k].op = "end" => f[k].node = n /\ f[k].size = L
  <2> SUFFICES ASSUME NEW k \in DOMAIN f, f[k].op = "end"
               PROVE  f[k].node = n /\ f[k].size = L
    OBVIOUS
  <2>1. IsFront(f, n)
    BY <1>1, <1>3, OpensFront
  <2>2. k = Len(f)
    BY <1>0, <2>1, FrontType
  <2>3. PICK v, e : v = Visits(prog[n].kids) /\ e = End(n, L)
    OBVIOUS
  <2>4. v \in Seq(Visit) /\ f = v \o <<e>> /\ e.node = n /\ e.size = L
    BY <1>0, <1>2, <1>4, <2>3, KidsType DEF End
  <2>5. f[Len(f)] = e
    BY <2>4
  <2> QED BY <2>2, <2>4, <2>5
<1>9. PICK t, h : t = todo' /\ h = Len(hints')
  OBVIOUS
<1>10. EndIn(n)'
  BY <1>3, <1>6
<1>11. /\ Variables' = Variables /\ Above' = Above
       /\ \A d : Enclosing(d)' = Enclosing(d)
       /\ \A d : FlatIn(d)' <=> FlatIn(d)
  BY <1>5, TreeStays DEF Enclosing, FlatIn
<1>12. ASSUME NEW i \in DOMAIN t, t[i].op = "end", t[i].node \in Variables
       PROVE  /\ Enclosing(t[i].node) = {} => t[i].size <= 1
              /\ LastOpen(t[i].node)' => h = t[i].size + 1 /\ h >= 1
  <2>1. \/ \E k \in DOMAIN f : t[i] = f[k]
        \/ \E j \in DOMAIN todo : j > 1 /\ t[i] = todo[j]
    BY <1>0, <1>3, <1>9, OpenItems
  <2>2. CASE \E k \in DOMAIN f : t[i] = f[k]
    <3>1. t[i].node = n /\ t[i].size = L
      BY <1>8, <1>12, <2>2
    <3>2. Enclosing(n) = {} => L <= 1
      BY <1>1, <1>7 DEF DepthInv
    <3> QED BY <1>3, <1>5, <1>9, <3>1, <3>2
  <2>3. CASE \E j \in DOMAIN todo : j > 1 /\ t[i] = todo[j]
    <3>1. Enclosing(t[i].node) = {} => t[i].size <= 1
      BY <1>12, <2>3 DEF DepthInv
    <3>2. t[i].node \in Above[n]
      BY <1>7, <1>12, <2>3 DEF EndIn, Enclosing
    <3>3. ~LastOpen(t[i].node)'
      BY <1>3, <1>10, <1>11, <3>2 DEF LastOpen
    <3> QED BY <3>1, <3>3
  <2> QED BY <2>1, <2>2, <2>3
<1> QED BY <1>3, <1>9, <1>10, <1>11, <1>12 DEF DepthInv

LEMMA InsertDepth ==
  ASSUME BaseInv, DepthInv, Next, InsertVariable, Drops
  PROVE  DepthInv'
<1>0. WalkInv /\ ScopesInv /\ DataInv /\ NamesInv /\ prog \in Programs /\ hints \in Seq(Type)
  BY DEF BaseInv, WalkInv, DataInv
<1>1. PICK n, L, s : n = Head(todo).node /\ L = Len(hints) /\ s = Head(todo).size
  OBVIOUS
<1>2. n \in Variables /\ n \in DOMAIN prog /\ n # Null /\ EndIn(n)
  BY <1>0, <1>1, Inserting
<1>3. /\ todo # <<>> /\ 1 \in DOMAIN todo /\ Head(todo) = todo[1] /\ Head(todo).op = "end"
      /\ s \in Nat /\ L \in Nat /\ prog' = prog /\ n \notin Above[n]
  <2>1. todo # <<>> /\ Head(todo).op = "end" /\ prog' = prog
    BY DEF InsertVariable, Ending, Drops
  <2>2. n \notin Above[n]
    BY <1>0, <1>1, <1>2, <2>1, EndsAbove DEF Bracketed
  <2> QED BY <1>0, <1>1, <2>1, <2>2, HeadType DEF Visit
<1>4. LastOpen(n)
  <2>1. \A e \in Variables : EndIn(e) => e \in Above[n] \/ e = n
    BY <1>0, <1>1, <1>2, <1>3, EndsAbove DEF Bracketed
  <2>2. \A e \in Above[n] : n \notin Above[e]
    BY <1>0, <1>2, <1>3, AboveTransitive
  <2> QED BY <1>3, <2>1, <2>2 DEF LastOpen
<1>5. \A d \in Variables : EndIn(d)' <=> d \in Enclosing(n)
  BY <1>0, <1>1, <1>2, <1>3, EndsDropped DEF Bracketed, Enclosing
<1>6. Len(hints') = L - s /\ s <= L
  <2>1. ~(L < s)
    <3>1. phase = "check" /\ phase' = phase
      BY DEF InsertVariable, Ending, Drops
    <3> QED BY <1>1, <3>1 DEF InsertVariable
  <2>2. hints' = SubSeq(hints, 1, L - s)
    BY <1>1, <2>1 DEF InsertVariable, Popped
  <2> QED BY <1>0, <1>1, <1>3, <2>1, <2>2
<1>7. PICK t, h : t = todo' /\ h = Len(hints')
  OBVIOUS
<1>8. L = s + 1 \/ (L <= 1 /\ \E e \in Variables : n \in Enclosing(e))
  BY <1>1, <1>2, <1>3, <1>4 DEF DepthInv
<1>9. h <= 1 /\ (L = s + 1 => h = 1)
  <2>1. h = L - s
    BY <1>6, <1>7
  <2> QED BY <1>3, <1>8, <2>1
<1>10. /\ Variables' = Variables /\ Above' = Above
       /\ \A d : Enclosing(d)' = Enclosing(d)
       /\ \A d : FlatIn(d)' <=> FlatIn(d)
  BY <1>3, TreeStays DEF Enclosing, FlatIn
<1>11. ASSUME NEW i \in DOMAIN t, t[i].op = "end", t[i].node \in Variables
       PROVE  /\ Enclosing(t[i].node) = {} => t[i].size <= 1
              /\ \E e \in Variables : t[i].node \in Enclosing(e)
              /\ FlatIn(t[i].node) => h >= 1
  <2>1. PICK j \in DOMAIN todo : t[i] = todo[j]
    BY <1>0, <1>7, DropItems
  <2>2. PICK d : d = t[i].node
    OBVIOUS
  <2>3. d \in Enclosing(n) /\ d \in Variables /\ d \in Above[n]
    BY <1>5, <1>7, <1>11, <2>2 DEF EndIn, Enclosing
  <2>4. Enclosing(d) = {} => t[i].size <= 1
    BY <1>11, <2>1, <2>2 DEF DepthInv
  <2>5. ASSUME FlatIn(d) PROVE h >= 1
    <3>1. ASSUME NEW e \in Variables, n \in Enclosing(e) PROVE FALSE
      <4>1. e \in DOMAIN prog /\ n \in Above[e]
        BY <3>1 DEF Variables, Enclosing
      <4>2. d \in Enclosing(e)
        BY <1>0, <2>3, <4>1, AboveTransitive DEF Enclosing
      <4>3. n = d
        BY <2>5, <3>1, <4>2 DEF FlatIn
      <4> QED BY <1>3, <2>3, <4>3
    <3> QED BY <1>8, <1>9, <3>1
  <2> QED BY <1>2, <2>2, <2>3, <2>4, <2>5
<1> QED BY <1>7, <1>9, <1>10, <1>11 DEF DepthInv

LEMMA DepthPreserved ==
  ASSUME BaseInv, DepthInv, Next
  PROVE  DepthInv'
<1>0. WalkInv /\ ScopesInv /\ DataInv /\ NamesInv
  BY DEF BaseInv
<1>1. CASE ~PushHint /\ ~(InsertVariable /\ Drops)
  <2>1. hints' = hints /\ prog' = prog
    BY <1>0, <1>1, HintChanges, StepShape DEF DataInv, Stops, Drops, Opens
  <2>2. PICK t : t = todo'
    OBVIOUS
  <2>3. /\ \A d \in Variables : EndIn(d)' <=> EndIn(d)
        /\ \A i \in DOMAIN t : t[i].op = "end" /\ t[i].node \in Variables =>
             \E j \in DOMAIN todo : t[i] = todo[j]
    BY <1>0, <1>1, <2>2, SameVariables
  <2>4. /\ Variables' = Variables /\ Above' = Above
        /\ \A d : Enclosing(d)' = Enclosing(d)
        /\ \A d : FlatIn(d)' <=> FlatIn(d)
    BY <2>1, TreeStays DEF Enclosing, FlatIn
  <2>5. \A d : LastOpen(d)' <=> LastOpen(d)
    BY <2>3, <2>4 DEF LastOpen
  <2>6. ASSUME NEW i \in DOMAIN t, t[i].op = "end", t[i].node \in Variables
        PROVE  LET d == t[i].node
               IN  /\ Enclosing(d) = {} => t[i].size <= 1
                   /\ LastOpen(d) =>
                        \/ Len(hints) = t[i].size + 1
                        \/ Len(hints) <= 1 /\ \E e \in Variables : d \in Enclosing(e)
                   /\ LastOpen(d) /\ Enclosing(d) = {} /\ FlatIn(d) => Len(hints) >= 1
    BY <2>3, <2>6 DEF DepthInv
  <2>7. (\A d \in Variables : ~EndIn(d)') => Len(hints') <= 1
    BY <2>1, <2>3 DEF DepthInv
  <2> QED BY <2>1, <2>2, <2>4, <2>5, <2>6, <2>7 DEF DepthInv
<1> QED BY <1>1, PushDepth, InsertDepth

\* Null is visited only if a node has it for a kid.
LEMMA NullsPreserved ==
  ASSUME BaseInv, NullsInv, Next
  PROVE  NullsInv'
<1>0. WalkInv /\ DataInv /\ prog \in Programs
  BY DEF BaseInv, WalkInv
<1>1. prog' = prog
  BY <1>0, StepShape DEF DataInv, Stops, Drops, Opens
<1>2. HasNull' <=> HasNull
  BY <1>1 DEF HasNull
<1>3. CASE Stops
  BY <1>2, <1>3 DEF NullsInv, Stops
<1>4. CASE Drops
  <2>1. \A i \in DOMAIN todo' : \E j \in DOMAIN todo : todo'[i] = todo[j]
    BY <1>0, <1>4, DropItems
  <2> QED BY <1>2, <2>1 DEF NullsInv
<1>5. CASE \E f : Opens(f)
  <2>1. PICK f : Opens(f)
    BY <1>5
  <2>2. PICK n : n = Head(todo).node
    OBVIOUS
  <2>3. \A k \in DOMAIN f : f[k].node = Null => HasNull
    <3> SUFFICES ASSUME NEW k \in DOMAIN f, f[k].node = Null PROVE HasNull
      OBVIOUS
    <3>1. n \in DOMAIN prog /\ n # Null
      BY <1>0, <2>1, <2>2, ProgramType DEF Opens, IsOpened
    <3>2. PICK v : v = Visits(prog[n].kids)
      OBVIOUS
    <3>3. /\ v \in Seq(Visit) /\ Len(v) = Len(prog[n].kids) /\ prog[n].kids \in Seq(Nat)
          /\ \A i \in DOMAIN prog[n].kids : v[i] = Begin(prog[n].kids[i])
      BY <1>0, <3>1, <3>2, KidsType
    <3>4. DOMAIN v = DOMAIN prog[n].kids
      BY <3>3
    <3>5. k \in DOMAIN v /\ f[k] = v[k]
      <4>1. CASE f = v
        BY <4>1
      <4>2. CASE \E size \in Nat : f = v \o <<End(n, size)>>
        <5>1. PICK e : e.node = n /\ f = v \o <<e>>
          BY <4>2 DEF End
        <5>2. k # Len(v) + 1
          BY <3>1, <3>3, <5>1
        <5> QED BY <3>3, <5>1, <5>2
      <4> QED BY <2>1, <2>2, <3>2, <4>1, <4>2 DEF Opens, IsOpened
    <3>6. prog[n].kids[k] = Null
      <4>1. v[k] = Begin(prog[n].kids[k])
        BY <3>3, <3>4, <3>5
      <4> QED BY <3>5, <4>1 DEF Begin
    <3> QED BY <3>1, <3>4, <3>5, <3>6 DEF HasNull
  <2>4. ASSUME NEW i \in DOMAIN todo', todo'[i].node = Null
        PROVE  HasNull
    <3>1. \/ \E k \in DOMAIN f : todo'[i] = f[k]
          \/ \E j \in DOMAIN todo : j > 1 /\ todo'[i] = todo[j]
      BY <1>0, <2>1, OpenItems
    <3> QED BY <2>3, <2>4, <3>1 DEF NullsInv
  <2> QED BY <1>2, <2>4 DEF NullsInv
<1> QED BY <1>0, <1>3, <1>4, <1>5, StepShape DEF DataInv

\* Why the pass stops, when it does.
DeepIn(n) == \E d \in Variables : Nesting(d) >= 2 /\ n \in Enclosing(d)
DeepAround(n) == \E d \in Variables : Nesting(d) >= 2 /\ Enclosing(d) \intersect Enclosing(n) # {}

LEMMA UnderflowReason ==
  ASSUME BaseInv, DepthInv, InsertVariable, Len(hints) < Head(todo).size,
         NEW n, n = Head(todo).node
  PROVE  DeepIn(n)
<1>0. WalkInv /\ DataInv /\ prog \in Programs /\ Len(hints) \in Nat
  BY DEF BaseInv, WalkInv, DataInv
<1>1. n \in DOMAIN prog /\ n # Null /\ todo # <<>> /\ n \in Variables /\ Head(todo).op = "end"
  BY <1>0, EndType DEF InsertVariable, Variables
<1>2. PICK s, h : s = Head(todo).size /\ h = Len(hints)
  OBVIOUS
<1>3. 1 \in DOMAIN todo /\ Head(todo) = todo[1] /\ s \in Nat /\ h \in Nat /\ h < s
  BY <1>0, <1>1, <1>2, HeadType DEF Visit
<1>4. LastOpen(n)
  <2>1. n \notin Above[n] /\ \A e \in Variables : EndIn(e) => e \in Above[n] \/ e = n
    BY <1>0, <1>1, EndsAbove DEF Bracketed
  <2>2. \A e \in Above[n] : n \notin Above[e]
    BY <1>0, <1>1, <2>1, AboveTransitive
  <2> QED BY <2>1, <2>2 DEF LastOpen
<1>5. /\ Enclosing(n) = {} => s <= 1
      /\ h = s + 1 \/ (h <= 1 /\ \E e \in Variables : n \in Enclosing(e))
      /\ Enclosing(n) = {} /\ FlatIn(n) => h >= 1
  BY <1>1, <1>2, <1>3, <1>4 DEF DepthInv
<1>6. PICK e \in Variables : n \in Enclosing(e)
  BY <1>3, <1>5
<1>7. Enclosing(n) # {} \/ ~FlatIn(n)
  BY <1>3, <1>5
<1> QED BY <1>0, <1>1, <1>6, <1>7, DeepWithin DEF DeepIn

LEMMA UnhintedReason ==
  ASSUME BaseInv, DepthInv, VisitNumberUnhinted, NEW n, n = Head(todo).node, Enclosing(n) # {}
  PROVE  DeepAround(n)
<1>0. WalkInv /\ DataInv /\ prog \in Programs
  BY DEF BaseInv, WalkInv
<1>1. todo # <<>> /\ n \in DOMAIN prog /\ n # Null /\ Head(todo).op = "begin" /\ Len(hints) = 0
  BY <1>0, BeginType DEF VisitNumberUnhinted
<1>2. PICK d \in Enclosing(n) : \A e \in Enclosing(n) : d \notin Above[e]
  BY <1>0, <1>1, InnermostAround
<1>3. \A e \in Variables : EndIn(e) <=> e \in Enclosing(n)
  BY <1>0, <1>1, EndsAbove DEF Bracketed, Enclosing
<1>4. d \in Variables /\ EndIn(d) /\ LastOpen(d)
  BY <1>2, <1>3 DEF LastOpen, Enclosing
<1>5. PICK j \in DOMAIN todo : todo[j].op = "end" /\ todo[j].node = d
  BY <1>4 DEF EndIn
<1>6. todo[j].size \in Nat
  <2>1. todo[j] \in Visit
    BY <1>0 DEF WalkInv
  <2> QED BY <2>1 DEF Visit
<1>7. /\ 0 = todo[j].size + 1 \/ \E e \in Variables : d \in Enclosing(e)
      /\ Enclosing(d) = {} /\ FlatIn(d) => 0 >= 1
  BY <1>1, <1>4, <1>5 DEF DepthInv
<1>8. PICK e \in Variables : d \in Enclosing(e)
  BY <1>6, <1>7
<1>9. Enclosing(d) # {} \/ ~FlatIn(d)
  BY <1>7
<1>10. \E g \in Variables : Nesting(g) >= 2 /\ d \in Enclosing(g)
  BY <1>0, <1>4, <1>8, <1>9, DeepWithin
<1> QED BY <1>2, <1>10 DEF DeepAround

LEMMA StopReasons ==
  ASSUME BaseInv, DepthInv, NullsInv, Next, NEW n, n = Head(todo).node
  PROVE  /\ phase' = "null" => HasNull
         /\ phase' = "underflow" => todo' = todo /\ DeepIn(n)
         /\ phase' = "unhinted" => todo' = todo /\ (Enclosing(n) = {} \/ DeepAround(n))
<1>0. WalkInv
  BY DEF BaseInv
<1>1. phase' \in {"null", "underflow", "unhinted"}
        => \/ phase' = "null" /\ VisitNull
           \/ phase' = "underflow" /\ InsertVariable /\ Len(hints) < Head(todo).size
           \/ phase' = "unhinted" /\ VisitNumberUnhinted
  BY DEF Next, EnterScope, LeaveScope, VisitParts, VisitUntyped, VisitNull, RejectRedeclared,
         RejectBare, SkipUnknown, Drop, PushHint, InsertVariable, Ending, Beginning, VisitFixed,
         VisitNumber, TypeLiteral, VisitNumberUnhinted, Finish
<1>2. CASE VisitNull
  <2>1. todo # <<>> /\ Head(todo).node = Null /\ phase' = "null"
    <3>1. todo # <<>> /\ Head(todo) = Begin(Null) /\ phase' = "null"
      BY <1>2 DEF VisitNull
    <3>2. Begin(Null).node = Null
      BY DEF Begin
    <3> QED BY <3>1, <3>2
  <2> QED BY <1>0, <2>1, HeadType DEF NullsInv
<1>3. InsertVariable /\ Len(hints) < Head(todo).size => todo' = todo /\ DeepIn(n)
  BY UnderflowReason DEF InsertVariable
<1>4. VisitNumberUnhinted => todo' = todo /\ (Enclosing(n) = {} \/ DeepAround(n))
  BY UnhintedReason DEF VisitNumberUnhinted
<1> QED BY <1>1, <1>2, <1>3, <1>4

StopInv ==
  /\ DepthInv
  /\ NullsInv
  /\ phase = "null" => HasNull
  /\ phase = "underflow" => DeepIn(This)
  /\ phase = "unhinted" => Enclosing(This) = {} \/ DeepAround(This)

LEMMA StopPreserved ==
  ASSUME BaseInv, StopInv, [Next]_vars
  PROVE  StopInv'
<1>0. prog' = prog
  BY StepShape DEF Stops, Drops, Opens, BaseInv, DataInv, vars
<1>1. /\ Above' = Above /\ Variables' = Variables
      /\ \A n : Enclosing(n)' = Enclosing(n)
  BY <1>0, TreeStays DEF Enclosing
<1>2. /\ HasNull' <=> HasNull
      /\ \A n : (DeepIn(n)' <=> DeepIn(n)) /\ (DeepAround(n)' <=> DeepAround(n))
      /\ \A d : FlatIn(d)' <=> FlatIn(d)
  BY <1>0, <1>1 DEF HasNull, DeepIn, DeepAround, FlatIn, Nesting
<1>3. CASE Next
  <2>1. DepthInv'
    BY <1>3, DepthPreserved DEF StopInv
  <2>2. NullsInv'
    BY <1>3, NullsPreserved DEF StopInv
  <2>3. PICK n : n = Head(todo).node
    OBVIOUS
  <2>4. /\ phase' = "null" => HasNull
        /\ phase' = "underflow" => todo' = todo /\ DeepIn(n)
        /\ phase' = "unhinted" => todo' = todo /\ (Enclosing(n) = {} \/ DeepAround(n))
    BY <1>3, <2>3, StopReasons DEF StopInv
  <2>5. todo' = todo => This' = n
    BY <2>3 DEF This
  <2> QED BY <1>1, <1>2, <2>1, <2>2, <2>4, <2>5 DEF StopInv
<1>4. CASE UNCHANGED vars
  <2>1. /\ todo' = todo /\ phase' = phase /\ hints' = hints /\ This' = This
        /\ \A d : EndIn(d)' <=> EndIn(d)
    BY <1>4 DEF vars, EndIn, This
  <2>2. \A d : LastOpen(d)' <=> LastOpen(d)
    BY <1>1, <2>1 DEF LastOpen
  <2>3. DepthInv' <=> DepthInv
    BY <1>1, <1>2, <2>1, <2>2 DEF DepthInv
  <2>4. NullsInv' <=> NullsInv
    BY <1>2, <2>1 DEF NullsInv
  <2> QED BY <1>1, <1>2, <2>1, <2>3, <2>4 DEF StopInv
<1> QED BY <1>3, <1>4

\* The pass stops early only on a `return` without a value, on a number in no
\* initializer, or because of a variable that has two others around it: no more
\* hints are popped than there are (HintCtxExit) unless such a one is in the
\* initializer of the variable itself, and an initializer finds HintStack empty
\* (visit(NumLiteral)) only if one is in an initializer around the number.
THEOREM StopsAreExplained == Spec => []StopsExplained
<1>1. Init => StopInv
  <2> SUFFICES ASSUME Init PROVE StopInv
    OBVIOUS
  <2>1. phase = "check" /\ hints = <<>>
    BY DEF Init
  <2>2. PICK b : b = Begin(Root)
    OBVIOUS
  <2>3. b.op = "begin" /\ b.node # Null /\ todo = <<b>>
    BY <2>2 DEF Begin, Init, Root, Null
  <2>4. DOMAIN todo = {1} /\ todo[1] = b
    BY <2>3
  <2> QED BY <2>1, <2>3, <2>4 DEF StopInv, DepthInv, NullsInv
<1>2. BaseInv /\ StopInv /\ [Next]_vars => StopInv'
  BY StopPreserved
<1>3. StopInv => StopsExplained
  BY DEF StopInv, StopsExplained, HasNull, DeepIn, DeepAround
<1> QED BY <1>1, <1>2, <1>3, BaseAlways, PTL DEF Spec

-----------------------------------------------------------------------------
(* Each node is visited at most once: what is still to begin is below      *)
(* nothing else that is still to come.                                     *)

OnceInv ==
  \A i, j \in DOMAIN todo :
    i # j /\ todo[i].op = "begin" /\ todo[i].node # Null /\ todo[j].node # Null
      => todo[i].node # todo[j].node /\ todo[i].node \notin Above[todo[j].node]

LEMMA FrontKids ==
  ASSUME prog \in Programs, NEW n, NEW f, IsOpened(f, n)
  PROVE  /\ n \in DOMAIN prog
         /\ \A k \in DOMAIN prog[n].kids :
              k \in DOMAIN f /\ f[k].op = "begin" /\ f[k].node = prog[n].kids[k]
         /\ \A k \in DOMAIN f : k \in DOMAIN prog[n].kids \/ f[k].op = "end"
<1>1. n \in DOMAIN prog
  BY DEF IsOpened
<1>2. PICK v : v = Visits(prog[n].kids)
  OBVIOUS
<1>3. /\ v \in Seq(Visit) /\ Len(v) = Len(prog[n].kids) /\ prog[n].kids \in Seq(Nat)
      /\ \A i \in DOMAIN prog[n].kids : v[i] = Begin(prog[n].kids[i])
  BY <1>1, <1>2, KidsType
<1>4. DOMAIN v = DOMAIN prog[n].kids
  BY <1>3
<1>5. \A i \in DOMAIN v : v[i].op = "begin" /\ v[i].node = prog[n].kids[i]
  <2> TAKE i \in DOMAIN v
  <2>1. v[i] = Begin(prog[n].kids[i])
    BY <1>3, <1>4
  <2> QED BY <2>1 DEF Begin
<1>6. CASE f = v
  BY <1>1, <1>4, <1>5, <1>6
<1>7. CASE \E size \in Nat : f = v \o <<End(n, size)>>
  <2>1. PICK e : e.op = "end" /\ f = v \o <<e>>
    BY <1>7 DEF End
  <2>2. /\ DOMAIN f = 1..(Len(v) + 1) /\ DOMAIN v = 1..Len(v) /\ Len(v) \in Nat
        /\ f[Len(v) + 1] = e /\ \A k \in 1..Len(v) : f[k] = v[k]
    BY <1>3, <2>1
  <2>3. \A k \in DOMAIN f : k \in 1..Len(v) \/ k = Len(v) + 1
    BY <2>2
  <2>4. \A k \in DOMAIN v : k \in DOMAIN f /\ f[k] = v[k]
    BY <2>2
  <2>5. \A k \in DOMAIN f : k \in DOMAIN v \/ f[k].op = "end"
    BY <2>1, <2>2, <2>3
  <2> QED BY <1>1, <1>4, <1>5, <2>4, <2>5
<1> QED BY <1>2, <1>6, <1>7 DEF IsOpened

LEMMA OnceOpened ==
  ASSUME WalkInv, OnceInv, NEW f, Opens(f)
  PROVE  OnceInv'
<1>0. prog \in Programs /\ todo \in Seq(Visit) /\ todo # <<>> /\ prog' = prog
  BY DEF WalkInv, Opens
<1>1. PICK n, K : n = Head(todo).node /\ K = Len(f)
  OBVIOUS
<1>2. IsOpened(f, n) /\ IsFront(f, n) /\ Head(todo).op = "begin"
  BY <1>1, OpensFront DEF Opens
<1>3. n \in DOMAIN prog /\ n # Null /\ n \notin Above[n]
  <2>1. n \in DOMAIN prog /\ n # Null
    BY <1>0, <1>2, ProgramType DEF IsOpened
  <2> QED BY <1>0, <2>1, AboveLess, ProgramType
<1>4. f \in Seq(Visit) /\ K \in Nat /\ DOMAIN f = 1..K
  BY <1>0, <1>1, <1>2, FrontType
<1>5. \A i \in 1..K :
        /\ f[i].node # Null /\ f[i].op = "begin" =>
             /\ f[i].node \in DOMAIN prog /\ Above[f[i].node] = {n} \union Above[n]
             /\ f[i].node \notin Above[n] /\ f[i].node # n
        /\ f[i].op = "begin" \/ f[i].node = n
  <2> TAKE i \in 1..K
  <2>1. \/ f[i].op = "begin" /\ f[i].node = Null
        \/ f[i].op = "begin" /\ f[i].node \in DOMAIN prog /\ f[i].node > n
           /\ Above[f[i].node] = {n} \union Above[n]
        \/ f[i].op = "end" /\ f[i].node = n
    BY <1>0, <1>2, <1>4, FrontType
  <2>2. ASSUME NEW b \in DOMAIN prog, b > n
        PROVE  b \notin Above[n] /\ b # n
    BY <1>0, <1>3, <2>2, AboveLess, ProgramType
  <2> QED BY <2>1, <2>2
<1>6. ASSUME NEW i \in 1..K, NEW j \in 1..K, i # j, f[i].op = "begin", f[i].node # Null
      PROVE  f[i].node # f[j].node
  <2>1. CASE f[j].op = "end"
    BY <1>5, <1>6, <2>1
  <2>2. CASE f[j].op # "end"
    <3>1. i \in DOMAIN prog[n].kids /\ j \in DOMAIN prog[n].kids
      BY <1>0, <1>2, <1>4, <1>6, <2>2, FrontKids
    <3>2. f[i].node = prog[n].kids[i] /\ f[j].node = prog[n].kids[j]
      BY <1>0, <1>2, <3>1, FrontKids
    <3> QED BY <1>0, <1>3, <1>6, <3>1, <3>2, TreeType
  <2> QED BY <2>1, <2>2
<1>7. PICK t, u : t = todo /\ u = todo'
  OBVIOUS
<1>8. t \in Seq(Visit) /\ t # <<>> /\ u = f \o Tail(t) /\ Head(t) = t[1] /\ 1 \in DOMAIN t
  BY <1>0, <1>7 DEF Opens
<1>9. \A i \in DOMAIN u : i \in Nat /\ (i \in 1..K \/ i - K + 1 \in DOMAIN t)
  BY <1>1, <1>4, <1>8, Shift
<1>10. \A i \in 1..K : i \in DOMAIN u /\ u[i] = f[i]
  BY <1>1, <1>4, <1>8, Shift
<1>11. \A i \in DOMAIN u : i \notin 1..K => u[i] = t[i - K + 1] /\ i > K
  BY <1>1, <1>4, <1>8, Shift
<1>12. \A i, j \in DOMAIN t :
         i # j /\ t[i].op = "begin" /\ t[i].node # Null /\ t[j].node # Null
           => t[i].node # t[j].node /\ t[i].node \notin Above[t[j].node]
  BY <1>7 DEF OnceInv
<1>13. t[1].op = "begin" /\ t[1].node = n
  BY <1>1, <1>2, <1>7, <1>8
<1>14. \A i \in DOMAIN t : t[i].node = Null \/ t[i].node \in DOMAIN prog
  <2> TAKE i \in DOMAIN t
  <2>1. t[i] \in Visit
    BY <1>8
  <2> QED BY <2>1 DEF Visit
<1>15. ASSUME NEW i \in DOMAIN u, NEW j \in DOMAIN u, i # j, u[i].op = "begin",
              u[i].node # Null, u[j].node # Null
       PROVE  u[i].node # u[j].node /\ u[i].node \notin Above[u[j].node]
  <2>1. CASE i \in 1..K /\ j \in 1..K
    <3>1. u[i] = f[i] /\ u[j] = f[j]
      BY <1>10, <2>1
    <3>2. u[i].node # u[j].node
      BY <1>6, <1>15, <2>1, <3>1
    <3>3. Above[u[j].node] \subseteq {n} \union Above[n]
      BY <1>5, <1>15, <2>1, <3>1
    <3> QED BY <1>5, <1>15, <2>1, <3>1, <3>2, <3>3
  <2>2. CASE i \in 1..K /\ j \notin 1..K
    <3>1. j - K + 1 \in DOMAIN t /\ u[j] = t[j - K + 1] /\ j - K + 1 # 1
      BY <1>4, <1>9, <1>11, <2>2
    <3>2. n \notin Above[u[j].node] /\ u[j].node \in DOMAIN prog
      BY <1>3, <1>8, <1>12, <1>13, <1>14, <1>15, <3>1
    <3>3. n \in Above[u[i].node]
      BY <1>5, <1>10, <1>15, <2>2
    <3> QED BY <1>0, <3>2, <3>3, AboveTransitive
  <2>3. CASE i \notin 1..K /\ j \in 1..K
    <3>1. i - K + 1 \in DOMAIN t /\ u[i] = t[i - K + 1] /\ i - K + 1 # 1
      BY <1>4, <1>9, <1>11, <2>3
    <3>2. u[i].node # n /\ u[i].node \notin Above[n] /\ n \notin Above[u[i].node]
      BY <1>3, <1>8, <1>12, <1>13, <1>15, <3>1
    <3>3. u[j].node = n \/ Above[u[j].node] = {n} \union Above[n]
      BY <1>5, <1>10, <1>15, <2>3
    <3> QED BY <3>2, <3>3
  <2>4. CASE i \notin 1..K /\ j \notin 1..K
    <3>1. /\ i - K + 1 \in DOMAIN t /\ u[i] = t[i - K + 1]
          /\ j - K + 1 \in DOMAIN t /\ u[j] = t[j - K + 1]
          /\ i - K + 1 # j - K + 1
      BY <1>4, <1>9, <1>11, <1>15, <2>4
    <3> QED BY <1>12, <1>15, <3>1
  <2> QED BY <2>1, <2>2, <2>3, <2>4
<1>16. Above' = Above
  BY <1>0, TreeStays
<1> QED BY <1>7, <1>15, <1>16 DEF OnceInv

LEMMA OncePreserved ==
  ASSUME WalkInv, OnceInv, hints \in Seq(Type), Next
  PROVE  OnceInv'
<1>1. CASE Stops
  BY <1>1, TreeStays DEF Stops, OnceInv
<1>2. CASE Drops
  <2>1. PICK t, u : t = todo /\ u = todo'
    OBVIOUS
  <2>2. t \in Seq(Visit) /\ t # <<>> /\ u = Tail(t)
    BY <1>2, <2>1 DEF Drops, WalkInv
  <2>3. \A i \in DOMAIN u : i \in Nat /\ i + 1 \in DOMAIN t /\ u[i] = t[i + 1]
    BY <2>2
  <2>4. \A i, j \in DOMAIN t :
         i # j /\ t[i].op = "begin" /\ t[i].node # Null /\ t[j].node # Null
           => t[i].node # t[j].node /\ t[i].node \notin Above[t[j].node]
    BY <2>1 DEF OnceInv
  <2>5. ASSUME NEW i \in DOMAIN u, NEW j \in DOMAIN u, i # j, u[i].op = "begin",
               u[i].node # Null, u[j].node # Null
        PROVE  u[i].node # u[j].node /\ u[i].node \notin Above[u[j].node]
    <3>1. i + 1 # j + 1
      BY <2>3, <2>5
    <3> QED BY <2>3, <2>4, <2>5, <3>1
  <2>6. Above' = Above
    BY <1>2, TreeStays DEF Drops
  <2> QED BY <2>1, <2>5, <2>6 DEF OnceInv
<1>3. CASE \E f : Opens(f)
  BY <1>3, OnceOpened
<1> QED BY <1>1, <1>2, <1>3, StepShape

-----------------------------------------------------------------------------
(* Every variable is answered for: it is to come, or in its scope, or was  *)
(* rejected, or a variable around it was.                                  *)

\* A variable in its scope is not visited again, and had no unknown type.
InsertedInv ==
  /\ \A d \in Variables : Inserted(d) =>
       /\ prog[d].declared # Unknown
       /\ \A i \in DOMAIN todo : todo[i].op = "begin" =>
            todo[i].node # d /\ todo[i].node \notin Above[d]
  /\ \A d \in Variables : EndIn(d) => prog[d].declared # Unknown

\* A table entry that has declarations gets no more.
LEMMA TableGrows ==
  ASSUME BaseInv, Next
  PROVE  \A s \in ScopeNodes, x \in Name : table[s][x] # <<>> => table'[s][x] = table[s][x]
<1>0. WalkInv /\ ScopesInv /\ DataInv /\ NamesInv
  BY DEF BaseInv
<1>1. CASE InsertVariable /\ Drops
  BY <1>0, <1>1, Inserting DEF NameFree
<1> QED BY <1>1, TableChanges

LEMMA ScopeName ==
  ASSUME prog \in Programs, NEW d \in Variables
  PROVE  ScopeOf(d) \in ScopeNodes /\ prog[d].name \in Name /\ d \in DOMAIN prog /\ d # Null
BY VariableScope, ProgramType DEF Variables, Node

LEMMA InsertedStays ==
  ASSUME BaseInv, Next, NEW d \in Variables
  PROVE  /\ table[ScopeOf(d)][prog[d].name] # <<>> =>
              table'[ScopeOf(d)][prog[d].name] = table[ScopeOf(d)][prog[d].name]
         /\ Inserted(d) => table[ScopeOf(d)][prog[d].name] # <<>>
         /\ prog' = prog /\ ScopeOf(d)' = ScopeOf(d)
<1>0. WalkInv /\ ScopesInv /\ DataInv /\ NamesInv /\ prog \in Programs /\ hints \in Seq(Type)
  BY DEF BaseInv, WalkInv, DataInv
<1>1. prog' = prog
  BY <1>0, StepShape DEF Stops, Drops, Opens
<1>2. ScopeOf(d)' = ScopeOf(d)
  BY <1>1, TreeStays DEF ScopeOf
<1>3. table[ScopeOf(d)][prog[d].name] # <<>> =>
        table'[ScopeOf(d)][prog[d].name] = table[ScopeOf(d)][prog[d].name]
  BY <1>0, ScopeName, TableGrows
<1>4. Inserted(d) => table[ScopeOf(d)][prog[d].name] # <<>>
  BY DEF Inserted
<1> QED BY <1>1, <1>2, <1>3, <1>4

\* What has got into its scope in a step is the variable that ends.
LEMMA NewlyInserted ==
  ASSUME BaseInv, Next, NEW d \in Variables, Inserted(d)', ~Inserted(d)
  PROVE  InsertVariable /\ Drops /\ d = Head(todo).node
<1>0. WalkInv /\ ScopesInv /\ DataInv /\ NamesInv /\ prog \in Programs
  BY DEF BaseInv, WalkInv
<1>1. PICK n, t : n = Head(todo).node /\ t = table'
  OBVIOUS
<1>2. prog' = prog /\ ScopeOf(d)' = ScopeOf(d)
  BY InsertedStays
<1>3. \E i \in DOMAIN t[ScopeOf(d)][prog[d].name] : t[ScopeOf(d)][prog[d].name][i] = d
  BY <1>1, <1>2 DEF Inserted
<1>4. t[ScopeOf(d)][prog[d].name] # table[ScopeOf(d)][prog[d].name]
  BY <1>3 DEF Inserted
<1>5. InsertVariable /\ Drops
  BY <1>1, <1>4, TableChanges
<1>6. t[ScopeOf(d)][prog[d].name] = <<n>>
  BY <1>0, <1>1, <1>4, <1>5, ScopeName, Inserting
<1>7. d = n
  BY <1>3, <1>6
<1> QED BY <1>1, <1>5, <1>7

LEMMA InsertedPreserved ==
  ASSUME BaseInv, OnceInv, InsertedInv, Next
  PROVE  InsertedInv'
<1>0. WalkInv /\ ScopesInv /\ DataInv /\ NamesInv /\ prog \in Programs /\ hints \in Seq(Type)
  BY DEF BaseInv, WalkInv, DataInv
<1>1. PICK n : n = Head(todo).node
  OBVIOUS
<1>2. prog' = prog
  BY <1>0, StepShape DEF Stops, Drops, Opens
<1>3. ASSUME NEW d \in Variables, EndIn(d)'
      PROVE  prog[d].declared # Unknown
  <2>1. CASE EndIn(d)
    BY <2>1 DEF InsertedInv
  <2>2. CASE ~EndIn(d)
    BY <1>0, <1>3, <2>2, OpenedVariable DEF PushHint, This
  <2> QED BY <2>1, <2>2
<1>4. ASSUME NEW d \in Variables, Inserted(d), NEW i \in DOMAIN todo', todo'[i].op = "begin"
      PROVE  todo'[i].node # d /\ todo'[i].node \notin Above[d]
  <2>0. d \in DOMAIN prog /\ d # Null /\ Null \notin Above[d]
    <3>1. d \in DOMAIN prog /\ d # Null /\ Null \notin DOMAIN prog
      BY <1>0, ScopeName, ProgramType
    <3> QED BY <1>0, <3>1, AboveLess
  <2>1. CASE \E j \in DOMAIN todo : todo'[i] = todo[j]
    BY <1>4, <2>1 DEF InsertedInv
  <2>2. CASE \E f : Opens(f) /\ \E k \in DOMAIN f : todo'[i] = f[k]
    <3>1. PICK f : Opens(f) /\ \E k \in DOMAIN f : todo'[i] = f[k]
      BY <2>2
    <3>2. PICK k \in DOMAIN f : todo'[i] = f[k]
      BY <3>1
    <3>3. PICK b : b = todo'[i].node
      OBVIOUS
    <3>4. CASE b = Null
      BY <2>0, <3>3, <3>4
    <3>5. CASE b # Null
      <4>1. IsFront(f, n)
        BY <1>1, <3>1, OpensFront
      <4>2. n \in Above[b]
        <5>1. f[k].op = "begin" /\ f[k].node = b
          BY <1>4, <3>2, <3>3
        <5>2. \/ f[k].node = Null
              \/ Above[f[k].node] = {n} \union Above[n]
              \/ f[k].op = "end"
          BY <1>0, <4>1, FrontType
        <5> QED BY <3>5, <5>1, <5>2
      <4>3. n \notin Above[d]
        <5>1. 1 \in DOMAIN todo /\ todo[1].op = "begin" /\ todo[1].node = n
          BY <1>0, <1>1, <3>1, HeadType DEF Opens
        <5> QED BY <1>4, <5>1 DEF InsertedInv
      <4> QED BY <1>0, <2>0, <3>3, <4>2, <4>3, AboveTransitive
    <3> QED BY <3>4, <3>5
  <2>3. CASE Stops
    BY <2>1, <2>3 DEF Stops
  <2>4. CASE Drops
    BY <1>0, <2>1, <2>4, DropItems
  <2>5. CASE \E f : Opens(f)
    <3>1. PICK f : Opens(f)
      BY <2>5
    <3>2. \/ \E k \in DOMAIN f : todo'[i] = f[k]
          \/ \E j \in DOMAIN todo : j > 1 /\ todo'[i] = todo[j]
      BY <1>0, <3>1, OpenItems
    <3> QED BY <2>1, <2>2, <3>1, <3>2
  <2> QED BY <1>0, <2>3, <2>4, <2>5, StepShape
<1>5. ASSUME NEW d \in Variables, Inserted(d)'
      PROVE  /\ prog[d].declared # Unknown
             /\ \A i \in DOMAIN todo' : todo'[i].op = "begin" =>
                  todo'[i].node # d /\ todo'[i].node \notin Above[d]
  <2>1. CASE Inserted(d)
    BY <1>4, <2>1 DEF InsertedInv
  <2>2. CASE ~Inserted(d)
    <3>1. InsertVariable /\ Drops /\ d = n
      BY <1>1, <1>5, <2>2, NewlyInserted
    <3>2. EndIn(n) /\ n # Null /\ n \in Variables /\ n \in DOMAIN prog
      BY <1>0, <1>1, <3>1, Inserting
    <3>3. ASSUME NEW i \in DOMAIN todo', todo'[i].op = "begin"
          PROVE  todo'[i].node # n /\ todo'[i].node \notin Above[n]
      <4>1. PICK j \in DOMAIN todo : j > 1 /\ todo'[i] = todo[j]
        BY <1>0, <3>1, DropItems
      <4>2. CASE todo[j].node = Null
        <5>1. Null \notin DOMAIN prog
          BY <1>0, ProgramType
        <5> QED BY <1>0, <3>2, <4>1, <4>2, <5>1, AboveLess
      <4>3. CASE todo[j].node # Null
        <5>1. 1 \in DOMAIN todo /\ todo[1].node = n /\ j # 1
          BY <1>0, <1>1, <3>1, <4>1, HeadType DEF Drops
        <5> QED BY <3>2, <3>3, <4>1, <4>3, <5>1 DEF OnceInv
      <4> QED BY <4>2, <4>3
    <3> QED BY <3>1, <3>2, <3>3 DEF InsertedInv
  <2> QED BY <2>1, <2>2
<1>6. Variables' = Variables /\ Above' = Above
  BY <1>2, TreeStays
<1> QED BY <1>2, <1>3, <1>5, <1>6 DEF InsertedInv

\* A variable that is rejected, and so never in its scope.
Gone(e) ==
  \/ prog[e].declared = Unknown
  \/ table[ScopeOf(e)][prog[e].name] # <<>> /\ ~Inserted(e)

ToCome(d) ==
  \E i \in DOMAIN todo :
    \/ todo[i].node = d
    \/ todo[i].op = "begin" /\ todo[i].node \in Above[d]

Answered(d) ==
  \/ Inserted(d)
  \/ Reported("untyped", d)
  \/ prog[d].declared = Unknown
  \/ /\ table[ScopeOf(d)][prog[d].name] # <<>>
     /\ Reported("redefinition", table[ScopeOf(d)][prog[d].name][1])
  \/ \E e \in Enclosing(d) : Gone(e)

AnswerInv ==
  /\ \A d \in Variables : ToCome(d) \/ Answered(d)
  /\ phase = "done" => todo = <<>>

\* Diagnostics stay.
LEMMA DiagsGrow ==
  ASSUME BaseInv, Next
  PROVE  \A i \in DOMAIN diags : i \in DOMAIN diags' /\ diags'[i] = diags[i]
<1>0. WalkInv /\ DataInv /\ diags \in Seq(Diagnostic)
  BY DEF BaseInv, DataInv
<1>1. \A x, y : \A i \in DOMAIN diags :
        /\ i \in DOMAIN Append(diags, x) /\ Append(diags, x)[i] = diags[i]
        /\ i \in DOMAIN (diags \o <<x, y>>) /\ (diags \o <<x, y>>)[i] = diags[i]
  BY <1>0
<1>2. \/ diags' = diags
      \/ \E x : diags' = Append(diags, x)
      \/ \E x, y : diags' = diags \o <<x, y>>
  BY DEF Next, EnterScope, LeaveScope, VisitParts, VisitUntyped, VisitNull, RejectRedeclared,
         RejectBare, SkipUnknown, Report, PushHint, InsertVariable, VisitFixed,
         VisitNumber, VisitNumberUnhinted, Finish
<1> QED BY <1>1, <1>2

LEMMA AnsweredStays ==
  ASSUME BaseInv, Next, NEW d \in Variables, Answered(d)
  PROVE  Answered(d)'
<1>0. prog' = prog /\ ScopeOf(d)' = ScopeOf(d) /\ Enclosing(d)' = Enclosing(d)
  BY InsertedStays, TreeStays DEF Enclosing
<1>1. \A what, m : Reported(what, m) =>
        \E i \in DOMAIN diags' : diags'[i] = <<what, m>>
  BY DiagsGrow DEF Reported
<1>2. CASE Inserted(d)
  <2>1. Inserted(d)'
    BY <1>0, <1>2, InsertedStays DEF Inserted
  <2> QED BY <2>1 DEF Answered
<1>3. CASE Reported("untyped", d)
  BY <1>1, <1>3 DEF Answered, Reported
<1>4. CASE prog[d].declared = Unknown
  BY <1>0, <1>4 DEF Answered
<1>5. CASE /\ table[ScopeOf(d)][prog[d].name] # <<>>
           /\ Reported("redefinition", table[ScopeOf(d)][prog[d].name][1])
  <2>1. PICK m : m = table[ScopeOf(d)][prog[d].name][1]
    OBVIOUS
  <2>2. /\ table'[ScopeOf(d)][prog[d].name] # <<>>
        /\ table'[ScopeOf(d)][prog[d].name][1] = m
    BY <1>5, <2>1, InsertedStays
  <2>3. \E i \in DOMAIN diags' : diags'[i] = <<"redefinition", m>>
    BY <1>1, <1>5, <2>1
  <2>4. Reported("redefinition", table[ScopeOf(d)][prog[d].name][1])'
    BY <1>0, <2>2, <2>3 DEF Reported
  <2> QED BY <1>0, <2>2, <2>4 DEF Answered
<1>6. CASE \E e \in Enclosing(d) : Gone(e)
  <2>1. PICK e \in Enclosing(d) : Gone(e)
    BY <1>6
  <2>2. e \in Variables
    BY DEF Enclosing
  <2>3. ScopeOf(e)' = ScopeOf(e)
    BY <2>2, InsertedStays
  <2>4. Gone(e)'
    <3>1. CASE prog[e].declared = Unknown
      BY <1>0, <3>1 DEF Gone
    <3>2. CASE table[ScopeOf(e)][prog[e].name] # <<>> /\ ~Inserted(e)
      <4>1. table'[ScopeOf(e)][prog[e].name] = table[ScopeOf(e)][prog[e].name]
        BY <2>2, <3>2, InsertedStays
      <4>2. ~Inserted(e)'
        BY <1>0, <2>3, <3>2, <4>1 DEF Inserted
      <4> QED BY <1>0, <2>3, <3>2, <4>1, <4>2 DEF Gone
    <3> QED BY <2>1, <3>1, <3>2 DEF Gone
  <2> QED BY <1>0, <2>1, <2>4 DEF Answered
<1> QED BY <1>2, <1>3, <1>4, <1>5, <1>6 DEF Answered

\* What is below a node is below one of its kids, or is one.
LEMMA KidTowards ==
  ASSUME prog \in Programs, NEW d \in DOMAIN prog, NEW n \in Above[d]
  PROVE  \E k \in DOMAIN prog[n].kids : prog[n].kids[k] = d \/ prog[n].kids[k] \in Above[d]
<1> DEFINE S == {m \in DOMAIN prog : \A q \in Above[m] :
                   \E k \in DOMAIN prog[q].kids : prog[q].kids[k] = m \/ prog[q].kids[k] \in Above[m]}
<1>1. Root \in S
  BY AboveUnfold, ProgramType
<1>2. ASSUME NEW m \in DOMAIN prog \ {Root}, Parent(m) \in S
      PROVE  m \in S
  <2>1. Above[m] = {Parent(m)} \union Above[Parent(m)]
    BY AboveUnfold
  <2>2. \E k \in DOMAIN prog[Parent(m)].kids : prog[Parent(m)].kids[k] = m
    BY ParentType
  <2> SUFFICES ASSUME NEW q \in Above[m]
               PROVE  \E k \in DOMAIN prog[q].kids : prog[q].kids[k] = m \/ prog[q].kids[k] \in Above[m]
    OBVIOUS
  <2>3. CASE q = Parent(m)
    BY <2>2, <2>3
  <2>4. CASE q \in Above[Parent(m)]
    <3>1. PICK k \in DOMAIN prog[q].kids :
            prog[q].kids[k] = Parent(m) \/ prog[q].kids[k] \in Above[Parent(m)]
      BY <1>2, <2>4
    <3> QED BY <2>1, <3>1
  <2> QED BY <2>1, <2>3, <2>4
<1>3. S = DOMAIN prog
  <2> HIDE DEF S
  <2>1. S \in SUBSET DOMAIN prog
    BY DEF S
  <2> QED BY <1>1, <1>2, <2>1, TreeInduction
<1> QED BY <1>3

\* A variable to come stays so, unless the step answers for it.
LEMMA FirstVisit ==
  ASSUME BaseInv, OnceInv, InsertedInv, Next, Drops, ~EnterScope, ~VisitParts, ~PushHint,
         NEW d \in Variables,
         NEW n, n = Head(todo).node, n = d \/ (Head(todo).op = "begin" /\ n \in Above[d])
  PROVE  Answered(d)'
<1>0. WalkInv /\ ScopesInv /\ DataInv /\ NamesInv /\ prog \in Programs
  BY DEF BaseInv, WalkInv
<1>1. /\ todo # <<>> /\ prog' = prog /\ d \in DOMAIN prog /\ ScopeOf(d)' = ScopeOf(d)
      /\ prog[d].name \in Name /\ Enclosing(d)' = Enclosing(d) /\ diags \in Seq(Diagnostic)
  BY <1>0, ScopeName, InsertedStays, TreeStays DEF Drops, Enclosing, DataInv
<1>2. n \in DOMAIN prog /\ n # Null
  BY <1>0, <1>1, AboveLess, ProgramType
<1>3. n \in Above[d] => prog[n].kids # <<>>
  BY <1>0, <1>1, KidTowards
<1>4. This = n
  BY DEF This
<1>5. CASE InsertVariable
  <2>1. n = d
    <3>1. Head(todo).op = "end"
      BY <1>5 DEF InsertVariable, Ending
    <3> QED BY <3>1
  <2>2. PICK t : t = table'
    OBVIOUS
  <2>3. t[ScopeOf(d)][prog[d].name] = <<d>>
    BY <1>0, <1>5, <2>1, <2>2, Inserting
  <2>4. DOMAIN <<d>> = {1} /\ <<d>>[1] = d
    OBVIOUS
  <2>5. Inserted(d)'
    BY <1>1, <2>2, <2>3, <2>4 DEF Inserted
  <2> QED BY <2>5 DEF Answered
<1>6. CASE SkipUnknown
  <2>1. prog[n].declared = Unknown /\ prog[n].kind \in Variable
    BY <1>4, <1>6 DEF SkipUnknown, Beginning
  <2>2. CASE n = d
    BY <1>1, <2>1, <2>2 DEF Answered
  <2>3. CASE n \in Above[d]
    <3>1. n \in Enclosing(d)
      BY <1>2, <2>1, <2>3 DEF Enclosing, Variables
    <3>2. Gone(n)'
      BY <1>1, <2>1 DEF Gone
    <3> QED BY <1>1, <3>1, <3>2 DEF Answered
  <2> QED BY <2>2, <2>3
<1>7. CASE RejectBare
  <2>1. prog[n].kids = <<>> /\ diags' = Append(diags, <<"untyped", n>>)
    BY <1>4, <1>7 DEF RejectBare, Emptied, Report
  <2>2. n = d
    BY <1>3, <2>1
  <2>3. Len(diags) + 1 \in DOMAIN diags' /\ diags'[Len(diags) + 1] = <<"untyped", d>>
    BY <1>1, <2>1, <2>2
  <2>4. Reported("untyped", d)'
    BY <2>3 DEF Reported
  <2> QED BY <2>4 DEF Answered
<1>8. CASE RejectRedeclared
  <2>1. n \in Variables /\ Head(todo).op = "begin"
    BY <1>2, <1>4, <1>8 DEF RejectRedeclared, Beginning, Variables
  <2>2. Scope = ScopeOf(n)
    BY <1>0, <1>1, <2>1, CurrentScope
  <2>3. PICK e, m : e = table[ScopeOf(n)][prog[n].name] /\ m = e[1]
    OBVIOUS
  <2>4. e # <<>> /\ diags' = diags \o <<<<"redefinition", m>>, <<"previous", Null>>>>
    BY <1>4, <1>8, <2>2, <2>3 DEF RejectRedeclared, IsDeclared
  <2>5. table'[ScopeOf(n)][prog[n].name] = e /\ ScopeOf(n)' = ScopeOf(n)
    BY <2>1, <2>3, <2>4, InsertedStays
  <2>6. CASE n = d
    <3>1. Len(diags) + 1 \in DOMAIN diags' /\ diags'[Len(diags) + 1] = <<"redefinition", m>>
      BY <1>1, <2>4
    <3>2. Reported("redefinition", table[ScopeOf(d)][prog[d].name][1])'
      BY <1>1, <2>3, <2>5, <2>6, <3>1 DEF Reported
    <3> QED BY <1>1, <2>4, <2>5, <2>6, <3>2 DEF Answered
  <2>7. CASE n \in Above[d]
    <3>1. ~Inserted(n)
      <4>1. 1 \in DOMAIN todo /\ todo[1].op = "begin" /\ todo[1].node = n
        BY <1>0, <1>1, <2>1, HeadType
      <4> QED BY <2>1, <4>1 DEF InsertedInv
    <3>2. ~Inserted(n)'
      BY <1>1, <2>3, <2>5, <3>1 DEF Inserted
    <3>3. Gone(n)'
      BY <1>1, <2>4, <2>5, <3>2 DEF Gone
    <3>4. n \in Enclosing(d)
      BY <2>1, <2>7 DEF Enclosing
    <3> QED BY <1>1, <3>3, <3>4 DEF Answered
  <2> QED BY <2>6, <2>7
<1>9. CASE VisitUntyped \/ VisitFixed \/ VisitNumber
  <2>1. prog[n].kind \in {"Ref", "TypeDecl", "Bool", "Char", "Text", "Int", "Float"}
    BY <1>4, <1>9 DEF VisitUntyped, VisitFixed, VisitNumber, Beginning, This, Fixed
  <2>2. prog[n].kind \notin Variable \union ScopedKinds \union {"Expr"}
    BY <2>1 DEF Variable, ScopedKinds
  <2>3. prog[n].kids = <<>>
    BY <1>0, <1>2, <2>2, TreeType
  <2>4. n # d
    BY <2>2 DEF Variables
  <2> QED BY <1>3, <2>3, <2>4
<1>10. CASE LeaveScope
  <2>1. Head(todo).op = "end" /\ prog[n].kind \in ScopedKinds
    BY <1>10 DEF LeaveScope, Ending
  <2>2. n # d
    BY <2>1 DEF Variables, ScopedKinds, Variable
  <2> QED BY <2>1, <2>2
<1>11. ~VisitNull /\ ~VisitNumberUnhinted /\ ~Finish
  BY DEF Drops, VisitNull, VisitNumberUnhinted, Finish
<1> QED BY <1>5, <1>6, <1>7, <1>8, <1>9, <1>10, <1>11 DEF Next

LEMMA AnswersPreserved ==
  ASSUME BaseInv, OnceInv, InsertedInv, AnswerInv, Next
  PROVE  AnswerInv'
<1>0. WalkInv /\ ScopesInv /\ DataInv /\ NamesInv /\ prog \in Programs
  BY DEF BaseInv, WalkInv
<1>1. PICK n : n = Head(todo).node
  OBVIOUS
<1>2. prog' = prog
  BY <1>0, StepShape DEF Stops, Drops, Opens, DataInv
<1>3. Variables' = Variables /\ Above' = Above
  BY <1>2, TreeStays
<1>4. ASSUME NEW d \in Variables, ~Answered(d)
      PROVE  ToCome(d)' \/ Answered(d)'
  <2>1. PICK i \in DOMAIN todo : \/ todo[i].node = d
                                 \/ todo[i].op = "begin" /\ todo[i].node \in Above[d]
    BY <1>4 DEF AnswerInv, ToCome
  <2>2. d \in DOMAIN prog /\ i \in Nat /\ (i = 1 \/ i > 1) /\ todo # <<>> /\ Head(todo) = todo[1]
    BY <1>0, <2>1, ScopeName, HeadType DEF WalkInv
  <2>3. ASSUME \E j \in DOMAIN todo' : todo'[j] = todo[i]
        PROVE  ToCome(d)'
    BY <1>3, <2>1, <2>3 DEF ToCome
  <2>4. CASE Stops
    BY <2>1, <2>3, <2>4 DEF Stops
  <2>5. CASE Drops /\ i > 1
    BY <1>0, <2>1, <2>3, <2>5, DropItems
  <2>6. CASE Drops /\ i = 1 /\ ~EnterScope /\ ~VisitParts /\ ~PushHint
    <3>1. n = d \/ (Head(todo).op = "begin" /\ n \in Above[d])
      BY <1>1, <2>1, <2>2, <2>6
    <3> QED BY <1>1, <2>6, <3>1, FirstVisit
  <2>7. CASE EnterScope \/ VisitParts \/ PushHint
    <3>1. PICK f : Opens(f)
      BY <1>0, <2>7, EnterScopeOpens, VisitPartsOpens, PushHintOpens DEF DataInv
    <3>2. CASE i > 1
      BY <1>0, <2>1, <2>3, <3>1, <3>2, OpenItems
    <3>3. CASE i = 1 /\ n = d
      <4>1. EndIn(d)'
        BY <1>0, <1>1, <3>1, <3>3, EndsOpened DEF Bracketed
      <4> QED BY <4>1 DEF EndIn, ToCome
    <3>4. CASE i = 1 /\ n \in Above[d]
      <4>1. PICK k \in DOMAIN prog[n].kids : prog[n].kids[k] = d \/ prog[n].kids[k] \in Above[d]
        BY <1>0, <2>2, <3>4, KidTowards
      <4>2. IsOpened(f, n)
        BY <1>1, <3>1 DEF Opens
      <4>3. k \in DOMAIN f /\ f[k].op = "begin" /\ f[k].node = prog[n].kids[k]
        BY <1>0, <4>1, <4>2, FrontKids
      <4>4. PICK j \in DOMAIN todo' : todo'[j] = f[k]
        BY <1>0, <3>1, <4>3, OpenItems
      <4> QED BY <1>3, <4>1, <4>3, <4>4 DEF ToCome
    <3> QED BY <1>1, <2>1, <2>2, <3>2, <3>3, <3>4
  <2> QED BY <1>4, <2>2, <2>4, <2>5, <2>6, <2>7, ActionShape
<1>5. phase' = "done" => todo' = <<>>
  BY DEF Next, EnterScope, LeaveScope, VisitParts, VisitUntyped, VisitNull, RejectRedeclared,
         RejectBare, SkipUnknown, Drop, PushHint, InsertVariable, Ending, Beginning, VisitFixed,
         VisitNumber, TypeLiteral, VisitNumberUnhinted, Finish
<1> QED BY <1>3, <1>4, <1>5, AnsweredStays DEF AnswerInv

AnswersInv == OnceInv /\ InsertedInv /\ AnswerInv

\* Before the walk there is no variable in any scope.
LEMMA NoneInserted ==
  ASSUME Init, NEW d \in Variables
  PROVE  ~Inserted(d) /\ Root \in Above[d]
<1>0. prog \in Programs
  BY DEF Init
<1>1. ScopeOf(d) \in ScopeNodes /\ prog[d].name \in Name /\ d \in DOMAIN prog
  BY <1>0, ScopeName
<1>2. DeclaredBefore(prog, prog[d].name) \in Seq(FileDecls)
  BY <1>0, <1>1, DeclaredBeforeType
<1>3. PICK e : e = table[ScopeOf(d)][prog[d].name]
  OBVIOUS
<1>4. e \in Seq(FileDecls)
  <2>1. e = DeclaredBefore(prog, prog[d].name) \/ e = <<>>
    BY <1>1, <1>3 DEF Init
  <2>2. CASE e = <<>>
    BY <2>2
  <2>3. CASE e = DeclaredBefore(prog, prog[d].name)
    BY <1>2, <2>3
  <2> QED BY <2>1, <2>2, <2>3
<1>5. d \notin FileDecls
  BY DEF Variables, Variable, FileDecls
<1>6. d # Root
  BY <1>0, ProgramType DEF Variables, Variable
<1> QED BY <1>0, <1>1, <1>3, <1>4, <1>5, <1>6, RootAbove DEF Inserted

\* When the pass is over, each variable is in its scope or was rejected for one
\* of the three reasons, or the variable it would initialise was: nothing is
\* lost in the early returns of visit(VarDecl) and visit(FuncParamDecl).
THEOREM VariablesAnswered == Spec => []EveryVariableAnswered
<1>1. Init => AnswersInv
  <2> SUFFICES ASSUME Init PROVE AnswersInv
    OBVIOUS
  <2>1. PICK b : b = Begin(Root)
    OBVIOUS
  <2>2. b.op = "begin" /\ b.node = Root /\ todo = <<b>> /\ prog \in Programs /\ phase = "check"
    BY <2>1 DEF Begin, Init
  <2>3. DOMAIN todo = {1} /\ todo[1] = b
    BY <2>2
  <2>4. \A d \in Variables : ~Inserted(d) /\ Root \in Above[d]
    BY NoneInserted
  <2>5. \A q : ~EndIn(q)
    BY <2>2, <2>3 DEF EndIn
  <2>6. OnceInv /\ InsertedInv
    BY <2>3, <2>4, <2>5 DEF OnceInv, InsertedInv
  <2>7. AnswerInv
    BY <2>2, <2>3, <2>4 DEF AnswerInv, ToCome
  <2> QED BY <2>6, <2>7 DEF AnswersInv
<1>2. BaseInv /\ AnswersInv /\ [Next]_vars => AnswersInv'
  <2> SUFFICES ASSUME BaseInv, AnswersInv, [Next]_vars PROVE AnswersInv'
    OBVIOUS
  <2>1. CASE Next
    <3>1. WalkInv /\ hints \in Seq(Type)
      BY DEF BaseInv, DataInv
    <3> QED BY <2>1, <3>1, OncePreserved, InsertedPreserved, AnswersPreserved DEF AnswersInv
  <2>2. CASE UNCHANGED vars
    <3>1. /\ Above' = Above /\ Variables' = Variables /\ prog' = prog
          /\ todo' = todo /\ phase' = phase /\ table' = table /\ diags' = diags
          /\ \A d : ScopeOf(d)' = ScopeOf(d) /\ Enclosing(d)' = Enclosing(d)
      BY <2>2, TreeStays DEF vars, ScopeOf, Enclosing
    <3>2. \A d : Inserted(d)' <=> Inserted(d)
      BY <3>1 DEF Inserted
    <3>3. \A d : (Gone(d)' <=> Gone(d)) /\ (ToCome(d)' <=> ToCome(d)) /\ (EndIn(d)' <=> EndIn(d))
      BY <3>1, <3>2 DEF Gone, ToCome, EndIn
    <3>4. \A d : Answered(d)' <=> Answered(d)
      BY <3>1, <3>2, <3>3 DEF Answered, Reported
    <3> QED BY <3>1, <3>2, <3>3, <3>4 DEF AnswersInv, OnceInv, InsertedInv, AnswerInv
  <2> QED BY <2>1, <2>2
<1>3. AnswersInv => EveryVariableAnswered
  <2> SUFFICES ASSUME AnswersInv, phase = "done", NEW d \in Variables
               PROVE  \/ Inserted(d)
                      \/ Reported("untyped", d)
                      \/ prog[d].declared = Unknown
                      \/ \E e \in Enclosing(d) : ~Inserted(e)
                      \/ /\ table[ScopeOf(d)][prog[d].name] # <<>>
                         /\ Reported("redefinition", table[ScopeOf(d)][prog[d].name][1])
    BY DEF EveryVariableAnswered
  <2>1. Answered(d)
    BY DEF AnswersInv, AnswerInv, ToCome
  <2>2. \A e \in Enclosing(d) : Gone(e) => ~Inserted(e)
    BY DEF AnswersInv, InsertedInv, Gone, Enclosing
  <2> QED BY <2>1, <2>2 DEF Answered
<1> QED BY <1>1, <1>2, <1>3, BaseAlways, PTL DEF Spec
-----------------------------------------------------------------------------
(* Numbers outside initializers: what is visited later has a greater       *)
(* number than what is visited before.                                     *)

Below(a, n) == n = a \/ a \in Above[n]

LEMMA KidsInOrder ==
  ASSUME prog \in Programs, NEW q \in DOMAIN prog,
         NEW j \in DOMAIN prog[q].kids, NEW k \in DOMAIN prog[q].kids, j < k,
         NEW a, NEW b, a = prog[q].kids[j], b = prog[q].kids[k], a # Null, b # Null,
         NEW n \in DOMAIN prog, Below(a, n)
  PROVE  n < b
<1> DEFINE S == {m \in DOMAIN prog : Below(a, m) => m < b}
<1>1. /\ a \in DOMAIN prog /\ b \in DOMAIN prog /\ a \in Nat /\ b \in Nat /\ a # Root
      /\ DOMAIN prog \subseteq Nat
  BY KidParent, ProgramType
<1>2. /\ a < b
      /\ \A r \in a..(b - 1) : r \in DOMAIN prog =>
           \A i \in DOMAIN prog[r].kids : prog[r].kids[i] < b
  BY OrderAssumption
<1>3. Root \in S
  BY <1>1, AboveUnfold, ProgramType DEF Below
<1>4. ASSUME NEW m \in DOMAIN prog \ {Root}, Parent(m) \in S
      PROVE  m \in S
  <2> SUFFICES ASSUME m # a, a \in Above[m] PROVE m < b
    BY <1>2 DEF Below
  <2>1. /\ Parent(m) \in DOMAIN prog
        /\ \E k1 \in DOMAIN prog[Parent(m)].kids : prog[Parent(m)].kids[k1] = m
    BY ParentType
  <2>2. Below(a, Parent(m))
    BY AboveUnfold DEF Below
  <2>3. Parent(m) < b
    BY <1>4, <2>2
  <2>4. a <= Parent(m)
    <3>1. CASE Parent(m) = a
      BY <1>1, <3>1
    <3>2. CASE a \in Above[Parent(m)]
      <4>1. Parent(m) > a
        BY <2>1, <3>2, AboveLess
      <4> QED BY <1>1, <2>1, <4>1
    <3> QED BY <2>2, <3>1, <3>2 DEF Below
  <2>5. Parent(m) \in a..(b - 1)
    BY <1>1, <2>1, <2>3, <2>4
  <2> QED BY <1>2, <2>1, <2>5
<1>5. S = DOMAIN prog
  <2> HIDE DEF S
  <2>1. S \in SUBSET DOMAIN prog
    BY DEF S
  <2> QED BY <1>3, <1>4, <2>1, TreeInduction
<1> QED BY <1>5

OrderInv ==
  \A i, j \in DOMAIN todo :
    /\ i < j /\ todo[i].op = "begin" /\ todo[j].op = "begin"
    /\ todo[i].node # Null /\ todo[j].node # Null
    => \A n \in DOMAIN prog : Below(todo[i].node, n) => n < todo[j].node

LEMMA OrderOpened ==
  ASSUME WalkInv, OrderInv, NEW f, Opens(f)
  PROVE  OrderInv'
<1>0. prog \in Programs /\ todo \in Seq(Visit) /\ todo # <<>> /\ prog' = prog
  BY DEF WalkInv, Opens
<1>1. PICK n, K : n = Head(todo).node /\ K = Len(f)
  OBVIOUS
<1>2. IsOpened(f, n) /\ IsFront(f, n) /\ Head(todo).op = "begin"
  BY <1>1, OpensFront DEF Opens
<1>3. n \in DOMAIN prog /\ n # Null
  BY <1>0, <1>2, ProgramType DEF IsOpened
<1>4. f \in Seq(Visit) /\ K \in Nat /\ DOMAIN f = 1..K
  BY <1>0, <1>1, <1>2, FrontType
<1>5. \A i \in 1..K : f[i].op = "begin" /\ f[i].node # Null =>
        /\ i \in DOMAIN prog[n].kids /\ f[i].node = prog[n].kids[i]
        /\ f[i].node \in DOMAIN prog /\ n \in Above[f[i].node]
  <2> TAKE i \in 1..K
  <2> HAVE f[i].op = "begin" /\ f[i].node # Null
  <2>1. i \in DOMAIN prog[n].kids
    BY <1>0, <1>2, <1>4, FrontKids
  <2>2. f[i].node = prog[n].kids[i]
    BY <1>0, <1>2, <2>1, FrontKids
  <2>3. f[i].node \in DOMAIN prog /\ Above[f[i].node] = {n} \union Above[n]
    BY <1>0, <1>3, <2>1, <2>2, KidParent, KidAbove
  <2> QED BY <2>1, <2>2, <2>3
<1>7. PICK t, u : t = todo /\ u = todo'
  OBVIOUS
<1>8. t \in Seq(Visit) /\ t # <<>> /\ u = f \o Tail(t) /\ Head(t) = t[1] /\ 1 \in DOMAIN t
  BY <1>0, <1>7 DEF Opens
<1>9. \A i \in DOMAIN u : i \in Nat /\ (i \in 1..K \/ i - K + 1 \in DOMAIN t)
  BY <1>1, <1>4, <1>8, Shift
<1>10. \A i \in 1..K : i \in DOMAIN u /\ u[i] = f[i]
  BY <1>1, <1>4, <1>8, Shift
<1>11. \A i \in DOMAIN u : i \notin 1..K => u[i] = t[i - K + 1] /\ i > K
  BY <1>1, <1>4, <1>8, Shift
<1>12. \A i, j \in DOMAIN t :
         i < j /\ t[i].op = "begin" /\ t[j].op = "begin" /\ t[i].node # Null /\ t[j].node # Null
           => \A m \in DOMAIN prog : Below(t[i].node, m) => m < t[j].node
  BY <1>7 DEF OrderInv
<1>13. t[1].op = "begin" /\ t[1].node = n
  BY <1>1, <1>2, <1>7, <1>8
<1>15. ASSUME NEW i \in DOMAIN u, NEW j \in DOMAIN u, i < j, u[i].op = "begin",
              u[j].op = "begin", u[i].node # Null, u[j].node # Null,
              NEW m \in DOMAIN prog, Below(u[i].node, m)
       PROVE  m < u[j].node
  <2>1. CASE i \in 1..K /\ j \in 1..K
    <3>1. u[i] = f[i] /\ u[j] = f[j]
      BY <1>10, <2>1
    <3>2. /\ i \in DOMAIN prog[n].kids /\ u[i].node = prog[n].kids[i]
          /\ j \in DOMAIN prog[n].kids /\ u[j].node = prog[n].kids[j]
      BY <1>5, <1>15, <2>1, <3>1
    <3> QED BY <1>0, <1>3, <1>15, <3>2, KidsInOrder
  <2>2. CASE i \in 1..K /\ j \notin 1..K
    <3>1. j - K + 1 \in DOMAIN t /\ u[j] = t[j - K + 1] /\ j - K + 1 > 1
      BY <1>4, <1>9, <1>11, <2>2
    <3>2. u[i] = f[i] /\ n \in Above[u[i].node] /\ u[i].node \in DOMAIN prog
      BY <1>5, <1>10, <1>15, <2>2
    <3>3. Below(n, m)
      BY <1>0, <1>15, <3>2, AboveTransitive DEF Below
    <3> QED BY <1>3, <1>8, <1>12, <1>13, <1>15, <3>1, <3>3
  <2>3. CASE i \notin 1..K /\ j \in 1..K
    <3>1. i > K
      BY <1>11, <2>3
    <3> QED BY <1>4, <1>9, <1>15, <2>3, <3>1
  <2>4. CASE i \notin 1..K /\ j \notin 1..K
    <3>1. /\ i - K + 1 \in DOMAIN t /\ u[i] = t[i - K + 1]
          /\ j - K + 1 \in DOMAIN t /\ u[j] = t[j - K + 1]
          /\ i - K + 1 < j - K + 1
      BY <1>4, <1>9, <1>11, <1>15, <2>4
    <3> QED BY <1>12, <1>15, <3>1
  <2> QED BY <2>1, <2>2, <2>3, <2>4
<1>16. Above' = Above
  BY <1>0, TreeStays
<1>17. \A a, m : Below(a, m)' <=> Below(a, m)
  BY <1>16 DEF Below
<1> QED BY <1>0, <1>7, <1>15, <1>17 DEF OrderInv

LEMMA OrderPreserved ==
  ASSUME WalkInv, OrderInv, hints \in Seq(Type), Next
  PROVE  OrderInv'
<1>1. CASE Stops
  BY <1>1, TreeStays DEF Stops, OrderInv, Below
<1>2. CASE Drops
  <2>1. PICK t, u : t = todo /\ u = todo'
    OBVIOUS
  <2>2. t \in Seq(Visit) /\ t # <<>> /\ u = Tail(t)
    BY <1>2, <2>1 DEF Drops, WalkInv
  <2>3. \A i \in DOMAIN u : i \in Nat /\ i + 1 \in DOMAIN t /\ u[i] = t[i + 1]
    BY <2>2
  <2>4. \A i, j \in DOMAIN t :
         i < j /\ t[i].op = "begin" /\ t[j].op = "begin" /\ t[i].node # Null /\ t[j].node # Null
           => \A m \in DOMAIN prog : Below(t[i].node, m) => m < t[j].node
    BY <2>1 DEF OrderInv
  <2>5. ASSUME NEW i \in DOMAIN u, NEW j \in DOMAIN u, i < j, u[i].op = "begin",
               u[j].op = "begin", u[i].node # Null, u[j].node # Null,
               NEW m \in DOMAIN prog, Below(u[i].node, m)
        PROVE  m < u[j].node
    <3>1. i + 1 < j + 1
      BY <2>3, <2>5
    <3> QED BY <2>3, <2>4, <2>5, <3>1
  <2>6. prog' = prog /\ \A a, m : Below(a, m)' <=> Below(a, m)
    BY <1>2, TreeStays DEF Drops, Below
  <2> QED BY <2>1, <2>5, <2>6 DEF OrderInv
<1>3. CASE \E f : Opens(f)
  BY <1>3, OrderOpened
<1> QED BY <1>1, <1>2, <1>3, StepShape

\* No variable is in the initializer of another: the first one that is checked
\* leaves its hint for good, all later ones remove theirs.
Plain == \A d \in Variables : Enclosing(d) = {}

PlainDepth ==
  /\ (\A d \in Variables : ~EndIn(d)) => Len(hints) <= 1
  /\ \A i \in DOMAIN todo : todo[i].op = "end" /\ todo[i].node \in Variables =>
       Len(hints) = todo[i].size + 1

LEMMA PlainEnds ==
  ASSUME WalkInv, todo # <<>>, NEW n, n = Head(todo).node, n # Null, Enclosing(n) = {},
         NEW d \in Variables, EndIn(d)
  PROVE  d = n /\ Head(todo).op = "end"
BY EndsAbove DEF Bracketed, Enclosing

LEMMA PlainPush ==
  ASSUME BaseInv, Plain, PlainDepth, PushHint
  PROVE  PlainDepth'
<1>0. WalkInv /\ ScopesInv /\ DataInv /\ prog \in Programs /\ hints \in Seq(Type)
  BY DEF BaseInv, WalkInv, DataInv
<1>1. PICK n, L : n = Head(todo).node /\ L = Len(hints)
  OBVIOUS
<1>2. PICK f : f = Visits(prog[n].kids) \o <<End(n, L)>>
  OBVIOUS
<1>3. n \in Variables /\ L \in Nat /\ Opens(f)
  BY <1>0, <1>1, <1>2, PushHintOpens
<1>4. n \in DOMAIN prog /\ n # Null /\ todo # <<>> /\ prog[n] \in Node /\ Head(todo).op = "begin"
  BY <1>0, <1>1, BeginType DEF PushHint
<1>5. prog' = prog /\ Len(hints') = L + 1
  <2>1. hints' = Append(hints, DeclaredType(n)) /\ prog' = prog
    BY <1>1 DEF PushHint, This
  <2>2. DeclaredType(n) \in Type
    BY <1>4, DeclaredTypeType
  <2> QED BY <1>0, <1>1, <2>1, <2>2, Pushed
<1>6. EndIn(n)'
  BY <1>0, <1>1, <1>3, EndsOpened DEF Bracketed
<1>7. \A d \in Variables : ~EndIn(d)
  BY <1>0, <1>1, <1>3, <1>4, PlainEnds DEF Plain
<1>8. \A k \in DOMAIN f : f[k].op = "end" => f[k].node = n /\ f[k].size = L
  <2> SUFFICES ASSUME NEW k \in DOMAIN f, f[k].op = "end"
               PROVE  f[k].node = n /\ f[k].size = L
    OBVIOUS
  <2>1. IsFront(f, n)
    BY <1>1, <1>3, OpensFront
  <2>2. k = Len(f)
    BY <1>0, <2>1, FrontType
  <2>3. PICK v, e : v = Visits(prog[n].kids) /\ e = End(n, L)
    OBVIOUS
  <2>4. v \in Seq(Visit) /\ f = v \o <<e>> /\ e.node = n /\ e.size = L
    BY <1>0, <1>2, <1>4, <2>3, KidsType DEF End
  <2>5. f[Len(f)] = e
    BY <2>4
  <2> QED BY <2>2, <2>4, <2>5
<1>9. ASSUME NEW i \in DOMAIN todo', todo'[i].op = "end", todo'[i].node \in Variables
      PROVE  todo'[i].size = L
  <2>1. \/ \E k \in DOMAIN f : todo'[i] = f[k]
        \/ \E j \in DOMAIN todo : j > 1 /\ todo'[i] = todo[j]
    BY <1>0, <1>3, OpenItems
  <2> QED BY <1>7, <1>8, <1>9, <2>1 DEF EndIn
<1>10. Variables' = Variables
  BY <1>5, TreeStays
<1> QED BY <1>3, <1>5, <1>6, <1>9, <1>10 DEF PlainDepth

LEMMA PlainInsert ==
  ASSUME BaseInv, Plain, PlainDepth, InsertVariable, Drops
  PROVE  /\ PlainDepth'
         /\ hints # <<>> /\ hints' # <<>> /\ hints'[1] = hints[1]
<1>0. WalkInv /\ ScopesInv /\ DataInv /\ NamesInv /\ prog \in Programs /\ hints \in Seq(Type)
  BY DEF BaseInv, WalkInv, DataInv
<1>1. PICK n, L, s : n = Head(todo).node /\ L = Len(hints) /\ s = Head(todo).size
  OBVIOUS
<1>2. n \in Variables /\ n \in DOMAIN prog /\ n # Null /\ EndIn(n)
  BY <1>0, <1>1, Inserting
<1>3. /\ todo # <<>> /\ 1 \in DOMAIN todo /\ Head(todo) = todo[1] /\ Head(todo).op = "end"
      /\ s \in Nat /\ L \in Nat /\ prog' = prog
  <2>1. todo # <<>> /\ Head(todo).op = "end" /\ prog' = prog
    BY DEF InsertVariable, Ending, Drops
  <2> QED BY <1>0, <1>1, <2>1, HeadType DEF Visit
<1>4. \A d \in Variables : ~EndIn(d)'
  BY <1>0, <1>1, <1>2, EndsDropped DEF Bracketed, Plain, Enclosing
<1>5. L = s + 1
  BY <1>1, <1>2, <1>3 DEF PlainDepth
<1>6. hints' = SubSeq(hints, 1, L - s)
  <2>1. phase = "check" /\ phase' = phase
    BY DEF InsertVariable, Ending, Drops
  <2> QED BY <1>1, <2>1 DEF InsertVariable, Popped
<1>7. L - s = 1
  BY <1>3, <1>5
<1>8. Len(hints') = 1 /\ hints' # <<>> /\ hints # <<>> /\ hints'[1] = hints[1]
  <2>1. hints' = SubSeq(hints, 1, 1) /\ L >= 1
    BY <1>3, <1>5, <1>6, <1>7
  <2>2. SubSeq(hints, 1, 1) = [i \in 1..1 |-> hints[i]]
    BY <1>0, <1>1, <2>1
  <2> QED BY <1>0, <1>1, <2>1, <2>2
<1>9. Variables' = Variables
  BY <1>3, TreeStays
<1>10. \A i \in DOMAIN todo' : ~(todo'[i].op = "end" /\ todo'[i].node \in Variables)
  BY <1>4 DEF EndIn
<1> QED BY <1>8, <1>9, <1>10 DEF PlainDepth

LEMMA PlainPreserved ==
  ASSUME BaseInv, Plain, PlainDepth, Next
  PROVE  PlainDepth'
<1>0. WalkInv /\ ScopesInv /\ DataInv /\ NamesInv
  BY DEF BaseInv
<1>1. CASE ~PushHint /\ ~(InsertVariable /\ Drops)
  <2>1. hints' = hints /\ prog' = prog
    BY <1>0, <1>1, HintChanges, StepShape DEF DataInv, Stops, Drops, Opens
  <2>2. PICK t : t = todo'
    OBVIOUS
  <2>3. /\ \A d \in Variables : EndIn(d)' <=> EndIn(d)
        /\ \A i \in DOMAIN t : t[i].op = "end" /\ t[i].node \in Variables =>
             \E j \in DOMAIN todo : t[i] = todo[j]
    BY <1>0, <1>1, <2>2, SameVariables
  <2>4. Variables' = Variables
    BY <2>1, TreeStays
  <2>5. \A i \in DOMAIN t : t[i].op = "end" /\ t[i].node \in Variables => Len(hints) = t[i].size + 1
    BY <2>3 DEF PlainDepth
  <2>6. (\A d \in Variables : ~EndIn(d)') => Len(hints) <= 1
    BY <2>3 DEF PlainDepth
  <2> QED BY <2>1, <2>2, <2>4, <2>5, <2>6 DEF PlainDepth
<1> QED BY <1>1, PlainPush, PlainInsert

\* The first hint stays the first.
LEMMA FirstHint ==
  ASSUME BaseInv, Plain, PlainDepth, Next, hints # <<>>
  PROVE  hints' # <<>> /\ hints'[1] = hints[1]
<1>0. WalkInv /\ hints \in Seq(Type)
  BY DEF BaseInv, DataInv
<1>1. CASE PushHint
  <2>1. PICK n : n = Head(todo).node
    OBVIOUS
  <2>2. n \in DOMAIN prog /\ prog[n] \in Node
    BY <1>0, <1>1, <2>1, BeginType DEF PushHint
  <2>3. hints' = Append(hints, DeclaredType(n)) /\ DeclaredType(n) \in Type
    BY <1>1, <2>1, <2>2, DeclaredTypeType DEF PushHint, This
  <2> QED BY <1>0, <2>3
<1> QED BY <1>1, HintChanges, PlainInsert

Opened(d) == Inserted(d) \/ EndIn(d)

LEMMA NewlyOpened ==
  ASSUME BaseInv, Next, NEW d \in Variables, Opened(d)', ~Opened(d)
  PROVE  PushHint /\ d = Head(todo).node
<1>0. WalkInv /\ ScopesInv /\ DataInv /\ NamesInv
  BY DEF BaseInv
<1>1. CASE Inserted(d)'
  <2>1. InsertVariable /\ Drops /\ d = Head(todo).node
    BY <1>1, NewlyInserted DEF Opened
  <2> QED BY <1>0, <2>1, Inserting DEF Opened
<1>2. CASE EndIn(d)'
  BY <1>0, <1>2, OpenedVariable DEF Opened
<1> QED BY <1>1, <1>2 DEF Opened

LEMMA OpenedStays ==
  ASSUME BaseInv, Plain, Next, NEW d \in Variables, Opened(d)
  PROVE  /\ Opened(d)'
         /\ Inserted(d) => Inserted(d)'
<1>0. WalkInv /\ ScopesInv /\ DataInv /\ NamesInv /\ prog \in Programs /\ hints \in Seq(Type)
  BY DEF BaseInv, WalkInv, DataInv
<1>1. PICK n : n = Head(todo).node
  OBVIOUS
<1>2. prog' = prog /\ ScopeOf(d)' = ScopeOf(d)
  BY InsertedStays
<1>3. Inserted(d) => Inserted(d)'
  <2> SUFFICES ASSUME Inserted(d) PROVE Inserted(d)'
    OBVIOUS
  <2>1. table'[ScopeOf(d)][prog[d].name] = table[ScopeOf(d)][prog[d].name]
    BY InsertedStays
  <2> QED BY <1>2, <2>1 DEF Inserted
<1>4. ASSUME EndIn(d)
      PROVE  Opened(d)'
  <2>1. CASE PushHint
    <3>1. Opens(Visits(prog[n].kids) \o <<End(n, Len(hints))>>)
      BY <1>0, <1>1, <2>1, PushHintOpens
    <3> QED BY <1>0, <1>1, <1>4, <3>1, EndsOpened DEF Bracketed, Opened
  <2>2. CASE InsertVariable /\ Drops
    <3>1. n \in Variables /\ n # Null /\ table'[ScopeOf(n)][prog[n].name] = <<n>>
      BY <1>0, <1>1, <2>2, Inserting
    <3>2. d = n
      BY <1>0, <1>1, <1>4, <2>2, <3>1, PlainEnds DEF Drops, Plain
    <3>3. 1 \in DOMAIN <<n>> /\ <<n>>[1] = n
      OBVIOUS
    <3> QED BY <1>2, <3>1, <3>2, <3>3 DEF Opened, Inserted
  <2>3. CASE ~PushHint /\ ~(InsertVariable /\ Drops)
    BY <1>0, <1>4, <2>3, SameVariables DEF Opened
  <2> QED BY <2>1, <2>2, <2>3
<1> QED BY <1>3, <1>4 DEF Opened

Stray(n) == prog[n].kind \in {"Int", "Float"} /\ exprType[n] # Unknown /\ Enclosing(n) = {}

\* d is the first variable that has been checked, and its hint the first.
IsFirst(d) ==
  /\ Opened(d) /\ hints # <<>> /\ hints[1] = DeclaredType(d)
  /\ \A e \in Variables : Opened(e) => d <= e
  /\ \A i \in DOMAIN todo : todo[i].op = "begin" /\ todo[i].node # Null => d < todo[i].node

TypesStrays(d) ==
  \A n \in DOMAIN prog : Stray(n) =>
    Inserted(d) /\ exprType[n] = NumberType(prog[n].kind, DeclaredType(d))

NoneOpened ==
  /\ hints = <<>>
  /\ \A e \in Variables : ~Opened(e)
  /\ \A n \in DOMAIN prog : ~Stray(n)

FirstInv == NoneOpened \/ \E d \in Variables : IsFirst(d) /\ TypesStrays(d)

\* Nodes whose visits begin later have greater numbers than a node that all
\* the visits to come exceed.
LEMMA LaterVisits ==
  ASSUME WalkInv, hints \in Seq(Type), Next, NEW d \in Nat,
         \A i \in DOMAIN todo : todo[i].op = "begin" /\ todo[i].node # Null => d < todo[i].node
  PROVE  \A i \in DOMAIN todo' : todo'[i].op = "begin" /\ todo'[i].node # Null => d < todo'[i].node
<1>0. prog \in Programs
  BY DEF WalkInv
<1>1. CASE Stops
  BY <1>1 DEF Stops
<1>2. CASE Drops
  BY <1>2, DropItems
<1>3. CASE \E f : Opens(f)
  <2>1. PICK f : Opens(f)
    BY <1>3
  <2>2. PICK n : n = Head(todo).node
    OBVIOUS
  <2>3. IsFront(f, n) /\ n \in DOMAIN prog /\ Head(todo) = todo[1] /\ 1 \in DOMAIN todo
        /\ Head(todo).op = "begin"
    BY <2>1, <2>2, OpensFront, HeadType DEF Opens, IsOpened
  <2>4. n \in Nat /\ n # Null
    BY <1>0, <2>3, ProgramType
  <2>5. d < n
    BY <2>2, <2>3, <2>4
  <2> SUFFICES ASSUME NEW i \in DOMAIN todo', todo'[i].op = "begin", todo'[i].node # Null
               PROVE  d < todo'[i].node
    OBVIOUS
  <2>6. CASE \E k \in DOMAIN f : todo'[i] = f[k]
    <3>1. PICK k \in DOMAIN f : todo'[i] = f[k]
      BY <2>6
    <3>2. f[k].op = "begin" /\ f[k].node # Null
      BY <3>1
    <3>3. f[k].node \in DOMAIN prog /\ f[k].node > n
      BY <1>0, <2>3, <3>2, FrontType
    <3>4. f[k].node \in Nat
      BY <1>0, <3>3, ProgramType
    <3> QED BY <2>4, <2>5, <3>1, <3>3, <3>4
  <2> QED BY <2>1, <2>6, OpenItems
<1> QED BY <1>1, <1>2, <1>3, StepShape

\* A number gets its type from the last hint.
LEMMA NumberTyped ==
  ASSUME BaseInv, Next, NEW n \in DOMAIN prog, prog[n].kind \in {"Int", "Float"},
         exprType'[n] # exprType[n]
  PROVE  /\ hints # <<>> /\ exprType'[n] = NumberType(prog[n].kind, hints[Len(hints)])
         /\ n = Head(todo).node /\ n # Null /\ todo # <<>> /\ Head(todo).op = "begin"
<1>0. WalkInv /\ DataInv
  BY DEF BaseInv
<1>1. PICK m : m = Head(todo).node
  OBVIOUS
<1>2. VisitFixed \/ VisitNumber
  BY TypeChanges
<1>3. m = n
  BY <1>0, <1>1, <1>2 DEF VisitFixed, VisitNumber, TypeLiteral, This, DataInv
<1>4. VisitNumber
  BY <1>1, <1>2, <1>3 DEF VisitFixed, Beginning, Fixed
<1>5. todo # <<>> /\ n # Null /\ Head(todo).op = "begin"
  BY <1>0, <1>1, <1>3, <1>4, BeginType DEF VisitNumber
<1>6. PICK t : t = NumberType(prog[n].kind, hints[Len(hints)])
  OBVIOUS
<1>7. exprType' = [exprType EXCEPT ![n] = t]
  BY <1>1, <1>3, <1>4, <1>6 DEF VisitNumber, TypeLiteral, This
<1> QED BY <1>0, <1>1, <1>3, <1>4, <1>5, <1>6, <1>7 DEF DataInv, VisitNumber

LEMMA FirstStays ==
  ASSUME BaseInv, Plain, PlainDepth, Next, NEW d \in Variables, IsFirst(d), TypesStrays(d)
  PROVE  IsFirst(d)' /\ TypesStrays(d)'
<1>0. WalkInv /\ ScopesInv /\ DataInv /\ prog \in Programs /\ hints \in Seq(Type)
  BY DEF BaseInv, WalkInv, DataInv
<1>1. /\ prog' = prog /\ Variables' = Variables
      /\ \A n : Enclosing(n)' = Enclosing(n) /\ DeclaredType(n)' = DeclaredType(n)
  <2>1. prog' = prog
    BY <1>0, StepShape DEF Stops, Drops, Opens
  <2> QED BY <2>1, TreeStays DEF Enclosing, DeclaredType
<1>2. /\ d \in Nat /\ d \in DOMAIN prog /\ Variables \subseteq Nat /\ Null \notin Variables
  BY <1>0, ProgramType DEF Variables
<1>3. Opened(d)' /\ (Inserted(d) => Inserted(d)')
  BY OpenedStays DEF IsFirst
<1>4. hints' # <<>> /\ hints'[1] = hints[1]
  BY FirstHint DEF IsFirst
<1>5. \A i \in DOMAIN todo' : todo'[i].op = "begin" /\ todo'[i].node # Null => d < todo'[i].node
  BY <1>0, <1>2, LaterVisits DEF IsFirst
<1>6. ASSUME NEW e \in Variables, Opened(e)'
      PROVE  d <= e
  <2>1. CASE ~Opened(e)
    <3>1. PushHint /\ e = Head(todo).node
      BY <1>6, <2>1, NewlyOpened
    <3>2. 1 \in DOMAIN todo /\ todo[1].op = "begin" /\ todo[1].node = e
      BY <1>0, <3>1, BeginType, HeadType DEF PushHint
    <3>3. d < e
      BY <1>2, <3>2 DEF IsFirst
    <3> QED BY <1>2, <3>3
  <2> QED BY <2>1 DEF IsFirst
<1>7. IsFirst(d)'
  BY <1>1, <1>3, <1>4, <1>5, <1>6 DEF IsFirst
<1>8. ASSUME NEW n \in DOMAIN prog, prog[n].kind \in {"Int", "Float"}, exprType'[n] # Unknown,
             Enclosing(n) = {}
      PROVE  Inserted(d)' /\ exprType'[n] = NumberType(prog[n].kind, DeclaredType(d))
  <2>1. CASE exprType'[n] = exprType[n]
    BY <1>3, <1>8, <2>1 DEF TypesStrays, Stray
  <2>2. CASE exprType'[n] # exprType[n]
    <3>1. /\ hints # <<>> /\ exprType'[n] = NumberType(prog[n].kind, hints[Len(hints)])
          /\ n = Head(todo).node /\ n # Null /\ todo # <<>> /\ Head(todo).op = "begin"
      BY <1>8, <2>2, NumberTyped
    <3>2. \A e \in Variables : ~EndIn(e)
      BY <1>0, <1>8, <3>1, PlainEnds
    <3>3. Len(hints) = 1
      <4>1. Len(hints) <= 1
        BY <3>2 DEF PlainDepth
      <4>2. PICK L : L = Len(hints)
        OBVIOUS
      <4>3. L \in Nat /\ L # 0
        BY <1>0, <3>1, <4>2
      <4> QED BY <4>1, <4>2, <4>3
    <3>4. Inserted(d)
      BY <3>2 DEF IsFirst, Opened
    <3> QED BY <1>3, <3>1, <3>3, <3>4 DEF IsFirst
  <2> QED BY <2>1, <2>2
<1>9. TypesStrays(d)'
  BY <1>1, <1>8 DEF TypesStrays, Stray, NumberType, Deduce
<1> QED BY <1>7, <1>9

LEMMA FirstComes ==
  ASSUME BaseInv, OrderInv, Plain, PlainDepth, Next, NoneOpened
  PROVE  FirstInv'
<1>0. WalkInv /\ ScopesInv /\ DataInv /\ NamesInv /\ prog \in Programs /\ hints \in Seq(Type)
  BY DEF BaseInv, WalkInv, DataInv
<1>1. /\ prog' = prog /\ Variables' = Variables
      /\ \A n : Enclosing(n)' = Enclosing(n) /\ DeclaredType(n)' = DeclaredType(n)
  <2>1. prog' = prog
    BY <1>0, StepShape DEF Stops, Drops, Opens
  <2> QED BY <2>1, TreeStays DEF Enclosing, DeclaredType
<1>2. \A n \in DOMAIN prog : ~Stray(n)'
  <2> SUFFICES ASSUME NEW n \in DOMAIN prog, prog[n].kind \in {"Int", "Float"}
               PROVE  exprType'[n] = exprType[n]
    BY <1>1 DEF Stray, NoneOpened
  <2> QED BY NumberTyped DEF NoneOpened
<1>3. PICK n : n = Head(todo).node
  OBVIOUS
<1>4. CASE PushHint
  <2>1. /\ n \in Variables /\ n \in DOMAIN prog /\ n # Null /\ n \in Nat /\ prog[n] \in Node
        /\ 1 \in DOMAIN todo /\ todo[1].op = "begin" /\ todo[1].node = n
    BY <1>0, <1>3, <1>4, BeginType, HeadType, ProgramType DEF PushHint, Variables
  <2>2. PICK f : f = Visits(prog[n].kids) \o <<End(n, Len(hints))>>
    OBVIOUS
  <2>3. Opens(f)
    BY <1>0, <1>3, <1>4, <2>2, PushHintOpens
  <2>4. Opened(n)'
    BY <1>0, <1>3, <2>1, <2>3, EndsOpened DEF Bracketed, Opened
  <2>5. \A e \in Variables : Opened(e)' => e = n
    BY <1>3, NewlyOpened DEF NoneOpened
  <2>6. hints' # <<>> /\ hints'[1] = DeclaredType(n)
    <3>1. hints' = Append(hints, DeclaredType(n)) /\ DeclaredType(n) \in Type
      BY <1>3, <1>4, <2>1, DeclaredTypeType DEF PushHint, This
    <3> QED BY <3>1 DEF NoneOpened
  <2>7. ASSUME NEW i \in DOMAIN todo', todo'[i].op = "begin", todo'[i].node # Null
        PROVE  n < todo'[i].node
    <3>1. CASE \E k \in DOMAIN f : todo'[i] = f[k]
      <4>1. PICK k \in DOMAIN f : todo'[i] = f[k]
        BY <3>1
      <4>2. IsFront(f, n) /\ f[k].op = "begin" /\ f[k].node # Null
        BY <1>3, <2>3, <2>7, <4>1, OpensFront
      <4>3. f[k].node \in DOMAIN prog /\ f[k].node > n
        BY <1>0, <4>2, FrontType
      <4> QED BY <1>0, <2>1, <4>1, <4>3, ProgramType
    <3>2. CASE \E j \in DOMAIN todo : j > 1 /\ todo'[i] = todo[j]
      <4>1. PICK j \in DOMAIN todo : j > 1 /\ todo'[i] = todo[j]
        BY <3>2
      <4>2. 1 < j
        BY <1>0, <4>1, HeadType
      <4> QED BY <2>1, <2>7, <4>1, <4>2 DEF OrderInv, Below
    <3> QED BY <1>0, <2>3, <3>1, <3>2, OpenItems
  <2>8. IsFirst(n)'
    BY <1>1, <2>1, <2>4, <2>5, <2>6, <2>7 DEF IsFirst
  <2>9. TypesStrays(n)'
    BY <1>1, <1>2 DEF TypesStrays
  <2> QED BY <1>1, <2>1, <2>8, <2>9 DEF FirstInv
<1>5. CASE ~PushHint
  <2>1. \A e \in Variables : ~Opened(e)'
    BY <1>5, NewlyOpened DEF NoneOpened
  <2>2. hints' = hints
    BY <1>0, <1>5, HintChanges, Inserting DEF NoneOpened, Opened
  <2> QED BY <1>1, <1>2, <2>1, <2>2 DEF FirstInv, NoneOpened
<1> QED BY <1>4, <1>5

StrayInv == OrderInv /\ (Plain => PlainDepth /\ FirstInv)

LEMMA StrayPreserved ==
  ASSUME BaseInv, StrayInv, [Next]_vars
  PROVE  StrayInv'
<1>0. WalkInv /\ hints \in Seq(Type)
  BY DEF BaseInv, DataInv
<1>1. prog' = prog
  BY <1>0, StepShape DEF Stops, Drops, Opens, vars
<1>2. /\ Variables' = Variables /\ Above' = Above
      /\ \A n : Enclosing(n)' = Enclosing(n)
      /\ Plain' <=> Plain
  BY <1>1, TreeStays DEF Enclosing, Plain
<1>3. CASE Next
  <2>1. OrderInv'
    BY <1>0, <1>3, OrderPreserved DEF StrayInv
  <2>2. ASSUME Plain
        PROVE  PlainDepth' /\ FirstInv'
    <3>1. PlainDepth /\ FirstInv
      BY <2>2 DEF StrayInv
    <3>2. PlainDepth'
      BY <1>3, <2>2, <3>1, PlainPreserved
    <3>3. CASE NoneOpened
      BY <1>3, <2>2, <3>1, <3>2, <3>3, FirstComes DEF StrayInv
    <3>4. CASE \E d \in Variables : IsFirst(d) /\ TypesStrays(d)
      BY <1>2, <1>3, <2>2, <3>1, <3>2, <3>4, FirstStays DEF FirstInv
    <3> QED BY <3>1, <3>2, <3>3, <3>4 DEF FirstInv
  <2> QED BY <1>2, <2>1, <2>2 DEF StrayInv
<1>4. CASE UNCHANGED vars
  <2>1. /\ todo' = todo /\ hints' = hints /\ table' = table /\ exprType' = exprType
        /\ \A d : ScopeOf(d)' = ScopeOf(d) /\ DeclaredType(d)' = DeclaredType(d)
    BY <1>1, <1>4, TreeStays DEF vars, ScopeOf, DeclaredType
  <2>2. \A d : (Inserted(d)' <=> Inserted(d)) /\ (EndIn(d)' <=> EndIn(d))
    BY <1>1, <2>1 DEF Inserted, EndIn
  <2>3. OrderInv' <=> OrderInv
    BY <1>1, <1>2, <2>1 DEF OrderInv, Below
  <2>4. PlainDepth' <=> PlainDepth
    BY <1>2, <2>1, <2>2 DEF PlainDepth
  <2>5. \A d : (Opened(d)' <=> Opened(d)) /\ (Stray(d)' <=> Stray(d))
    BY <1>1, <1>2, <2>1, <2>2 DEF Opened, Stray
  <2>6. \A d : (IsFirst(d)' <=> IsFirst(d))
    BY <1>2, <2>1, <2>5 DEF IsFirst
  <2>7. \A d : (TypesStrays(d)' <=> TypesStrays(d))
    BY <1>1, <2>1, <2>2, <2>5 DEF TypesStrays, NumberType, Deduce
  <2>8. NoneOpened' <=> NoneOpened
    BY <1>1, <1>2, <2>1, <2>5 DEF NoneOpened
  <2> QED BY <1>2, <2>3, <2>4, <2>6, <2>7, <2>8 DEF StrayInv, FirstInv
<1> QED BY <1>3, <1>4

\* A number outside initializers takes its type from the first variable that was
\* checked in the unit and from no later one, as long as no variable is nested
\* in the initializer of another: only the first finds HintStack empty, so only
\* its hint is not popped by HintCtxExit, and visit(NumLiteral) finds it alone.
THEOREM StraysTyped == Spec => []StrayNumbersTyped
<1>1. Init => StrayInv
  <2> SUFFICES ASSUME Init PROVE StrayInv
    OBVIOUS
  <2>1. hints = <<>> /\ \A n \in DOMAIN prog : exprType[n] = Unknown
    BY DEF Init
  <2>2. PICK b : b = Begin(Root)
    OBVIOUS
  <2>3. b.op = "begin" /\ todo = <<b>> /\ prog \in Programs
    BY <2>2 DEF Begin, Init
  <2>4. DOMAIN todo = {1} /\ todo[1] = b
    BY <2>3
  <2>5. \A d : ~EndIn(d)
    BY <2>3, <2>4 DEF EndIn
  <2>6. \A d \in Variables : ~Inserted(d)
    BY NoneInserted
  <2>7. OrderInv
    BY <2>4 DEF OrderInv
  <2>8. PlainDepth
    <3>1. Len(hints) = 0
      BY <2>1
    <3> QED BY <2>3, <2>4, <3>1 DEF PlainDepth
  <2>9. FirstInv
    BY <2>1, <2>5, <2>6 DEF FirstInv, NoneOpened, Opened, Stray
  <2> QED BY <2>7, <2>8, <2>9 DEF StrayInv
<1>2. BaseInv /\ StrayInv /\ [Next]_vars => StrayInv'
  BY StrayPreserved
<1>3. BaseInv /\ StrayInv => StrayNumbersTyped
  <2> SUFFICES ASSUME BaseInv, StrayInv, \A d \in Variables : Nesting(d) = 0,
                      NEW n \in DOMAIN prog, prog[n].kind \in {"Int", "Float"},
                      exprType[n] # Unknown, Enclosing(n) = {}
               PROVE  \E d \in Variables :
                        /\ Inserted(d)
                        /\ \A e \in Variables : Inserted(e) => d <= e
                        /\ exprType[n] = NumberType(prog[n].kind, DeclaredType(d))
    BY DEF StrayNumbersTyped
  <2>1. Plain
    <3> SUFFICES ASSUME NEW d \in Variables PROVE Enclosing(d) = {}
      BY DEF Plain
    <3>1. IsFiniteSet(Enclosing(d))
      BY EnclosingFinite DEF BaseInv, WalkInv
    <3> QED BY <3>1, FS_EmptySet DEF Nesting
  <2>2. FirstInv /\ Stray(n)
    BY <2>1 DEF StrayInv, Stray
  <2>3. PICK d \in Variables : IsFirst(d) /\ TypesStrays(d)
    BY <2>2 DEF FirstInv, NoneOpened
  <2> QED BY <2>2, <2>3 DEF IsFirst, TypesStrays, Opened
<1> QED BY <1>1, <1>2, <1>3, BaseAlways, PTL DEF Spec
=============================================================================
