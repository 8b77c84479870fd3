-------------------------- MODULE ASTPrinterProofs --------------------------
(***************************************************************************)
(* Proofs about the tree builder and the printer, for every parse tree.    *)
(***************************************************************************)
EXTENDS ASTPrinter, FiniteSetTheorems, TLAPS

LOCAL INSTANCE SequencesExt

-----------------------------------------------------------------------------
(* Counting, and sequences put together.                                   *)

\* Induction up to a bound: a set that has 0 and with n also n + 1.  (From a
\* number that is not in it one could count down without end.)
LEMMA CountUp ==
  ASSUME NEW N \in Nat, NEW G, 0 \in G,
         \A n \in 0..N : n \in G /\ n < N => n + 1 \in G
  PROVE  0..N \subseteq G
<1> SUFFICES ASSUME NEW t \in 0..N, t \notin G PROVE FALSE
  OBVIOUS
<1> DEFINE B == {n \in 0..t : n \notin G}
           f == [n \in B |-> n - 1]
<1>1. t \in B /\ B \in SUBSET (0..t)
  OBVIOUS
<1>2. IsFiniteSet(B) /\ Cardinality(B) \in Nat
  <2>1. IsFiniteSet(0..t)
    BY FS_Interval
  <2> HIDE DEF B
  <2> QED BY <1>1, <2>1, FS_Subset, FS_CardinalityType
<1>3. ASSUME NEW n \in B PROVE n - 1 \in B \ {t} /\ n \in Nat
  <2>1. n \in 0..t /\ n # 0 /\ n \notin G
    BY <1>3
  <2>2. n - 1 \in 0..N /\ n - 1 < N /\ (n - 1) + 1 = n /\ n - 1 \in 0..t /\ n - 1 # t
    BY <2>1
  <2> QED BY <2>1, <2>2
<1>4. f \in [B -> B \ {t}]
  BY <1>3
<1>5. IsFiniteSet(B \ {t}) /\ Cardinality(B \ {t}) < Cardinality(B)
  <2> HIDE DEF B
  <2>1. IsFiniteSet(B \ {t}) /\ Cardinality(B \ {t}) = Cardinality(B) - 1
    BY <1>1, <1>2, FS_RemoveElement
  <2> QED BY <1>2, <2>1
<1>6. PICK x, y \in B : x # y /\ f[x] = f[y]
  <2> HIDE DEF B, f
  <2> QED BY <1>2, <1>4, <1>5, FS_PigeonHole
<1>7. x - 1 = y - 1 /\ x \in Nat /\ y \in Nat
  BY <1>3, <1>6
<1> QED BY <1>6, <1>7

LEMMA Joined ==
  ASSUME NEW X, NEW a \in Seq(X), NEW b \in Seq(X)
  PROVE  /\ a \o b \in Seq(X)
         /\ Len(a \o b) = Len(a) + Len(b) /\ Len(a) \in Nat /\ Len(b) \in Nat
         /\ DOMAIN a = 1..Len(a) /\ DOMAIN b = 1..Len(b)
         /\ DOMAIN (a \o b) = 1..(Len(a) + Len(b))
         /\ \A q \in 1..Len(a) : (a \o b)[q] = a[q]
         /\ \A q \in 1..Len(b) : (a \o b)[Len(a) + q] = b[q]
OBVIOUS

\* An element of two sequences put together is one of the first or the second.
LEMMA InJoined ==
  ASSUME NEW X, NEW a \in Seq(X), NEW b \in Seq(X), NEW j \in DOMAIN (a \o b)
  PROVE  \/ \E i \in DOMAIN a : j = i /\ (a \o b)[j] = a[i]
         \/ \E i \in DOMAIN b : j = Len(a) + i /\ (a \o b)[j] = b[i]
<1>1. PICK m, n : m = Len(a) /\ n = Len(b)
  OBVIOUS
<1>2. /\ m \in Nat /\ n \in Nat /\ j \in 1..(m + n) /\ DOMAIN a = 1..m /\ DOMAIN b = 1..n
      /\ \A q \in 1..m : (a \o b)[q] = a[q]
      /\ \A q \in 1..n : (a \o b)[m + q] = b[q]
  BY <1>1, Joined
<1>3. CASE j \in 1..m
  BY <1>2, <1>3
<1>4. CASE j \notin 1..m
  <2>1. j - m \in 1..n /\ j = m + (j - m)
    BY <1>2, <1>4
  <2> QED BY <1>1, <1>2, <2>1
<1> QED BY <1>3, <1>4

\* The recursive function of FlattenSeq has a value.
LEMMA FlattenStages ==
  ASSUME NEW s, NEW n \in Nat, n = Len(s), n # 0
  PROVE  \E f : /\ FlattenSeq(s) = f[n]
                /\ f[1] = s[1]
                /\ \A i \in 2..n : f[i] = f[i - 1] \o s[i]
<1> DEFINE Def(f) == f = [i \in 1..Len(s) |-> IF i = 1 THEN s[i] ELSE f[i - 1] \o s[i]]
           Rec(f, k) == \A i \in 1..k : f[i] = IF i = 1 THEN s[i] ELSE f[i - 1] \o s[i]
           G == {k \in 0..n : \E f : Rec(f, k)}
<1>1. 0 \in G
  <2>1. \A f : Rec(f, 0)
    OBVIOUS
  <2> QED BY <2>1
<1>2. ASSUME NEW k \in 0..n, k \in G, k < n PROVE k + 1 \in G
  <2>1. PICK u : Rec(u, k)
    BY <1>2
  <2> DEFINE w == [i \in 1..(k + 1) |->
                     IF i = k + 1 THEN IF i = 1 THEN s[i] ELSE u[i - 1] \o s[i] ELSE u[i]]
  <2>2. ASSUME NEW i \in 1..(k + 1) PROVE w[i] = IF i = 1 THEN s[i] ELSE w[i - 1] \o s[i]
    <3>1. i # 1 => i - 1 \in 1..(k + 1) /\ w[i - 1] = u[i - 1]
      OBVIOUS
    <3>2. CASE i = k + 1
      BY <3>1, <3>2
    <3>3. CASE i # k + 1
      <4>1. i \in 1..k /\ w[i] = u[i]
        BY <3>3
      <4>2. u[i] = IF i = 1 THEN s[i] ELSE u[i - 1] \o s[i]
        BY <2>1, <4>1
      <4> HIDE DEF w
      <4> QED BY <3>1, <4>1, <4>2
    <3> QED BY <3>2, <3>3
  <2>3. Rec(w, k + 1)
    BY <2>2
  <2>4. \E f : Rec(f, k + 1)
    <3> HIDE DEF Rec, w
    <3> QED BY <2>3
  <2>5. k + 1 \in 0..n
    BY <1>2
  <2> HIDE DEF Rec
  <2> QED BY <2>4, <2>5
<1>3. n \in G
  <2> HIDE DEF G
  <2>1. 0..n \subseteq G
    BY <1>1, <1>2, CountUp
  <2> QED BY <2>1
<1>4. PICK u : Rec(u, n)
  BY <1>3
<1>5. Def([i \in 1..n |-> u[i]])
  <2> DEFINE w == [i \in 1..n |-> u[i]]
  <2>1. ASSUME NEW i \in 1..n PROVE w[i] = IF i = 1 THEN s[i] ELSE w[i - 1] \o s[i]
    <3>1. w[i] = u[i] /\ (i # 1 => i - 1 \in 1..n /\ w[i - 1] = u[i - 1])
      OBVIOUS
    <3>2. u[i] = IF i = 1 THEN s[i] ELSE u[i - 1] \o s[i]
      BY <1>4
    <3> HIDE DEF w
    <3> QED BY <3>1, <3>2
  <2> QED BY <2>1
<1>6. PICK f : f = CHOOSE g : Def(g)
  OBVIOUS
<1>7. Def(f)
  <2> HIDE DEF Def
  <2> QED BY <1>5, <1>6
<1>8. FlattenSeq(s) = f[n]
  BY <1>6 DEF FlattenSeq
<1>9. \A i \in 1..n : f[i] = IF i = 1 THEN s[i] ELSE f[i - 1] \o s[i]
  BY <1>7
<1> HIDE DEF Def
<1>10. f[1] = s[1]
  <2>1. 1 \in 1..n
    OBVIOUS
  <2> QED BY <1>9, <2>1
<1>11. ASSUME NEW i \in 2..n PROVE f[i] = f[i - 1] \o s[i]
  <2>1. i \in 1..n /\ i # 1
    OBVIOUS
  <2>2. f[i] = IF i = 1 THEN s[i] ELSE f[i - 1] \o s[i]
    BY <1>9, <2>1
  <2> QED BY <2>1, <2>2
<1> QED BY <1>8, <1>10, <1>11

\* FlattenSeq puts each sequence behind those before it: the i-th one comes
\* after offset[i] other elements.
IsOffset(s, n, offset) ==
  /\ offset \in [1..n -> Nat]
  /\ \A i \in 1..n, m \in Nat : m \in DOMAIN s[i] =>
       /\ offset[i] + m \in DOMAIN FlattenSeq(s)
       /\ FlattenSeq(s)[offset[i] + m] = s[i][m]
  /\ \A q \in DOMAIN FlattenSeq(s) : \E i \in 1..n : \E m \in DOMAIN s[i] : q = offset[i] + m
  /\ \A i \in 1..n : offset[i] + Len(s[i]) <= Len(FlattenSeq(s))
  /\ \A i \in 1..n, j \in 1..n : i < j => offset[i] + Len(s[i]) <= offset[j]

LEMMA FlattenShape ==
  ASSUME NEW X, NEW s, NEW n \in Nat, n = Len(s), \A i \in 1..n : s[i] \in Seq(X), s = <<>> \/ n # 0
  PROVE  FlattenSeq(s) \in Seq(X) /\ \E offset : IsOffset(s, n, offset)
<1>1. CASE n = 0
  <2>1. FlattenSeq(s) = <<>>
    BY <1>1 DEF FlattenSeq
  <2>2. IsOffset(s, n, <<>>)
    BY <1>1, <2>1 DEF IsOffset
  <2> QED BY <2>1, <2>2
<1>2. CASE n # 0
  <2>1. PICK f : /\ FlattenSeq(s) = f[n]
                 /\ f[1] = s[1]
                 /\ \A i \in 2..n : f[i] = f[i - 1] \o s[i]
    BY <1>2, FlattenStages
  <2>2. PICK g : g = [k \in 0..n |-> IF k = 0 THEN <<>> ELSE f[k]]
    OBVIOUS
  <2>3. /\ g[0] = <<>> /\ g[n] = FlattenSeq(s)
    BY <1>2, <2>1, <2>2
  <2>4. ASSUME NEW k \in 0..n, k < n PROVE g[k + 1] = g[k] \o s[k + 1]
    <3>1. CASE k = 0
      <4>1. g[k + 1] = s[1] /\ s[1] \in Seq(X)
        BY <1>2, <2>1, <2>2, <3>1
      <4>2. <<>> \o s[1] = s[1]
        BY <4>1
      <4>3. g[k] = <<>> /\ k + 1 = 1
        BY <2>3, <3>1
      <4> QED BY <4>1, <4>2, <4>3
    <3>2. CASE k # 0
      <4>1. k + 1 \in 2..n /\ (k + 1) - 1 = k
        BY <2>4, <3>2
      <4>2. f[k + 1] = f[k] \o s[k + 1]
        BY <2>1, <4>1
      <4>3. g[k + 1] = f[k + 1] /\ g[k] = f[k]
        BY <2>2, <3>2, <4>1
      <4> QED BY <4>2, <4>3
    <3> QED BY <3>1, <3>2
  <2>5. \A k \in 0..n : g[k] \in Seq(X)
    <3> DEFINE G == {k \in 0..n : g[k] \in Seq(X)}
    <3>1. 0 \in G
      <4>1. g[0] = <<>> /\ 0 \in 0..n
        BY <2>3
      <4>2. g[0] \in Seq(X)
        BY ONLY <4>1
      <4> QED BY <4>1, <4>2
    <3>2. ASSUME NEW k \in 0..n, k \in G, k < n PROVE k + 1 \in G
      <4>1. k + 1 \in 1..n /\ s[k + 1] \in Seq(X) /\ k + 1 \in 0..n
        BY <3>2
      <4>2. g[k] \o s[k + 1] \in Seq(X)
        BY <3>2, <4>1, Joined
      <4>3. g[k + 1] = g[k] \o s[k + 1]
        BY <2>4, <3>2
      <4> QED BY <4>1, <4>2, <4>3
    <3> HIDE DEF G
    <3>3. 0..n \subseteq G
      BY <3>1, <3>2, CountUp
    <3> QED BY <3>3 DEF G
  <2>6. ASSUME NEW k \in 0..n, k < n
        PROVE  /\ Len(g[k]) \in Nat /\ Len(s[k + 1]) \in Nat
               /\ Len(g[k + 1]) = Len(g[k]) + Len(s[k + 1])
               /\ DOMAIN s[k + 1] = 1..Len(s[k + 1])
               /\ \A q \in 1..Len(g[k]) : g[k + 1][q] = g[k][q]
               /\ \A q \in 1..Len(s[k + 1]) : g[k + 1][Len(g[k]) + q] = s[k + 1][q]
    <3>1. k + 1 \in 1..n /\ s[k + 1] \in Seq(X) /\ g[k] \in Seq(X)
      BY <2>5, <2>6
    <3>2. PICK a \in Seq(X) : a = g[k]
      BY <3>1
    <3>3. PICK b \in Seq(X) : b = s[k + 1]
      BY <3>1
    <3>4. g[k + 1] = a \o b
      BY <2>4, <2>6, <3>2, <3>3
    <3>5. /\ Len(a) \in Nat /\ Len(b) \in Nat
          /\ Len(a \o b) = Len(a) + Len(b)
          /\ DOMAIN b = 1..Len(b)
          /\ \A q \in 1..Len(a) : (a \o b)[q] = a[q]
          /\ \A q \in 1..Len(b) : (a \o b)[Len(a) + q] = b[q]
      BY Joined
    <3> QED BY <3>2, <3>3, <3>4, <3>5
  <2>7. PICK offset : offset = [i \in 1..n |-> Len(g[i - 1])]
    OBVIOUS
  <2>8. ASSUME NEW k \in 0..n, k < n
        PROVE  offset[k + 1] = Len(g[k]) /\ k + 1 \in 1..n /\ k + 1 \in 0..n
    <3>1. k + 1 \in 1..n /\ (k + 1) - 1 = k
      BY <2>8
    <3> QED BY <2>7, <3>1
  <2>9. ASSUME NEW i \in 1..n PROVE i - 1 \in 0..n /\ i - 1 < n /\ (i - 1) + 1 = i
    OBVIOUS
  <2>10. offset \in [1..n -> Nat]
    <3>1. \A i \in 1..n : Len(g[i - 1]) \in Nat
      BY <2>6, <2>9
    <3> QED BY <2>7, <3>1
  <2>11. ASSUME NEW i \in 0..n, NEW j \in 0..n, i <= j
         PROVE  Len(g[i]) <= Len(g[j]) /\ \A q \in 1..Len(g[i]) : g[j][q] = g[i][q]
    <3> DEFINE G == {k \in 0..n : i <= k => /\ Len(g[i]) <= Len(g[k])
                                            /\ \A q \in 1..Len(g[i]) : g[k][q] = g[i][q]}
    <3>1. \A k \in 0..n : Len(g[k]) \in Nat
      BY <2>5
    <3>2. i \in G /\ \A k \in 0..n : k < i => k \in G
      BY <3>1
    <3>3. 0 \in G
      BY <3>2
    <3>4. ASSUME NEW k \in 0..n, k \in G, k < n PROVE k + 1 \in G
      <4>1. CASE k + 1 <= i
        <5>1. k + 1 \in 0..n /\ (k + 1 = i \/ k + 1 < i)
          BY <3>4, <4>1
        <5> QED BY <3>2, <5>1
      <4>2. CASE i <= k
        <5>1. /\ Len(g[i]) <= Len(g[k]) /\ \A q \in 1..Len(g[i]) : g[k][q] = g[i][q]
          BY <3>4, <4>2
        <5>2. /\ Len(g[k + 1]) = Len(g[k]) + Len(s[k + 1]) /\ Len(s[k + 1]) \in Nat
              /\ \A q \in 1..Len(g[k]) : g[k + 1][q] = g[k][q]
          BY <2>6, <3>4
        <5>3. \A q \in 1..Len(g[i]) : q \in 1..Len(g[k])
          BY <3>1, <5>1
        <5>4. \A q \in 1..Len(g[i]) : g[k + 1][q] = g[i][q]
          BY <5>1, <5>2, <5>3
        <5>5. Len(g[i]) <= Len(g[k + 1])
          <6>1. Len(g[i]) \in Nat /\ Len(g[k]) \in Nat
            BY <3>1
          <6> DEFINE x == Len(g[i])
                     y == Len(g[k])
                     z == Len(s[k + 1])
                     w == Len(g[k + 1])
          <6>2. x \in Nat /\ y \in Nat /\ z \in Nat /\ x <= y /\ w = y + z
            BY <5>1, <5>2, <6>1
          <6> HIDE DEF x, y, z, w
          <6>3. x <= w
            BY <6>2
          <6> QED BY <6>3 DEF x, w
        <5>6. k + 1 \in 0..n
          BY <3>4
        <5> QED BY <5>4, <5>5, <5>6
      <4> QED BY <4>1, <4>2
    <3> HIDE DEF G
    <3>5. 0..n \subseteq G
      BY <3>3, <3>4, CountUp
    <3> QED BY <2>11, <3>5 DEF G
  <2>12. ASSUME NEW i \in 1..n, NEW m \in Nat, m \in DOMAIN s[i]
         PROVE  offset[i] + m \in DOMAIN g[n] /\ g[n][offset[i] + m] = s[i][m]
    <3>1. PICK k : k = i - 1
      OBVIOUS
    <3>2. k \in 0..n /\ k < n /\ k + 1 = i
      BY <2>9, <3>1
    <3>3. offset[i] = Len(g[k]) /\ i \in 0..n
      BY <2>8, <3>2
    <3>4. /\ Len(g[k]) \in Nat /\ Len(s[i]) \in Nat
          /\ Len(g[i]) = Len(g[k]) + Len(s[i])
          /\ m \in 1..Len(s[i])
          /\ g[i][Len(g[k]) + m] = s[i][m]
      BY <2>6, <2>12, <3>2
    <3>5. Len(g[k]) + m \in 1..Len(g[i])
      <4> DEFINE x == Len(g[k])
                 y == Len(s[i])
      <4>1. x \in Nat /\ y \in Nat /\ m \in 1..y /\ Len(g[i]) = x + y
        BY <3>4
      <4> HIDE DEF x, y
      <4>2. x + m \in 1..(x + y)
        BY <4>1
      <4> QED BY <4>1, <4>2 DEF x
    <3>6. i <= n /\ n \in 0..n /\ Len(g[i]) \in Nat /\ Len(g[n]) \in Nat /\ DOMAIN g[n] = 1..Len(g[n])
      BY <2>5, <3>3
    <3>7. Len(g[i]) <= Len(g[n]) /\ g[n][Len(g[k]) + m] = g[i][Len(g[k]) + m]
      BY <2>11, <3>3, <3>5, <3>6
    <3>8. Len(g[k]) + m \in 1..Len(g[n])
      <4> DEFINE x == Len(g[k]) + m
                 y == Len(g[i])
                 z == Len(g[n])
      <4>1. x \in 1..y /\ y \in Nat /\ z \in Nat /\ y <= z
        BY <3>5, <3>6, <3>7
      <4> HIDE DEF x, y, z
      <4>2. x \in 1..z
        BY <4>1
      <4> QED BY <4>2 DEF x, z
    <3> QED BY <3>3, <3>4, <3>6, <3>7, <3>8
  <2>13. \A q \in DOMAIN g[n] : \E i \in 1..n : \E m \in DOMAIN s[i] : q = offset[i] + m
    <3> DEFINE G == {k \in 0..n : \A q \in 1..Len(g[k]) :
                                    \E i \in 1..n : \E m \in DOMAIN s[i] : q = offset[i] + m}
    <3>1. 0 \in G
      BY <2>3
    <3>2. ASSUME NEW k \in 0..n, k \in G, k < n PROVE k + 1 \in G
      <4>1. /\ Len(g[k]) \in Nat /\ Len(s[k + 1]) \in Nat
            /\ Len(g[k + 1]) = Len(g[k]) + Len(s[k + 1])
            /\ DOMAIN s[k + 1] = 1..Len(s[k + 1])
        BY <2>6, <3>2
      <4>2. offset[k + 1] = Len(g[k]) /\ k + 1 \in 1..n
        BY <2>8, <3>2
      <4>3. ASSUME NEW q \in 1..Len(g[k + 1])
            PROVE  \E i \in 1..n : \E m \in DOMAIN s[i] : q = offset[i] + m
        <5>1. CASE q \in 1..Len(g[k])
          BY <3>2, <5>1
        <5>2. CASE q \notin 1..Len(g[k])
          <6> DEFINE x == Len(g[k])
                     y == Len(s[k + 1])
          <6>0. x \in Nat /\ y \in Nat /\ q \in 1..(x + y) /\ q \notin 1..x
            BY <4>1, <5>2
          <6> HIDE DEF x, y
          <6>1. q - x \in 1..y /\ q = x + (q - x)
            BY <6>0
          <6>2. offset[k + 1] = x /\ DOMAIN s[k + 1] = 1..y
            BY <4>1, <4>2 DEF x, y
          <6> QED BY <4>2, <6>1, <6>2
        <5> QED BY <5>1, <5>2
      <4>4. k + 1 \in 0..n
        BY <4>2
      <4> QED BY <4>3, <4>4
    <3> HIDE DEF G
    <3>3. n \in G
      <4>1. 0..n \subseteq G
        BY <3>1, <3>2, CountUp
      <4> QED BY <4>1
    <3>4. DOMAIN g[n] = 1..Len(g[n])
      BY <2>5
    <3> QED BY <3>3, <3>4 DEF G
  <2>16. ASSUME NEW i \in 1..n PROVE offset[i] + Len(s[i]) = Len(g[i]) /\ Len(g[i]) <= Len(g[n])
    <3>1. PICK k : k = i - 1
      OBVIOUS
    <3>2. k \in 0..n /\ k < n /\ k + 1 = i
      BY <2>9, <3>1
    <3>3. offset[i] = Len(g[k]) /\ Len(g[i]) = Len(g[k]) + Len(s[i])
      BY <2>6, <2>8, <3>2
    <3>4. i \in 0..n /\ n \in 0..n /\ i <= n
      OBVIOUS
    <3>5. Len(g[i]) <= Len(g[n])
      BY <2>11, <3>4
    <3> QED BY <3>3, <3>5
  <2>17. ASSUME NEW i \in 1..n, NEW j \in 1..n, i < j PROVE offset[i] + Len(s[i]) <= offset[j]
    <3>1. PICK k : k = j - 1
      OBVIOUS
    <3>2. k \in 0..n /\ k < n /\ k + 1 = j /\ i \in 0..n /\ i <= k
      BY <2>9, <2>17, <3>1
    <3>3. offset[j] = Len(g[k]) /\ Len(g[i]) <= Len(g[k])
      BY <2>8, <2>11, <3>2
    <3> QED BY <2>16, <3>3
  <2>14. IsOffset(s, n, offset)
    BY <2>3, <2>10, <2>12, <2>13, <2>16, <2>17 DEF IsOffset
  <2>15. FlattenSeq(s) \in Seq(X)
    BY <2>3, <2>5
  <2> QED BY <2>14, <2>15
<1> QED BY <1>1, <1>2

\* A map over a sequence, and one more element behind a sequence.
LEMMA MapType ==
  ASSUME NEW X, NEW Y, NEW s \in Seq(X), NEW t, t = [k \in DOMAIN s |-> t[k]],
         \A k \in DOMAIN s : t[k] \in Y
  PROVE  t \in Seq(Y) /\ Len(t) = Len(s) /\ DOMAIN t = DOMAIN s /\ Len(s) \in Nat /\ DOMAIN s = 1..Len(s)
<1>1. Len(s) \in Nat /\ DOMAIN s = 1..Len(s)
  OBVIOUS
<1>2. t \in [1..Len(s) -> Y]
  BY <1>1
<1>3. t \in Seq(Y)
  BY <1>1, <1>2
<1> QED BY <1>1, <1>2, <1>3

\* Where the elements are when the first one of t gives way to those of f.
IsReplaced(t, f, u, K) ==
  /\ K \in Nat /\ Head(t) = t[1] /\ 1 \in DOMAIN t
  /\ DOMAIN f = 1..K /\ DOMAIN t = 1..Len(t) /\ Len(t) \in Nat
  /\ \A i \in 1..K : i \in DOMAIN u /\ u[i] = f[i]
  /\ \A i \in DOMAIN u :
       i \in Nat /\ (i \in 1..K \/ \E j \in DOMAIN t : j > 1 /\ i = K + j - 1 /\ u[i] = t[j])
  /\ \A j \in DOMAIN t : j > 1 => K + j - 1 \in DOMAIN u /\ u[K + j - 1] = t[j]

LEMMA Replaced ==
  ASSUME NEW V, NEW t \in Seq(V), t # <<>>, NEW f \in Seq(V), NEW u, u = f \o Tail(t),
         NEW K, K = Len(f)
  PROVE  u \in Seq(V) /\ IsReplaced(t, f, u, K)
<1>1. PICK r, n : r = Tail(t) /\ n = Len(t)
  OBVIOUS
<1>2. /\ n \in Nat /\ n >= 1 /\ DOMAIN t = 1..n /\ Head(t) = t[1]
      /\ r \in Seq(V) /\ Len(r) = n - 1 /\ \A i \in 1..(n - 1) : r[i] = t[i + 1]
  BY <1>1
<1>3. u = f \o r /\ n - 1 \in Nat
  BY <1>1, <1>2
<1>4. /\ u \in Seq(V) /\ K \in Nat /\ DOMAIN f = 1..K /\ DOMAIN u = 1..(K + (n - 1))
      /\ \A q \in 1..K : u[q] = f[q]
      /\ \A q \in 1..(n - 1) : u[K + q] = r[q]
  <2>1. r \in Seq(V)
    BY <1>2
  <2>2. /\ f \o r \in Seq(V)
        /\ Len(f) \in Nat /\ DOMAIN f = 1..Len(f)
        /\ DOMAIN (f \o r) = 1..(Len(f) + Len(r))
        /\ \A q \in 1..Len(f) : (f \o r)[q] = f[q]
        /\ \A q \in 1..Len(r) : (f \o r)[Len(f) + q] = r[q]
    BY ONLY <2>1, f \in Seq(V), Joined
  <2>3. Len(r) = n - 1
    BY <1>2
  <2> QED BY ONLY <1>3, <2>2, <2>3, K = Len(f)
<1>5. \A i \in 1..K : i \in DOMAIN u
  BY <1>2, <1>4
<1>6. ASSUME NEW j \in DOMAIN t, j > 1 PROVE K + j - 1 \in DOMAIN u /\ u[K + j - 1] = t[j]
  <2>1. j - 1 \in 1..(n - 1) /\ (j - 1) + 1 = j /\ K + (j - 1) = K + j - 1 /\ K + j - 1 \in 1..(K + (n - 1))
    BY <1>2, <1>4, <1>6
  <2> QED BY <1>2, <1>4, <2>1
<1>7. ASSUME NEW i \in DOMAIN u, i \notin 1..K
      PROVE  \E j \in DOMAIN t : j > 1 /\ i = K + j - 1 /\ u[i] = t[j]
  <2>1. PICK j : j = i - K + 1
    OBVIOUS
  <2>2. j \in 1..n /\ j > 1 /\ i = K + j - 1
    BY <1>2, <1>4, <1>7, <2>1
  <2> QED BY <1>2, <1>6, <2>2
<1>8. \A i \in DOMAIN u : i \in Nat
  BY <1>2, <1>4
<1>9. 1 \in DOMAIN t /\ Len(t) \in Nat /\ DOMAIN t = 1..Len(t)
  BY <1>1, <1>2
<1>10. \A i \in DOMAIN u : i \in Nat /\ (i \in 1..K \/ \E j \in DOMAIN t : j > 1 /\ i = K + j - 1 /\ u[i] = t[j])
  BY <1>7, <1>8
<1> QED BY ONLY <1>2, <1>4, <1>5, <1>6, <1>9, <1>10 DEF IsReplaced

-----------------------------------------------------------------------------
(* What the parse tree says.                                               *)

Step == [op : {"visit", "field", "make"}, node : Nat, field : Nat]

Incomplete == \E n \in DOMAIN tree : Null \in Items(tree[n].parts)

\* The children of a node, whatever their order.
LEMMA KidsOf ==
  ASSUME tree \in Trees, NEW n \in DOMAIN tree
  PROVE  /\ tree[n] \in ParseNode /\ HasParts(tree[n]) /\ n \in Nat
         /\ Kids(n) \in Seq(Nat)
         /\ \A k : (\E i \in DOMAIN Kids(n) : Kids(n)[i] = k) <=> k \in Items(tree[n].parts)
         /\ \A k \in Items(tree[n].parts) : k \in Nat /\ (k = Null \/ (k \in DOMAIN tree /\ k > n))
<1>1. tree \in Seq(ParseNode) /\ HasParts(tree[n])
      /\ \A k \in Items(tree[n].parts) \ {Null} : k \in DOMAIN tree /\ k > n
  BY TreeAssumption
<1>2. tree[n] \in ParseNode /\ DOMAIN tree = 1..Len(tree) /\ Len(tree) \in Nat
  BY <1>1
<1>3. PICK s, m : s = tree[n].parts /\ m = Len(s)
  OBVIOUS
<1>4. s \in Seq(Seq(Nat))
  BY <1>2, <1>3 DEF ParseNode
<1>5. m \in Nat /\ DOMAIN s = 1..m /\ \A i \in 1..m : s[i] \in Seq(Nat)
  BY <1>3, <1>4
<1>6. s = <<>> \/ m # 0
  BY <1>3, <1>4
<1>7. FlattenSeq(s) \in Seq(Nat) /\ \E offset : IsOffset(s, m, offset)
  BY <1>3, <1>5, <1>6, FlattenShape
<1>8. PICK offset : IsOffset(s, m, offset)
  BY <1>7
<1>9. Kids(n) = FlattenSeq(s)
  BY <1>3 DEF Kids
<1>10. ASSUME NEW i \in DOMAIN Kids(n) PROVE Kids(n)[i] \in Items(s)
  <2>1. PICK j \in 1..m : \E q \in DOMAIN s[j] : i = offset[j] + q
    BY <1>8, <1>9, <1>10 DEF IsOffset
  <2>2. PICK q \in DOMAIN s[j] : i = offset[j] + q
    BY <2>1
  <2>3. q \in Nat
    BY <1>5
  <2>4. Kids(n)[i] = s[j][q]
    BY <1>8, <1>9, <2>2, <2>3 DEF IsOffset
  <2> QED BY <1>5, <2>4 DEF Items, ToSet
<1>11. ASSUME NEW k \in Items(s) PROVE \E i \in DOMAIN Kids(n) : Kids(n)[i] = k
  <2>1. PICK j \in DOMAIN s : \E q \in DOMAIN s[j] : s[j][q] = k
    BY <1>11 DEF Items, ToSet
  <2>2. PICK q \in DOMAIN s[j] : s[j][q] = k
    BY <2>1
  <2>3. q \in Nat /\ j \in 1..m
    BY <1>5
  <2> QED BY <1>8, <1>9, <2>2, <2>3 DEF IsOffset
<1>12. \A k \in Items(s) : k \in Nat
  BY <1>5 DEF Items, ToSet
<1> QED BY <1>1, <1>2, <1>3, <1>7, <1>9, <1>10, <1>11, <1>12

\* A node has one place: one parent, and one position among its children.
LEMMA OnePlace ==
  ASSUME tree \in Trees, NEW m \in DOMAIN tree, NEW n \in DOMAIN tree,
         NEW p \in DOMAIN tree[m].parts, NEW q \in DOMAIN tree[n].parts,
         NEW i \in DOMAIN tree[m].parts[p], NEW j \in DOMAIN tree[n].parts[q],
         tree[m].parts[p][i] = tree[n].parts[q][j], tree[m].parts[p][i] # Null
  PROVE  m = n /\ p = q /\ i = j
BY PlaceAssumption

LEMMA OneParent ==
  ASSUME tree \in Trees, NEW m \in DOMAIN tree, NEW n \in DOMAIN tree,
         NEW k, k \in Items(tree[m].parts), k \in Items(tree[n].parts), k # Null
  PROVE  m = n
<1>1. PICK p \in DOMAIN tree[m].parts : \E i \in DOMAIN tree[m].parts[p] : tree[m].parts[p][i] = k
  BY DEF Items, ToSet
<1>2. PICK q \in DOMAIN tree[n].parts : \E j \in DOMAIN tree[n].parts[q] : tree[n].parts[q][j] = k
  BY DEF Items, ToSet
<1> QED BY <1>1, <1>2, OnePlace

LEMMA OneKid ==
  ASSUME tree \in Trees, NEW n \in DOMAIN tree, NEW i \in DOMAIN Kids(n), NEW j \in DOMAIN Kids(n),
         Kids(n)[i] = Kids(n)[j], Kids(n)[i] # Null
  PROVE  i = j
<1>1. PICK s, m : s = tree[n].parts /\ m = Len(s)
  OBVIOUS
<1>2. s \in Seq(Seq(Nat))
  BY <1>1, KidsOf DEF ParseNode
<1>3. m \in Nat /\ DOMAIN s = 1..m /\ \A k \in 1..m : s[k] \in Seq(Nat)
  BY <1>1, <1>2
<1>4. s = <<>> \/ m # 0
  BY <1>1, <1>2
<1>5. \E offset : IsOffset(s, m, offset)
  BY <1>1, <1>3, <1>4, FlattenShape
<1>6. PICK offset : IsOffset(s, m, offset)
  BY <1>5
<1>7. Kids(n) = FlattenSeq(s)
  BY <1>1 DEF Kids
<1>8. ASSUME NEW k \in DOMAIN Kids(n)
      PROVE  \E p \in DOMAIN s : \E q \in DOMAIN s[p] : k = offset[p] + q /\ Kids(n)[k] = s[p][q]
  <2>1. PICK p \in 1..m : \E q \in DOMAIN s[p] : k = offset[p] + q
    BY <1>6, <1>7, <1>8 DEF IsOffset
  <2>2. PICK q \in DOMAIN s[p] : k = offset[p] + q
    BY <2>1
  <2>3. q \in Nat
    BY <1>3
  <2>4. Kids(n)[k] = s[p][q] /\ p \in DOMAIN s
    BY <1>3, <1>6, <1>7, <2>2, <2>3 DEF IsOffset
  <2> QED BY <2>2, <2>4
<1>9. PICK p \in DOMAIN s : \E q \in DOMAIN s[p] : i = offset[p] + q /\ Kids(n)[i] = s[p][q]
  BY <1>8
<1>10. PICK q \in DOMAIN s[p] : i = offset[p] + q /\ Kids(n)[i] = s[p][q]
  BY <1>9
<1>11. PICK t \in DOMAIN s : \E u \in DOMAIN s[t] : j = offset[t] + u /\ Kids(n)[j] = s[t][u]
  BY <1>8
<1>12. PICK u \in DOMAIN s[t] : j = offset[t] + u /\ Kids(n)[j] = s[t][u]
  BY <1>11
<1>13. p = t /\ q = u
  <2>1. s[p][q] = s[t][u] /\ s[p][q] # Null
    BY <1>10, <1>12
  <2> QED BY <1>1, <2>1, OnePlace
<1> QED BY <1>10, <1>12, <1>13

\* The visits that a method makes, and for an object literal the fields that
\* it keeps or drops, each of them after the visit of its value.
IsVisits(v, n) ==
  /\ v \in Seq(Step)
  /\ \A i \in DOMAIN v :
       \/ \E k \in Items(tree[n].parts) : v[i] = Visit(k)
       \/ \E k \in DOMAIN Kids(n) :
            /\ v[i] = Field(n, k)
            /\ \E j \in DOMAIN v : j < i /\ v[j] = Visit(Kids(n)[k])
  /\ \A k \in Items(tree[n].parts) : \E j \in DOMAIN v : v[j] = Visit(k)

\* A method visits no child twice, and has a field for each child of an object
\* literal, and for nothing else.
IsOnce(v, n) ==
  /\ \A i \in DOMAIN v, j \in DOMAIN v :
       i # j /\ v[i].op = "visit" /\ v[j].op = "visit" /\ v[i].node = v[j].node => v[i].node = Null
  /\ tree[n].kind = "Object" => \A k \in DOMAIN Kids(n) : \E j \in DOMAIN v : v[j] = Field(n, k)
  /\ tree[n].kind # "Object" => \A j \in DOMAIN v : v[j].op = "visit"

LEMMA StepType ==
  ASSUME NEW k \in Nat, NEW i \in Nat
  PROVE  /\ Visit(k) \in Step /\ Field(k, i) \in Step /\ Make(k) \in Step
         /\ Visit(k).op = "visit" /\ Visit(k).node = k
         /\ Field(k, i).op = "field" /\ Field(k, i).node = k /\ Field(k, i).field = i
         /\ Make(k).op = "make" /\ Make(k).node = k
BY DEF Visit, Field, Make, Step

\* Two elements are a sequence.
LEMMA Pair ==
  ASSUME NEW X, NEW a \in X, NEW b \in X, NEW p, p = <<a, b>>
  PROVE  p \in Seq(X) /\ DOMAIN p = {1, 2} /\ p[1] = a /\ p[2] = b
<1>1. p \in Seq(X) /\ Len(p) = 2 /\ p[1] = a /\ p[2] = b
  OBVIOUS
<1>2. DOMAIN p = 1..2
  BY <1>1
<1>3. 1..2 = {1, 2}
  OBVIOUS
<1> QED BY <1>1, <1>2, <1>3

\* The steps of a method are its visits, then the making of its node.
LEMMA StepsShape ==
  ASSUME tree \in Trees, NEW n \in DOMAIN tree
  PROVE  \E v : Steps(n) = v \o <<Make(n)>> /\ IsVisits(v, n) /\ IsOnce(v, n)
<1>1. PICK c, m : c = Kids(n) /\ m = Len(c)
  OBVIOUS
<1>2. /\ c \in Seq(Nat) /\ m \in Nat /\ DOMAIN c = 1..m /\ n \in Nat
      /\ \A k : (\E i \in 1..m : c[i] = k) <=> k \in Items(tree[n].parts)
  <2>1. /\ c \in Seq(Nat) /\ n \in Nat
        /\ \A k : (\E i \in DOMAIN c : c[i] = k) <=> k \in Items(tree[n].parts)
    BY <1>1, KidsOf
  <2>2. m \in Nat /\ DOMAIN c = 1..m
    BY <1>1, <2>1
  <2> QED BY <2>1, <2>2
<1>3. \A i \in 1..m : c[i] \in Nat /\ i \in Nat /\ c[i] \in Items(tree[n].parts)
  BY <1>2
<1>4. CASE tree[n].kind = "Object"
  <2>1. PICK s : s = [k \in 1..m |-> <<Visit(c[k]), Field(n, k)>>]
    OBVIOUS
  <2>2. ASSUME NEW k \in 1..m
        PROVE  s[k] \in Seq(Step) /\ DOMAIN s[k] = {1, 2} /\ s[k][1] = Visit(c[k]) /\ s[k][2] = Field(n, k)
    <3>1. s[k] = <<Visit(c[k]), Field(n, k)>>
      BY <2>1
    <3>2. Visit(c[k]) \in Step /\ Field(n, k) \in Step
      BY <1>2, <1>3, StepType
    <3> QED BY <3>1, <3>2, Pair
  <2>3. s \in Seq(Seq(Step)) /\ Len(s) = m /\ DOMAIN s = 1..m
    <3>1. s = [k \in DOMAIN c |-> s[k]]
      BY <1>2, <2>1
    <3> QED BY <1>1, <1>2, <2>2, <3>1, MapType
  <2>4. s = <<>> \/ m # 0
    BY <2>3
  <2>5. FlattenSeq(s) \in Seq(Step) /\ \E offset : IsOffset(s, m, offset)
    BY <1>2, <2>2, <2>3, <2>4, FlattenShape
  <2>6. PICK offset : IsOffset(s, m, offset)
    BY <2>5
  <2>7. PICK v : v = FlattenSeq(s)
    OBVIOUS
  <2>8. ASSUME NEW k \in 1..m
        PROVE  /\ offset[k] + 1 \in DOMAIN v /\ v[offset[k] + 1] = Visit(c[k])
               /\ offset[k] + 2 \in DOMAIN v /\ v[offset[k] + 2] = Field(n, k)
               /\ offset[k] \in Nat
    <3>1. 1 \in DOMAIN s[k] /\ 2 \in DOMAIN s[k] /\ 1 \in Nat /\ 2 \in Nat
      BY <2>2
    <3>2. offset[k] \in Nat
      BY <2>6 DEF IsOffset
    <3>3. offset[k] + 1 \in DOMAIN v /\ v[offset[k] + 1] = s[k][1]
      BY <2>6, <2>7, <3>1 DEF IsOffset
    <3>4. offset[k] + 2 \in DOMAIN v /\ v[offset[k] + 2] = s[k][2]
      BY <2>6, <2>7, <3>1 DEF IsOffset
    <3> QED BY <2>2, <3>2, <3>3, <3>4
  <2>9. ASSUME NEW i \in DOMAIN v PROVE \E k \in 1..m : i = offset[k] + 1 \/ i = offset[k] + 2
    <3>1. PICK k \in 1..m : \E q \in DOMAIN s[k] : i = offset[k] + q
      BY <2>6, <2>7, <2>9 DEF IsOffset
    <3>2. PICK q \in DOMAIN s[k] : i = offset[k] + q
      BY <3>1
    <3>3. q \in {1, 2}
      BY <2>2, <3>2
    <3> QED BY <3>2, <3>3
  <2>10. ASSUME NEW i \in DOMAIN v
         PROVE  \/ \E k \in Items(tree[n].parts) : v[i] = Visit(k)
                \/ \E k \in DOMAIN Kids(n) :
                     /\ v[i] = Field(n, k)
                     /\ \E j \in DOMAIN v : j < i /\ v[j] = Visit(Kids(n)[k])
    <3>1. PICK k \in 1..m : i = offset[k] + 1 \/ i = offset[k] + 2
      BY <2>9
    <3>2. CASE i = offset[k] + 1
      BY <1>3, <2>8, <3>2
    <3>3. CASE i = offset[k] + 2
      <4>1. v[i] = Field(n, k) /\ k \in DOMAIN Kids(n)
        BY <1>1, <1>2, <2>8, <3>3
      <4>2. PICK j : j = offset[k] + 1
        OBVIOUS
      <4>3. j \in DOMAIN v /\ v[j] = Visit(Kids(n)[k])
        BY <1>1, <2>8, <4>2
      <4>4. j < i
        BY <2>8, <3>3, <4>2
      <4> QED BY <4>1, <4>3, <4>4
    <3> QED BY <3>1, <3>2, <3>3
  <2>11. ASSUME NEW k \in Items(tree[n].parts) PROVE \E j \in DOMAIN v : v[j] = Visit(k)
    <3>1. PICK i \in 1..m : c[i] = k
      BY <1>2
    <3> QED BY <2>8, <3>1
  <2>12. IsVisits(v, n)
    BY <2>5, <2>7, <2>10, <2>11 DEF IsVisits
  <2>13. Steps(n) = v \o <<Make(n)>>
    BY <1>1, <1>2, <1>4, <2>1, <2>7 DEF Steps
  <2>14. ASSUME NEW i \in DOMAIN v, v[i].op = "visit"
         PROVE  \E k \in 1..m : i = offset[k] + 1 /\ v[i].node = c[k]
    <3>1. PICK k \in 1..m : i = offset[k] + 1 \/ i = offset[k] + 2
      BY <2>9
    <3>2. v[i] = Visit(c[k]) \/ v[i] = Field(n, k)
      BY <2>8, <3>1
    <3>3. Visit(c[k]).node = c[k] /\ Field(n, k).op = "field"
      BY <1>2, <1>3, StepType
    <3>4. i = offset[k] + 1
      BY <2>8, <2>14, <3>1, <3>3
    <3> QED BY <2>14, <3>2, <3>3, <3>4
  <2>15. ASSUME NEW i \in DOMAIN v, NEW j \in DOMAIN v, i # j, v[i].op = "visit", v[j].op = "visit",
                v[i].node = v[j].node, v[i].node # Null
         PROVE  FALSE
    <3>1. PICK k \in 1..m : i = offset[k] + 1 /\ v[i].node = c[k]
      BY <2>14, <2>15
    <3>2. PICK l \in 1..m : j = offset[l] + 1 /\ v[j].node = c[l]
      BY <2>14, <2>15
    <3>3. k = l
      BY <1>1, <1>2, <2>15, <3>1, <3>2, OneKid
    <3> QED BY <2>15, <3>1, <3>2, <3>3
  <2>16. \A k \in DOMAIN Kids(n) : \E j \in DOMAIN v : v[j] = Field(n, k)
    BY <1>1, <1>2, <2>8
  <2>17. IsOnce(v, n)
    BY <1>4, <2>15, <2>16 DEF IsOnce
  <2> QED BY <2>12, <2>13, <2>17
<1>5. CASE tree[n].kind # "Object"
  <2>1. PICK v : v = [k \in 1..m |-> Visit(c[k])]
    OBVIOUS
  <2>2. \A k \in 1..m : v[k] = Visit(c[k]) /\ v[k] \in Step
    BY <1>3, <2>1, StepType
  <2>3. v \in Seq(Step) /\ DOMAIN v = 1..m
    <3>1. v = [k \in DOMAIN c |-> v[k]]
      BY <1>2, <2>1
    <3> QED BY <1>2, <2>2, <3>1, MapType
  <2>4. \A i \in DOMAIN v : \E k \in Items(tree[n].parts) : v[i] = Visit(k)
    BY <1>3, <2>2, <2>3
  <2>5. ASSUME NEW k \in Items(tree[n].parts) PROVE \E j \in DOMAIN v : v[j] = Visit(k)
    <3>1. PICK i \in 1..m : c[i] = k
      BY <1>2
    <3> QED BY <2>2, <2>3, <3>1
  <2>6. IsVisits(v, n)
    BY <2>3, <2>4, <2>5 DEF IsVisits
  <2>7. Steps(n) = v \o <<Make(n)>>
    BY <1>1, <1>2, <1>5, <2>1 DEF Steps
  <2>8. \A i \in DOMAIN v : v[i].op = "visit" /\ v[i].node = c[i]
    BY <1>3, <2>2, <2>3, StepType
  <2>9. \A i \in DOMAIN v, j \in DOMAIN v : c[i] = c[j] /\ c[i] # Null => i = j
    BY <1>1, <1>2, <2>3, OneKid
  <2>10. IsOnce(v, n)
    BY <1>5, <2>8, <2>9 DEF IsOnce
  <2> QED BY <2>6, <2>7, <2>10
<1> QED BY <1>4, <1>5

-----------------------------------------------------------------------------
(* What is still to do: no node is made before the values of its children. *)

\* The value of k is in d or will be, before the i-th of the steps u.
IsReady(u, d, k, i) ==
  \/ k \in d
  \/ \E j \in DOMAIN u : j < i /\ u[j].op # "field" /\ u[j].node = k

StepOK(u, d, i) ==
  /\ u[i].node \in DOMAIN tree \/ (u[i].op = "visit" /\ u[i].node = Null /\ Incomplete)
  /\ u[i].op = "field" => /\ u[i].field \in DOMAIN Kids(u[i].node)
                          /\ IsReady(u, d, Kids(u[i].node)[u[i].field], i)
  /\ u[i].op = "make" => \A k \in Items(tree[u[i].node].parts) : IsReady(u, d, k, i)

TodoOK(u, d) ==
  /\ u \in Seq(Step)
  /\ \A i \in DOMAIN u : StepOK(u, d, i)

\* The first step is done: it was a field, or its node has a value now.
LEMMA Popped ==
  ASSUME NEW u, NEW d, TodoOK(u, d), u # <<>>, NEW w, w = Tail(u),
         NEW e, d \subseteq e, Head(u).op = "field" \/ Head(u).node \in e
  PROVE  TodoOK(w, e)
<1>1. u \in Seq(Step)
  BY DEF TodoOK
<1>2. PICK f : f = <<>>
  OBVIOUS
<1>3. f \in Seq(Step) /\ Len(f) = 0 /\ w = f \o Tail(u)
  BY <1>1, <1>2
<1>4. /\ w \in Seq(Step) /\ Head(u) = u[1] /\ DOMAIN u = 1..Len(u) /\ Len(u) \in Nat
      /\ \A i \in DOMAIN w : i \in Nat /\ (i \in 1..0 \/ \E j \in DOMAIN u : j > 1 /\ i = 0 + j - 1 /\ w[i] = u[j])
      /\ \A j \in DOMAIN u : j > 1 => 0 + j - 1 \in DOMAIN w /\ w[0 + j - 1] = u[j]
  <2>1. u # <<>> /\ 0 = Len(f)
    BY <1>3
  <2>2. w \in Seq(Step) /\ IsReplaced(u, f, w, 0)
    BY <1>1, <1>3, <2>1, Replaced
  <2> QED BY <2>2 DEF IsReplaced
<1>5. ASSUME NEW i \in DOMAIN w
      PROVE  \E j \in DOMAIN u : j > 1 /\ i = j - 1 /\ w[i] = u[j]
  <2>1. i \notin 1..0
    OBVIOUS
  <2>2. PICK j \in DOMAIN u : j > 1 /\ i = 0 + j - 1 /\ w[i] = u[j]
    BY <1>4, <2>1
  <2>3. 0 + j - 1 = j - 1
    BY <1>4
  <2> QED BY <2>2, <2>3
<1>6. ASSUME NEW j \in DOMAIN u, j > 1, NEW k, IsReady(u, d, k, j)
      PROVE  IsReady(w, e, k, j - 1)
  <2>1. CASE k \in d
    BY <2>1 DEF IsReady
  <2>2. CASE k \notin d
    <3>1. PICK q \in DOMAIN u : q < j /\ u[q].op # "field" /\ u[q].node = k
      BY <1>6, <2>2 DEF IsReady
    <3>2. CASE q = 1
      BY <1>4, <3>1, <3>2 DEF IsReady
    <3>3. CASE q # 1
      <4>1. q > 1 /\ 0 + q - 1 = q - 1 /\ q - 1 < j - 1
        BY <1>4, <3>1, <3>3
      <4>2. q - 1 \in DOMAIN w /\ w[q - 1] = u[q]
        BY <1>4, <4>1
      <4> QED BY <3>1, <4>1, <4>2 DEF IsReady
    <3> QED BY <3>2, <3>3
  <2> QED BY <2>1, <2>2
<1>7. ASSUME NEW i \in DOMAIN w PROVE StepOK(w, e, i)
  <2>1. PICK j \in DOMAIN u : j > 1 /\ i = j - 1 /\ w[i] = u[j]
    BY <1>5
  <2>2. StepOK(u, d, j)
    BY DEF TodoOK
  <2> QED BY <1>6, <2>1, <2>2 DEF StepOK
<1> QED BY <1>4, <1>7 DEF TodoOK

\* The first step was the visit of n, and gives way to the steps of its method.
LEMMA Expanded ==
  ASSUME tree \in Trees, NEW u, NEW d, TodoOK(u, d), u # <<>>, Head(u).op = "visit",
         NEW n \in DOMAIN tree, n = Head(u).node, NEW w, w = Steps(n) \o Tail(u)
  PROVE  TodoOK(w, d)
<1>1. u \in Seq(Step) /\ n \in Nat
  BY KidsOf DEF TodoOK
<1>2. PICK v : Steps(n) = v \o <<Make(n)>> /\ IsVisits(v, n)
  BY StepsShape
<1>3. PICK f, K : f = Steps(n) /\ K = Len(f)
  OBVIOUS
<1>4. PICK L : L = Len(v)
  OBVIOUS
<1>5. v \in Seq(Step) /\ Make(n) \in Step
  BY <1>1, <1>2, StepType DEF IsVisits
<1>6. /\ f \in Seq(Step) /\ L \in Nat /\ K = L + 1 /\ DOMAIN v = 1..L /\ DOMAIN f = 1..K
      /\ \A q \in 1..L : f[q] = v[q]
      /\ f[K] = Make(n)
  BY <1>2, <1>3, <1>4, <1>5
<1>7. /\ w \in Seq(Step) /\ Head(u) = u[1] /\ DOMAIN u = 1..Len(u) /\ Len(u) \in Nat
      /\ \A i \in 1..K : i \in DOMAIN w /\ w[i] = f[i]
      /\ \A i \in DOMAIN w : i \in Nat /\ (i \in 1..K \/ \E j \in DOMAIN u : j > 1 /\ i = K + j - 1 /\ w[i] = u[j])
      /\ \A j \in DOMAIN u : j > 1 => K + j - 1 \in DOMAIN w /\ w[K + j - 1] = u[j]
  <2>1. u # <<>> /\ K = Len(f) /\ w = f \o Tail(u) /\ f \in Seq(Step) /\ u \in Seq(Step)
    BY <1>1, <1>3, <1>6
  <2>2. w \in Seq(Step) /\ IsReplaced(u, f, w, K)
    BY <2>1, Replaced
  <2> QED BY <2>2 DEF IsReplaced
<1>8. K \in 1..K /\ w[K] = Make(n) /\ K \in DOMAIN w /\ \A q \in 1..L : q \in 1..K /\ w[q] = v[q] /\ q \in DOMAIN w /\ q < K
  <2>1. K \in 1..K /\ \A q \in 1..L : q \in 1..K /\ q < K
    BY <1>6
  <2>2. \A i \in 1..K : i \in DOMAIN w /\ w[i] = f[i]
    BY <1>7
  <2> QED BY <1>6, <2>1, <2>2
<1>9. ASSUME NEW j \in DOMAIN u, j > 1, NEW k, IsReady(u, d, k, j)
      PROVE  IsReady(w, d, k, K + j - 1)
  <2>1. CASE k \in d
    BY <2>1 DEF IsReady
  <2>2. CASE k \notin d
    <3>1. PICK q \in DOMAIN u : q < j /\ u[q].op # "field" /\ u[q].node = k
      BY <1>9, <2>2 DEF IsReady
    <3>2. CASE q = 1
      <4>1. k = n /\ Make(n).node = n /\ Make(n).op # "field"
        BY <1>1, <1>7, <3>1, <3>2, StepType
      <4>2. K < K + j - 1
        BY <1>6, <1>7, <1>9
      <4> QED BY <1>8, <4>1, <4>2 DEF IsReady
    <3>3. CASE q # 1
      <4>1. q > 1 /\ K + q - 1 < K + j - 1
        BY <1>6, <1>7, <3>1, <3>3
      <4>2. K + q - 1 \in DOMAIN w /\ w[K + q - 1] = u[q]
        BY <1>7, <4>1
      <4> QED BY <3>1, <4>1, <4>2 DEF IsReady
    <3> QED BY <3>2, <3>3
  <2> QED BY <2>1, <2>2
<1>10. ASSUME NEW k \in Items(tree[n].parts), NEW j \in 1..L, w[j] = Visit(k), NEW i \in Nat, j < i
       PROVE  IsReady(w, d, k, i)
  <2>1. k \in Nat
    BY KidsOf
  <2>2. w[j].op # "field" /\ w[j].node = k
    BY <1>10, <2>1, StepType
  <2> QED BY <1>8, <1>10, <2>2 DEF IsReady
<1>11. ASSUME NEW i \in DOMAIN w PROVE StepOK(w, d, i)
  <2>1. ASSUME NEW j \in DOMAIN u, j > 1, i = K + j - 1, w[i] = u[j] PROVE StepOK(w, d, i)
    <3>1. StepOK(u, d, j)
      BY DEF TodoOK
    <3> QED BY <1>9, <2>1, <3>1 DEF StepOK
  <2>2. CASE i = K
    <3>1. w[i] = Make(n) /\ w[i].op = "make" /\ w[i].node = n /\ K \in Nat
      <4>1. w[i] = Make(n) /\ K \in Nat
        BY <1>6, <1>8, <2>2
      <4>2. Make(n).op = "make" /\ Make(n).node = n
        BY <1>1, StepType
      <4> QED BY <4>1, <4>2
    <3>2. ASSUME NEW k \in Items(tree[n].parts) PROVE IsReady(w, d, k, i)
      <4>1. PICK j \in DOMAIN v : v[j] = Visit(k)
        BY <1>2 DEF IsVisits
      <4>2. j \in 1..L /\ w[j] = Visit(k) /\ j < K
        BY <1>6, <1>8, <4>1
      <4> QED BY <1>10, <2>2, <3>1, <4>2
    <3> QED BY <3>1, <3>2 DEF StepOK
  <2>3. CASE i \in 1..L
    <3>1. w[i] = v[i] /\ i \in DOMAIN v
      BY <1>6, <1>8, <2>3
    <3>2. ASSUME NEW k \in Items(tree[n].parts), v[i] = Visit(k) PROVE StepOK(w, d, i)
      <4>1. k \in Nat /\ (k = Null \/ k \in DOMAIN tree)
        BY KidsOf
      <4>2. w[i].op = "visit" /\ w[i].node = k
        BY <3>1, <3>2, <4>1, StepType
      <4>3. k = Null => Incomplete
        BY DEF Incomplete
      <4> QED BY <4>1, <4>2, <4>3 DEF StepOK
    <3>3. ASSUME NEW k \in DOMAIN Kids(n), v[i] = Field(n, k),
                 NEW j \in DOMAIN v, j < i, v[j] = Visit(Kids(n)[k])
          PROVE  StepOK(w, d, i)
      <4>1. k \in Nat /\ Kids(n)[k] \in Items(tree[n].parts)
        <5>1. Kids(n) \in Seq(Nat)
          BY KidsOf
        <5>2. k \in Nat
          BY <5>1
        <5> QED BY <5>2, KidsOf
      <4>2. w[i].op = "field" /\ w[i].node = n /\ w[i].field = k
        <5>1. Field(n, k).op = "field" /\ Field(n, k).node = n /\ Field(n, k).field = k
          BY <1>1, <4>1, StepType
        <5> QED BY <3>1, <3>3, <5>1
      <4>3. j \in 1..L /\ w[j] = Visit(Kids(n)[k])
        BY <1>6, <1>8, <3>3
      <4>4. IsReady(w, d, Kids(n)[k], i)
        BY <1>10, <2>3, <3>3, <4>1, <4>3
      <4> QED BY <4>2, <4>4 DEF StepOK
    <3> QED BY <1>2, <3>1, <3>2, <3>3 DEF IsVisits
  <2>4. i \in 1..K => i = K \/ i \in 1..L
    BY <1>6
  <2> QED BY <1>7, <2>1, <2>2, <2>3, <2>4
<1> QED BY <1>7, <1>11 DEF TodoOK

-----------------------------------------------------------------------------
(* The syntax nodes: each of them is made from nodes that are there.       *)

SynNode(m) == [kind : Kind, of : DOMAIN tree, parts : Seq(Seq(1..m))]

AnyNode == [kind : Kind, of : Nat, parts : Seq(Seq(Nat))]

NodesInv ==
  /\ ast \in Seq(AnyNode)
  /\ \A a \in DOMAIN ast : ast[a] \in SynNode(a - 1)
  /\ \A n \in DOMAIN value :
       /\ n \in DOMAIN tree
       /\ value[n] \in DOMAIN ast
       /\ Items(tree[n].parts) \subseteq DOMAIN value
  /\ diags \subseteq DOMAIN tree

TodoInv == TodoOK(todo, DOMAIN value)

BuildInv ==
  /\ tree \in Trees
  /\ TodoInv
  /\ NodesInv
  /\ build \in {"visiting", "built", "crashed"}
  /\ build = "built" => Root \in DOMAIN value
  /\ build = "crashed" => Incomplete

LEMMA TodoStays ==
  ASSUME tree' = tree, NEW w, NEW e, TodoOK(w, e), todo' = w, DOMAIN value' = e
  PROVE  TodoInv'
BY DEF TodoInv, TodoOK, StepOK, IsReady, Incomplete, Kids

LEMMA SeqInside ==
  ASSUME NEW A, NEW B, A \subseteq B, NEW s \in Seq(A)
  PROVE  s \in Seq(B)
OBVIOUS

LEMMA SynNodeType ==
  ASSUME tree \in Trees, NEW m \in Nat, NEW x \in SynNode(m)
  PROVE  /\ x \in AnyNode
         /\ Items(x.parts) \subseteq 1..m
         /\ x.kind \in Kind /\ x.of \in DOMAIN tree
<1>1. x.parts \in Seq(Seq(1..m)) /\ x.kind \in Kind /\ x.of \in DOMAIN tree
      /\ x = [kind |-> x.kind, of |-> x.of, parts |-> x.parts]
  BY DEF SynNode
<1>2. PICK s : s = x.parts
  OBVIOUS
<1>3. \A p \in DOMAIN s : s[p] \in Seq(1..m)
  BY <1>1, <1>2
<1>4. \A p \in DOMAIN s : s[p] \in Seq(Nat)
  <2>1. 1..m \subseteq Nat
    OBVIOUS
  <2> QED BY <1>3, <2>1, SeqInside
<1>5. s \in Seq(Seq(Nat))
  BY <1>1, <1>2, <1>4
<1>6. x.of \in Nat
  BY <1>1, KidsOf
<1>7. x \in AnyNode
  BY <1>1, <1>2, <1>5, <1>6 DEF AnyNode
<1>8. \A p \in DOMAIN s : ToSet(s[p]) \subseteq 1..m
  <2> TAKE p \in DOMAIN s
  <2>1. \A k \in DOMAIN s[p] : s[p][k] \in 1..m
    BY <1>3
  <2> QED BY <2>1 DEF ToSet
<1>9. Items(s) \subseteq 1..m
  BY <1>8 DEF Items
<1> QED BY <1>1, <1>2, <1>7, <1>9

\* The values of children that are done.
LEMMA ValuesType ==
  ASSUME NodesInv, NEW part \in Seq(Nat), ToSet(part) \subseteq DOMAIN value
  PROVE  /\ Values(part) \in Seq(1..Len(ast)) /\ Len(Values(part)) = Len(part)
         /\ Len(ast) \in Nat
<1>1. DOMAIN ast = 1..Len(ast) /\ Len(ast) \in Nat
  BY DEF NodesInv
<1>2. \A k \in DOMAIN part : value[part[k]] \in 1..Len(ast)
  <2> TAKE k \in DOMAIN part
  <2>1. part[k] \in DOMAIN value
    BY DEF ToSet
  <2> QED BY <1>1, <2>1 DEF NodesInv
<1>3. PICK v : v = [k \in DOMAIN part |-> value[part[k]]]
  OBVIOUS
<1>4. v = [k \in DOMAIN part |-> v[k]] /\ \A k \in DOMAIN part : v[k] \in 1..Len(ast)
  BY <1>2, <1>3
<1>5. v \in Seq(1..Len(ast)) /\ Len(v) = Len(part)
  BY <1>4, MapType
<1> QED BY <1>1, <1>3, <1>5 DEF Values

\* A node is made when the values of its children are there.
LEMMA ChildrenDone ==
  ASSUME BuildInv, At("make")
  PROVE  /\ Here \in DOMAIN tree /\ todo # <<>> /\ todo \in Seq(Step)
         /\ Items(tree[Here].parts) \subseteq DOMAIN value
<1>1. todo # <<>> /\ todo \in Seq(Step) /\ Head(todo).op = "make"
  BY DEF BuildInv, TodoInv, TodoOK, At
<1>2. 1 \in DOMAIN todo /\ Head(todo) = todo[1] /\ \A j \in DOMAIN todo : ~(j < 1)
  BY <1>1
<1>3. StepOK(todo, DOMAIN value, 1)
  BY <1>2 DEF BuildInv, TodoInv, TodoOK
<1>4. Here \in DOMAIN tree /\ \A k \in Items(tree[Here].parts) : IsReady(todo, DOMAIN value, k, 1)
  BY <1>1, <1>2, <1>3 DEF StepOK, Here
<1>5. \A k \in Items(tree[Here].parts) : k \in DOMAIN value
  BY <1>2, <1>4 DEF IsReady
<1> QED BY <1>1, <1>4, <1>5

\* What every method does: create some nodes and return a value.
LEMMA Returned ==
  ASSUME BuildInv, NEW v, NEW nodes, Returns(v, nodes), nodes \in Seq(AnyNode),
         \A j \in DOMAIN nodes : nodes[j] \in SynNode(Len(ast) + j - 1),
         v \in 1..(Len(ast) + Len(nodes))
  PROVE  BuildInv'
<1>1. /\ At("make") /\ tree' = tree /\ diags' = diags /\ todo' = Tail(todo) /\ ast' = ast \o nodes
      /\ value' = [n \in DOMAIN value \union {Here} |-> IF n = Here THEN v ELSE value[n]]
      /\ build' = IF Here = Root THEN "built" ELSE build
  BY DEF Returns
<1>2. PICK h : h = Here
  OBVIOUS
<1>3. /\ h \in DOMAIN tree /\ todo # <<>> /\ todo \in Seq(Step) /\ h = Head(todo).node
      /\ Items(tree[h].parts) \subseteq DOMAIN value
  BY <1>1, <1>2, ChildrenDone DEF Here
<1>4. DOMAIN value' = DOMAIN value \union {h} /\ value'[h] = v
      /\ \A n \in DOMAIN value : n # h => value'[n] = value[n]
  BY <1>1, <1>2
<1>5. PICK a, m, c : a = ast /\ m = Len(a) /\ c = Len(nodes)
  OBVIOUS
<1>6. /\ a \in Seq(AnyNode) /\ DOMAIN a = 1..m /\ m \in Nat /\ c \in Nat /\ DOMAIN nodes = 1..c
      /\ v \in 1..(m + c)
  BY <1>5 DEF BuildInv, NodesInv
<1>7. PICK b : b = a \o nodes
  OBVIOUS
<1>8. /\ b \in Seq(AnyNode) /\ DOMAIN b = 1..(m + c)
      /\ \A q \in 1..m : b[q] = a[q]
      /\ \A q \in 1..c : b[m + q] = nodes[q]
  BY <1>5, <1>6, <1>7, Joined
<1>9. ast' = b
  BY <1>1, <1>5, <1>7
<1>10. ASSUME NEW x \in DOMAIN b PROVE b[x] \in SynNode(x - 1)
  <2>1. CASE x \in 1..m
    BY <1>5, <1>6, <1>8, <2>1 DEF BuildInv, NodesInv
  <2>2. CASE x \notin 1..m
    <3>1. x - m \in 1..c /\ m + (x - m) = x /\ m + (x - m) - 1 = x - 1
      BY <1>6, <1>8, <2>2
    <3>2. b[x] = nodes[x - m] /\ nodes[x - m] \in SynNode(m + (x - m) - 1)
      BY <1>5, <1>6, <1>8, <3>1
    <3> QED BY <3>1, <3>2
  <2> QED BY <2>1, <2>2
<1>11. \A x \in DOMAIN ast' : ast'[x] \in SynNode(x - 1)'
  BY <1>1, <1>9, <1>10 DEF SynNode
<1>12. 1..m \subseteq 1..(m + c)
  BY <1>6
<1>13. ASSUME NEW n \in DOMAIN value'
       PROVE  n \in DOMAIN tree' /\ value'[n] \in DOMAIN ast' /\ Items(tree'[n].parts) \subseteq DOMAIN value'
  <2>1. CASE n = h
    BY <1>1, <1>3, <1>4, <1>6, <1>8, <1>9, <2>1
  <2>2. CASE n # h
    <3>1. n \in DOMAIN value /\ value'[n] = value[n]
      BY <1>4, <2>2
    <3>2. n \in DOMAIN tree /\ value[n] \in 1..m /\ Items(tree[n].parts) \subseteq DOMAIN value
      BY <1>5, <1>6, <3>1 DEF BuildInv, NodesInv
    <3> QED BY <1>1, <1>4, <1>8, <1>9, <1>12, <3>1, <3>2
  <2> QED BY <2>1, <2>2
<1>14. NodesInv'
  <2>1. diags' \subseteq DOMAIN tree'
    BY <1>1 DEF BuildInv, NodesInv
  <2> QED BY <1>8, <1>9, <1>11, <1>13, <2>1 DEF NodesInv
<1>15. TodoInv'
  <2>1. PICK u, d, w, e : u = todo /\ d = DOMAIN value /\ w = Tail(u) /\ e = d \union {h}
    OBVIOUS
  <2>2. TodoOK(u, d) /\ u # <<>> /\ d \subseteq e /\ Head(u).node \in e
    BY <1>3, <2>1 DEF BuildInv, TodoInv
  <2>3. TodoOK(w, e)
    BY <2>1, <2>2, Popped
  <2>4. todo' = w /\ DOMAIN value' = e
    BY <1>1, <1>4, <2>1
  <2> QED BY <1>1, <2>3, <2>4, TodoStays
<1>16. build = "visiting" /\ build' \in {"visiting", "built"} /\ (build' = "built" => Root \in DOMAIN value')
  BY <1>1, <1>2, <1>4 DEF At
<1> QED BY <1>1, <1>14, <1>15, <1>16 DEF BuildInv

LEMMA BuildInit == BInit => BuildInv
<1> SUFFICES ASSUME BInit PROVE BuildInv
  OBVIOUS
<1>1. /\ tree \in Trees /\ todo = <<Visit(Root)>> /\ DOMAIN value = {} /\ ast = <<>> /\ diags = {}
      /\ build = "visiting"
  BY DEF BInit
<1>2. tree \in Seq(ParseNode) /\ tree # <<>>
  BY <1>1, TreeAssumption
<1>3. Root \in DOMAIN tree /\ Root \in Nat
  BY <1>2 DEF Root
<1>4. Visit(Root) \in Step /\ Visit(Root).op = "visit" /\ Visit(Root).node = Root
  BY <1>3, StepType
<1>5. todo \in Seq(Step) /\ DOMAIN todo = {1} /\ todo[1] = Visit(Root)
  <2>1. todo \in Seq(Step) /\ Len(todo) = 1 /\ todo[1] = Visit(Root)
    BY <1>1, <1>4
  <2>2. DOMAIN todo = 1..1 /\ 1..1 = {1}
    BY <2>1
  <2> QED BY <2>1, <2>2
<1>6. TodoInv
  BY <1>3, <1>4, <1>5 DEF TodoInv, TodoOK, StepOK
<1>7. ast \in Seq(AnyNode) /\ DOMAIN ast = {}
  BY <1>1
<1>8. NodesInv
  BY <1>1, <1>7 DEF NodesInv
<1> QED BY <1>1, <1>6, <1>8 DEF BuildInv

\* The steps that make no node leave those that there are.
LEMMA NodesStay ==
  ASSUME BuildInv, tree' = tree, value' = value, ast' = ast, diags' \subseteq DOMAIN tree
  PROVE  NodesInv'
BY DEF BuildInv, NodesInv, SynNode

LEMMA VisitStep ==
  ASSUME BuildInv, VisitNode \/ VisitNull \/ KeepField \/ DropField
  PROVE  BuildInv'
<1>1. PICK u, d, n : u = todo /\ d = DOMAIN value /\ n = Head(u).node
  OBVIOUS
<1>2. TodoOK(u, d) /\ tree \in Trees /\ NodesInv
  BY <1>1 DEF BuildInv, TodoInv
<1>3. At("visit") \/ At("field")
  BY DEF VisitNode, VisitNull, KeepField, DropField
<1>4. u # <<>> /\ build = "visiting" /\ n = Here
  BY <1>1, <1>3 DEF At, Here
<1>5. u \in Seq(Step) /\ 1 \in DOMAIN u /\ Head(u) = u[1] /\ StepOK(u, d, 1)
  <2>1. u \in Seq(Step)
    BY <1>2 DEF TodoOK
  <2>2. 1 \in DOMAIN u /\ Head(u) = u[1]
    BY <1>4, <2>1
  <2> QED BY <1>2, <2>1, <2>2 DEF TodoOK
<1>6. ASSUME VisitNode PROVE BuildInv'
  <2>1. /\ Head(u).op = "visit" /\ n # Null /\ todo' = Steps(n) \o Tail(u)
        /\ UNCHANGED <<tree, value, ast, diags, build>>
    BY <1>1, <1>4, <1>6 DEF VisitNode, At
  <2>2. n \in DOMAIN tree
    BY <1>1, <1>5, <2>1 DEF StepOK
  <2>3. PICK w : w = Steps(n) \o Tail(u)
    OBVIOUS
  <2>4. TodoOK(w, d)
    BY <1>1, <1>2, <1>4, <2>1, <2>2, <2>3, Expanded
  <2>5. todo' = w /\ DOMAIN value' = d /\ tree' = tree
    BY <1>1, <2>1, <2>3
  <2>6. TodoInv'
    BY <2>4, <2>5, TodoStays
  <2>7. NodesInv'
    BY <1>2, <2>1, NodesStay DEF NodesInv
  <2> QED BY <1>4, <2>1, <2>6, <2>7 DEF BuildInv
<1>7. ASSUME VisitNull PROVE BuildInv'
  <2>1. /\ Head(u).op = "visit" /\ n = Null /\ build' = "crashed"
        /\ UNCHANGED <<tree, todo, value, ast, diags>>
    BY <1>1, <1>4, <1>7 DEF VisitNull, At
  <2>2. Null \notin DOMAIN tree
    <3>1. tree \in Seq(ParseNode)
      BY <1>2, TreeAssumption
    <3> QED BY <3>1 DEF Null
  <2>3. Incomplete
    BY <1>1, <1>5, <2>1, <2>2 DEF StepOK
  <2>4. TodoInv' /\ Incomplete'
    BY <1>1, <1>2, <2>1, <2>3, TodoStays DEF Incomplete
  <2>5. NodesInv'
    BY <1>2, <2>1, NodesStay DEF NodesInv
  <2> QED BY <2>1, <2>4, <2>5 DEF BuildInv
<1>8. ASSUME KeepField \/ DropField PROVE BuildInv'
  <2>1. /\ Head(u).op = "field" /\ todo' = Tail(u) /\ UNCHANGED <<tree, value, ast, build>>
        /\ diags' = diags \/ diags' = diags \union {Kids(n)[Head(u).field]}
    BY <1>1, <1>4, <1>8 DEF KeepField, DropField, At
  <2>2. PICK w : w = Tail(u)
    OBVIOUS
  <2>3. TodoOK(w, d)
    BY <1>2, <1>4, <2>1, <2>2, Popped
  <2>4. TodoInv'
    BY <1>1, <2>1, <2>2, <2>3, TodoStays
  <2>5. \A j \in DOMAIN u : ~(j < 1)
    BY <1>5
  <2>6. Kids(n)[Head(u).field] \in d
    BY <1>1, <1>5, <2>1, <2>5 DEF StepOK, IsReady
  <2>7. diags' \subseteq DOMAIN tree
    BY <1>1, <1>2, <2>1, <2>6 DEF NodesInv
  <2>8. NodesInv'
    BY <2>1, <2>7, NodesStay
  <2> QED BY <1>4, <2>1, <2>4, <2>8 DEF BuildInv
<1> QED BY <1>6, <1>7, <1>8

\* What the nodes are that a method creates, and the value v that it returns.
\* Only the root has the kind of a program.
IsMade(v, nodes) ==
  /\ Returns(v, nodes)
  /\ nodes \in Seq(AnyNode)
  /\ \A j \in DOMAIN nodes : nodes[j] \in SynNode(Len(ast) + j - 1)
  /\ v \in 1..(Len(ast) + Len(nodes))
  /\ Here # Root => \A j \in DOMAIN nodes : nodes[j].kind # "Program"
  /\ Here = Root => v = Len(ast) + 1 /\ Len(nodes) = 1 /\ nodes[1].kind = "Program"

\* f is a function as StandsFor is one.
IsStanding(f) ==
  \A n \in DOMAIN tree : f[n] = IF tree[n].kind = "For" THEN f[tree[n].parts[2][1]] ELSE n

\* Among the syntax nodes b, the a-th is a block made around a statement, or it
\* has the kind and the parts of the parse node that it was made for.
Fits(b, a, f) ==
  LET node  == b[a]
      parts == tree[node.of].parts
  IN  \/ node.kind = "Block" /\ tree[node.of].kind # "Block"
      \/ /\ node.kind = tree[node.of].kind
         /\ node.kind # "Object" =>
              /\ Len(node.parts) = Len(parts)
              /\ \A p \in DOMAIN node.parts :
                   /\ Len(node.parts[p]) = Len(parts[p])
                   /\ \A k \in DOMAIN node.parts[p] : b[node.parts[p][k]].of = f[parts[p][k]]
         /\ node.kind = "If" =>
              \A p \in DOMAIN node.parts : p # 1 =>
                \A k \in DOMAIN node.parts[p] : b[node.parts[p][k]].kind = "Block"

\* What a tree that f is for has to show.
Shapes(f) ==
  /\ \A n \in DOMAIN value : ast[value[n]].of = f[n]
  /\ \A a \in DOMAIN ast : Fits(ast, a, f)

ShapeInv == \A f : IsStanding(f) => Shapes(f)

\* What a method has to show, when it creates the given nodes and returns v.
IsShaped(v, nodes) ==
  \A f, b : IsStanding(f) /\ Shapes(f) /\ b = ast \o nodes =>
    /\ b[v].of = f[Here]
    /\ \A j \in DOMAIN nodes : Fits(b, Len(ast) + j, f)

\* The values of the fields that an object literal keeps.
KeptValues(n) == {value[Kids(n)[k]] : k \in {j \in DOMAIN Kids(n) : ~IsRepeated(n, j)}}

\* The i-th node of the only part is the value of field order[i] of n.
IsInOrder(parts, n, order) ==
  /\ DOMAIN parts = {1} /\ DOMAIN parts[1] = DOMAIN order
  /\ \A k \in DOMAIN order : order[k] \in DOMAIN Kids(n) /\ parts[1][k] = value[Kids(n)[order[k]]]
  /\ \A i, j \in DOMAIN order : order[i] = order[j] => i = j

\* x is the block around the statement b.
Around(x, b) == x.of = ast[b].of /\ x.parts = <<<<b>>>>

\* What else is known of these nodes: the last one is the method's own, which it
\* returns, and any others are blocks around values.  The method for a loop has
\* no node and returns a value.
IsOwn(x) ==
  /\ x.of = Here /\ x.kind = tree[Here].kind /\ x.kind # "For"
  /\ x.kind = "Object" => Items(x.parts) = KeptValues(Here) /\ \E order : IsInOrder(x.parts, Here, order)

IsGrown(v, nodes) ==
  \/ nodes = <<>> /\ \E k \in DOMAIN value : v = value[k]
  \/ /\ Len(nodes) # 0 /\ v = Len(ast) + Len(nodes) /\ IsOwn(nodes[Len(nodes)])
     /\ \A j \in DOMAIN nodes : j # Len(nodes) =>
          /\ nodes[j].kind = "Block"
          /\ \E k \in DOMAIN value : ast[value[k]].kind # "Block" /\ Around(nodes[j], value[k])

LEMMA SeqParts ==
  ASSUME NEW X, NEW s \in Seq(X)
  PROVE  Len(s) \in Nat /\ DOMAIN s = 1..Len(s) /\ \A k \in 1..Len(s) : s[k] \in X
OBVIOUS

LEMMA OneMore ==
  ASSUME NEW X, NEW a \in Seq(X), NEW x \in X, NEW b, b = a \o <<x>>
  PROVE  b[Len(a) + 1] = x /\ \A q \in DOMAIN a : b[q] = a[q]
OBVIOUS

\* The values of children are nodes that were made for what stands for these.
LEMMA ValuesShape ==
  ASSUME NodesInv, NEW part \in Seq(Nat), ToSet(part) \subseteq DOMAIN value,
         NEW f, Shapes(f), NEW b, \A q \in DOMAIN ast : b[q] = ast[q],
         NEW s, s = Values(part)
  PROVE  /\ Len(s) = Len(part) /\ DOMAIN s = DOMAIN part
         /\ \A k \in DOMAIN s : s[k] \in DOMAIN ast /\ b[s[k]].of = f[part[k]]
<1>1. Len(s) = Len(part) /\ DOMAIN s = DOMAIN part
  <2>1. s \in Seq(1..Len(ast)) /\ Len(s) = Len(part)
    BY ValuesType
  <2> QED BY <2>1
<1>2. ASSUME NEW k \in DOMAIN part PROVE s[k] \in DOMAIN ast /\ b[s[k]].of = f[part[k]]
  <2>1. part[k] \in DOMAIN value
    BY DEF ToSet
  <2>2. s[k] = value[part[k]]
    BY DEF Values
  <2> QED BY <2>1, <2>2 DEF NodesInv, Shapes
<1> QED BY <1>1, <1>2

LEMMA OnlyRootIsProgram ==
  ASSUME tree \in Trees, NEW n \in DOMAIN tree
  PROVE  tree[n].kind = "Program" <=> n = Root
BY TreeAssumption

\* A node with a list of children for each part.
LEMMA NodeType ==
  ASSUME NEW k \in Kind, NEW n \in DOMAIN tree, NEW m \in Nat, NEW parts \in Seq(Seq(1..m))
  PROVE  Node(k, n, parts) \in SynNode(m) /\ Node(k, n, parts).kind = k
BY DEF Node, SynNode

LEMMA MakeNodeStep ==
  ASSUME BuildInv, MakeNode
  PROVE  \E v, nodes : IsMade(v, nodes) /\ IsShaped(v, nodes) /\ IsGrown(v, nodes)
<1>1. PICK n, parts, m : n = Here /\ parts = tree[n].parts /\ m = Len(ast)
  OBVIOUS
<1>2. At("make") /\ tree \in Trees /\ NodesInv
  BY DEF MakeNode, BuildInv
<1>3. n \in DOMAIN tree /\ Items(parts) \subseteq DOMAIN value
  BY <1>1, <1>2, ChildrenDone
<1>4. tree[n].kind \in Kind /\ parts \in Seq(Seq(Nat)) /\ m \in Nat
  BY <1>1, <1>2, <1>3, KidsOf DEF ParseNode, NodesInv
<1>5. ASSUME NEW p \in DOMAIN parts PROVE Values(parts[p]) \in Seq(1..m)
  <2>1. parts[p] \in Seq(Nat) /\ ToSet(parts[p]) \subseteq DOMAIN value
    BY <1>3, <1>4 DEF Items
  <2> QED BY <1>1, <1>2, <2>1, ValuesType
<1>6. PICK s : s = [p \in DOMAIN parts |-> Values(parts[p])]
  OBVIOUS
<1>7. s \in Seq(Seq(1..m))
  <2>1. s = [p \in DOMAIN parts |-> s[p]] /\ \A p \in DOMAIN parts : s[p] \in Seq(1..m)
    BY <1>5, <1>6
  <2> QED BY <1>4, <2>1, MapType
<1>8. PICK x : x = Node(tree[n].kind, n, s)
  OBVIOUS
<1>9. x \in SynNode(m)
  BY <1>3, <1>4, <1>7, <1>8, NodeType
<1>10. x \in AnyNode
  BY <1>2, <1>4, <1>9, SynNodeType
<1>11. PICK nodes : nodes = <<x>>
  OBVIOUS
<1>12. Returns(m + 1, nodes)
  BY <1>1, <1>6, <1>8, <1>11 DEF MakeNode, NewId
<1>13. nodes \in Seq(AnyNode) /\ Len(nodes) = 1 /\ nodes[1] = x
  BY <1>10, <1>11
<1>14. \A j \in DOMAIN nodes : j = 1 /\ m + j - 1 = m
  BY <1>4, <1>13
<1>15. \A j \in DOMAIN nodes : nodes[j] \in SynNode(m + j - 1)
  BY <1>9, <1>13, <1>14
<1>16. m + 1 \in 1..(m + Len(nodes))
  BY <1>4, <1>13
<1>17. Here # Root => nodes[1].kind # "Program"
  BY <1>1, <1>2, <1>3, <1>4, <1>7, <1>8, <1>13, OnlyRootIsProgram, NodeType
<1>18. Here = Root => nodes[1].kind = "Program"
  BY <1>1, <1>2, <1>3, <1>4, <1>7, <1>8, <1>13, OnlyRootIsProgram, NodeType
<1>19. IsMade(m + 1, nodes)
  BY <1>1, <1>12, <1>13, <1>14, <1>15, <1>16, <1>17, <1>18 DEF IsMade
<1>20. ASSUME NEW f, IsStanding(f), Shapes(f), NEW b, b = ast \o nodes
       PROVE  b[m + 1].of = f[n] /\ Fits(b, m + 1, f)
  <2>1. b[m + 1] = x /\ \A q \in DOMAIN ast : b[q] = ast[q]
    <3>1. ast \in Seq(AnyNode)
      BY <1>2 DEF NodesInv
    <3> QED BY <1>1, <1>10, <1>11, <1>20, <3>1, OneMore
  <2>2. tree[n].kind \notin {"For", "If", "Object"}
    BY <1>1 DEF MakeNode
  <2>3. x.of = n /\ x.kind = tree[n].kind /\ x.parts = s
    BY <1>8 DEF Node
  <2>4. f[n] = n
    BY <1>3, <1>20, <2>2 DEF IsStanding
  <2>5. Len(s) = Len(parts) /\ DOMAIN s = DOMAIN parts
    BY <1>4, <1>6
  <2>6. ASSUME NEW p \in DOMAIN s
        PROVE  /\ Len(s[p]) = Len(parts[p])
               /\ \A k \in DOMAIN s[p] : b[s[p][k]].of = f[parts[p][k]]
    <3>1. parts[p] \in Seq(Nat) /\ ToSet(parts[p]) \subseteq DOMAIN value
      BY <1>3, <1>4, <2>5 DEF Items
    <3>2. s[p] = Values(parts[p])
      BY <1>6, <2>5
    <3> QED BY <1>2, <1>20, <2>1, <3>1, <3>2, ValuesShape
  <2>7. Fits(b, m + 1, f)
    BY <1>1, <2>1, <2>2, <2>3, <2>5, <2>6 DEF Fits
  <2> QED BY <2>1, <2>3, <2>4, <2>7
<1>21. IsShaped(m + 1, nodes)
  BY <1>1, <1>14, <1>20 DEF IsShaped
<1>22. IsOwn(x)
  <2>1. x.of = n /\ x.kind = tree[n].kind /\ tree[n].kind \notin {"For", "If", "Object"}
    BY <1>1, <1>8 DEF Node, MakeNode
  <2> QED BY <1>1, <2>1 DEF IsOwn
<1>23. IsGrown(m + 1, nodes)
  BY <1>1, <1>13, <1>14, <1>22 DEF IsGrown
<1> QED BY <1>19, <1>21, <1>23

LEMMA MakeForStep ==
  ASSUME BuildInv, MakeFor
  PROVE  \E v, nodes : IsMade(v, nodes) /\ IsShaped(v, nodes) /\ IsGrown(v, nodes)
<1>1. PICK n, parts, m : n = Here /\ parts = tree[n].parts /\ m = Len(ast)
  OBVIOUS
<1>2. At("make") /\ tree \in Trees /\ NodesInv /\ tree[n].kind = "For"
  BY <1>1 DEF MakeFor, BuildInv
<1>3. n \in DOMAIN tree /\ Items(parts) \subseteq DOMAIN value
  BY <1>1, <1>2, ChildrenDone
<1>4. HasParts(tree[n]) /\ parts \in Seq(Seq(Nat)) /\ m \in Nat /\ DOMAIN ast = 1..m
  BY <1>1, <1>2, <1>3, KidsOf DEF ParseNode, NodesInv
<1>5. Len(parts) = 2 /\ Len(parts[2]) = 1
  BY <1>1, <1>2, <1>4 DEF HasParts
<1>6. 2 \in DOMAIN parts /\ 1 \in DOMAIN parts[2]
  BY <1>4, <1>5
<1>7. parts[2][1] \in DOMAIN value
  BY <1>3, <1>6 DEF Items, ToSet
<1>8. PICK v, nodes : v = value[parts[2][1]] /\ nodes = <<>>
  OBVIOUS
<1>9. v \in 1..m
  BY <1>2, <1>4, <1>7, <1>8 DEF NodesInv
<1>10. Returns(v, nodes)
  BY <1>1, <1>8 DEF MakeFor
<1>11. nodes \in Seq(AnyNode) /\ Len(nodes) = 0 /\ DOMAIN nodes = {} /\ v \in 1..(m + 0)
  BY <1>4, <1>8, <1>9
<1>12. n # Root
  BY <1>2, <1>3, OnlyRootIsProgram
<1>13. IsMade(v, nodes)
  BY <1>1, <1>10, <1>11, <1>12 DEF IsMade
<1>14. ASSUME NEW f, IsStanding(f), Shapes(f), NEW b, b = ast \o nodes
       PROVE  b[v].of = f[n]
  <2>1. b = ast
    <3>1. ast \in Seq(AnyNode)
      BY <1>2 DEF NodesInv
    <3> QED BY <1>8, <1>14, <3>1
  <2>2. f[n] = f[parts[2][1]]
    BY <1>1, <1>2, <1>3, <1>14 DEF IsStanding
  <2> QED BY <1>7, <1>8, <1>14, <2>1, <2>2 DEF Shapes
<1>15. IsShaped(v, nodes)
  BY <1>1, <1>11, <1>14 DEF IsShaped
<1>16. IsGrown(v, nodes)
  BY <1>7, <1>8 DEF IsGrown
<1> QED BY <1>13, <1>15, <1>16

\* The kept fields, in the order of the table, are children of the node.
LEMMA MakeObjectStep ==
  ASSUME BuildInv, MakeObject
  PROVE  \E v, nodes : IsMade(v, nodes) /\ IsShaped(v, nodes) /\ IsGrown(v, nodes)
<1>1. PICK n, c, m : n = Here /\ c = Kids(n) /\ m = Len(ast)
  OBVIOUS
<1>2. At("make") /\ tree \in Trees /\ NodesInv
  BY DEF MakeObject, BuildInv
<1>3. n \in DOMAIN tree /\ Items(tree[n].parts) \subseteq DOMAIN value
  BY <1>1, <1>2, ChildrenDone
<1>4. /\ c \in Seq(Nat) /\ \A i \in DOMAIN c : c[i] \in DOMAIN value
      /\ m \in Nat /\ DOMAIN ast = 1..m
  <2>1. c \in Seq(Nat) /\ \A k : (\E i \in DOMAIN c : c[i] = k) <=> k \in Items(tree[n].parts)
    BY <1>1, <1>2, <1>3, KidsOf
  <2>2. m \in Nat /\ DOMAIN ast = 1..m
    BY <1>1, <1>2 DEF NodesInv
  <2> QED BY <1>3, <2>1, <2>2
<1>5. PICK S : S = {k \in DOMAIN c : ~IsRepeated(n, k)}
  OBVIOUS
<1>6. PICK order \in SetToSeqs(S) :
        Returns(NewId, <<Node("Object", n, <<[k \in DOMAIN order |-> value[c[order[k]]]]>>)>>)
  BY <1>1, <1>5 DEF MakeObject
<1>7. Cardinality(S) \in Nat
  <2>1. DOMAIN c = 1..Len(c) /\ Len(c) \in Nat
    BY <1>4
  <2>2. IsFiniteSet(DOMAIN c)
    BY <2>1, FS_Interval
  <2> QED BY <1>5, <2>2, FS_Subset, FS_CardinalityType
<1>8. PICK q : q = Cardinality(S)
  OBVIOUS
<1>9. order \in [1..q -> S] /\ q \in Nat
  BY <1>7, <1>8 DEF SetToSeqs
<1>10. order \in Seq(S)
  BY <1>9
<1>11. PICK f : f = [k \in DOMAIN order |-> value[c[order[k]]]]
  OBVIOUS
<1>12. \A k \in DOMAIN order : f[k] \in 1..m
  BY <1>2, <1>4, <1>5, <1>9, <1>11 DEF NodesInv
<1>13. f \in Seq(1..m)
  <2>1. f = [k \in DOMAIN order |-> f[k]]
    BY <1>11
  <2> QED BY <1>10, <1>12, <2>1, MapType
<1>14. PICK parts : parts = <<f>>
  OBVIOUS
<1>15. parts \in Seq(Seq(1..m))
  BY <1>13, <1>14
<1>16. PICK x : x = Node("Object", n, parts)
  OBVIOUS
<1>17. "Object" \in Kind
  BY DEF Kind
<1>18. x \in SynNode(m) /\ x \in AnyNode
  BY <1>2, <1>3, <1>4, <1>15, <1>16, <1>17, NodeType, SynNodeType
<1>19. PICK nodes : nodes = <<x>>
  OBVIOUS
<1>20. Returns(m + 1, nodes)
  BY <1>1, <1>6, <1>11, <1>14, <1>16, <1>19 DEF NewId
<1>21. nodes \in Seq(AnyNode) /\ Len(nodes) = 1 /\ nodes[1] = x
  BY <1>18, <1>19
<1>22. \A j \in DOMAIN nodes : j = 1 /\ m + j - 1 = m
  BY <1>4, <1>21
<1>23. \A j \in DOMAIN nodes : nodes[j] \in SynNode(m + j - 1)
  BY <1>18, <1>21, <1>22
<1>24. m + 1 \in 1..(m + Len(nodes))
  BY <1>4, <1>21
<1>25. n # Root
  BY <1>1, <1>2, <1>3, OnlyRootIsProgram DEF MakeObject
<1>26. nodes[1].kind # "Program"
  BY <1>3, <1>4, <1>15, <1>16, <1>17, <1>21, NodeType
<1>27. IsMade(m + 1, nodes)
  BY <1>1, <1>20, <1>21, <1>22, <1>23, <1>24, <1>25, <1>26 DEF IsMade
<1>28. ASSUME NEW g, IsStanding(g), Shapes(g), NEW b, b = ast \o nodes
       PROVE  b[m + 1].of = g[n] /\ Fits(b, m + 1, g)
  <2>1. b[m + 1] = x
    <3>1. ast \in Seq(AnyNode)
      BY <1>2 DEF NodesInv
    <3> QED BY <1>1, <1>18, <1>19, <1>28, <3>1, OneMore
  <2>2. x.of = n /\ x.kind = "Object" /\ tree[n].kind = "Object"
    BY <1>1, <1>16 DEF Node, MakeObject
  <2>3. g[n] = n
    BY <1>3, <1>28, <2>2 DEF IsStanding
  <2> QED BY <2>1, <2>2, <2>3 DEF Fits
<1>29. IsShaped(m + 1, nodes)
  BY <1>1, <1>22, <1>28 DEF IsShaped
<1>30. Items(parts) = KeptValues(n)
  <2>1. ToSet(order) = S
    <3>1. IsFiniteSet(S)
      <4>1. DOMAIN c = 1..Len(c) /\ Len(c) \in Nat
        BY <1>4
      <4>2. IsFiniteSet(DOMAIN c)
        BY <4>1, FS_Interval
      <4>3. S \subseteq DOMAIN c
        BY <1>5
      <4> QED BY <4>2, <4>3, FS_Subset
    <3>2. \A i, j \in 1..q : i # j => order[i] # order[j]
      BY <1>6, <1>8 DEF SetToSeqs
    <3>3. IsFiniteSet(1..q) /\ Cardinality(1..q) = q
      BY <1>9, FS_Interval
    <3>4. ASSUME NEW t \in S, t \notin ToSet(order) PROVE FALSE
      <4>1. IsFiniteSet(S \ {t}) /\ Cardinality(S \ {t}) = q - 1
        BY <1>8, <3>1, FS_RemoveElement
      <4>2. order \in [1..q -> S \ {t}]
        BY <1>9, <3>4 DEF ToSet
      <4>3. Cardinality(S \ {t}) < Cardinality(1..q)
        BY <1>9, <3>3, <4>1
      <4>4. \E i, j \in 1..q : i # j /\ order[i] = order[j]
        BY <3>3, <4>1, <4>2, <4>3, FS_PigeonHole
      <4> QED BY <3>2, <4>4
    <3> QED BY <1>9, <3>4 DEF ToSet
  <2>2. Items(parts) = ToSet(f)
    <3>1. DOMAIN parts = {1} /\ parts[1] = f
      BY <1>14
    <3> QED BY <3>1 DEF Items
  <2>3. ToSet(f) = {value[c[k]] : k \in ToSet(order)}
    BY <1>11 DEF ToSet
  <2> QED BY <1>1, <1>5, <2>1, <2>2, <2>3 DEF KeptValues
<1>31. IsInOrder(parts, n, order)
  <2>1. DOMAIN parts = {1} /\ parts[1] = f
    BY <1>14
  <2>2. DOMAIN order = 1..q /\ \A k \in DOMAIN order : order[k] \in DOMAIN c
    BY <1>5, <1>9
  <2>3. \A i, j \in 1..q : i # j => order[i] # order[j]
    BY <1>6, <1>8 DEF SetToSeqs
  <2>4. \A i, j \in DOMAIN order : order[i] = order[j] => i = j
    BY <2>2, <2>3
  <2> QED BY <1>1, <1>11, <2>1, <2>2, <2>4 DEF IsInOrder
<1>32. IsOwn(x)
  <2>1. x.of = n /\ x.kind = "Object" /\ tree[n].kind = "Object" /\ x.parts = parts
    BY <1>1, <1>16 DEF Node, MakeObject
  <2> QED BY <1>1, <1>30, <1>31, <2>1 DEF IsOwn
<1>33. IsGrown(m + 1, nodes)
  BY <1>1, <1>21, <1>22, <1>32 DEF IsGrown
<1> QED BY <1>27, <1>29, <1>33

LEMMA FlattenOne ==
  ASSUME NEW s, Len(s) = 1
  PROVE  FlattenSeq(s) = s[1]
<1>1. PICK n : n \in Nat /\ n = 1 /\ n = Len(s) /\ n # 0
  OBVIOUS
<1>2. PICK f : FlattenSeq(s) = f[n] /\ f[1] = s[1]
  BY <1>1, FlattenStages
<1> QED BY <1>1, <1>2

LEMMA FlattenTwo ==
  ASSUME NEW s, Len(s) = 2
  PROVE  FlattenSeq(s) = s[1] \o s[2]
<1>1. PICK n : n = Len(s)
  OBVIOUS
<1>2. n \in Nat /\ n # 0
  BY <1>1
<1>3. PICK f : /\ FlattenSeq(s) = f[n]
               /\ f[1] = s[1]
               /\ \A i \in 2..n : f[i] = f[i - 1] \o s[i]
  BY ONLY <1>1, <1>2, FlattenStages
<1>4. 2 \in 2..n /\ n = 2 /\ 2 - 1 = 1
  BY <1>1
<1>5. f[2] = f[1] \o s[2]
  BY <1>3, <1>4
<1> QED BY <1>3, <1>4, <1>5

LEMMA SynNodeGrows ==
  ASSUME NEW m \in Nat, NEW l \in Nat, m <= l, NEW x \in SynNode(m)
  PROVE  x \in SynNode(l)
<1>1. 1..m \subseteq 1..l
  OBVIOUS
<1>2. PICK s : s = x.parts
  OBVIOUS
<1>3. s \in Seq(Seq(1..m)) /\ x.kind \in Kind /\ x.of \in DOMAIN tree
      /\ x = [kind |-> x.kind, of |-> x.of, parts |-> s]
  BY <1>2 DEF SynNode
<1>4. ASSUME NEW p \in DOMAIN s PROVE s[p] \in Seq(1..l)
  <2>1. s[p] \in Seq(1..m)
    BY <1>3
  <2> QED BY <1>1, <2>1, SeqInside
<1>5. s \in Seq(Seq(1..l))
  BY <1>3, <1>4
<1> QED BY <1>2, <1>3, <1>5 DEF SynNode

\* The blocks that an `if` makes, for its branches br.
Before(br, k) == FlattenSeq([j \in 1..(k - 1) |-> Promoted(br[j])])

BranchBlock(br, k) ==
  IF Promoted(br[k]) = <<>> THEN br[k] ELSE NewId + Len(Before(br, k))

LEMMA PromotedType ==
  ASSUME BuildInv, NEW m, m = Len(ast), NEW b \in 1..m, NEW p, p = Promoted(b)
  PROVE  /\ p \in Seq(AnyNode) /\ m \in Nat /\ Len(p) \in Nat /\ DOMAIN p = 1..Len(p)
         /\ \A j \in DOMAIN p : p[j] \in SynNode(m) /\ p[j].kind = "Block"
         /\ p # <<>> => Len(p) = 1
         /\ IF ast[b].kind = "Block" THEN p = <<>>
            ELSE Len(p) = 1 /\ \A j \in DOMAIN p : Around(p[j], b)
<1>1. NodesInv /\ tree \in Trees /\ m \in Nat /\ DOMAIN ast = 1..m
  BY DEF BuildInv, NodesInv
<1>2. CASE ast[b].kind = "Block"
  BY <1>1, <1>2 DEF Promoted
<1>3. CASE ast[b].kind # "Block"
  <2>1. ast[b] \in SynNode(b - 1) /\ b - 1 \in Nat
    BY <1>1 DEF NodesInv
  <2>2. ast[b].of \in DOMAIN tree
    BY <1>1, <2>1, SynNodeType
  <2>3. PICK parts : parts = <<<<b>>>>
    OBVIOUS
  <2>4. parts \in Seq(Seq(1..m))
    BY <2>3
  <2>5. "Block" \in Kind
    BY DEF Kind
  <2>6. PICK x : x = Node("Block", ast[b].of, parts)
    OBVIOUS
  <2>7. x \in SynNode(m) /\ x \in AnyNode /\ x.kind = "Block" /\ Around(x, b)
    <3>1. Around(x, b)
      BY <2>3, <2>6 DEF Node, Around
    <3> QED BY <1>1, <2>2, <2>4, <2>5, <2>6, <3>1, NodeType, SynNodeType
  <2>8. p = <<x>>
    BY <1>3, <2>3, <2>6 DEF Promoted
  <2>9. p \in Seq(AnyNode) /\ Len(p) = 1 /\ p[1] = x
    BY <2>7, <2>8
  <2>10. \A j \in DOMAIN p : j = 1
    BY <2>9
  <2> QED BY <1>1, <1>3, <2>7, <2>9, <2>10
<1> QED BY <1>2, <1>3

\* What stands for the k-th branch is the block that it is, or a new block that
\* was made for it; and no block was made for anything else.
BlocksFit(br, blocks) ==
  /\ \A k \in 1..Len(br) :
       IF ast[br[k]].kind = "Block" THEN BranchBlock(br, k) = br[k]
       ELSE \E j \in DOMAIN blocks :
              BranchBlock(br, k) = Len(ast) + j /\ Around(blocks[j], br[k])
  /\ \A j \in DOMAIN blocks :
       \E k \in 1..Len(br) : ast[br[k]].kind # "Block" /\ Around(blocks[j], br[k])

\* The blocks come first, so that the branches are there before the `if`.
LEMMA BlocksType ==
  ASSUME BuildInv, NEW m, m = Len(ast), NEW br \in Seq(1..m), Len(br) \in {1, 2},
         NEW blocks, blocks = Before(br, Len(br) + 1), NEW l, l = Len(blocks)
  PROVE  /\ blocks \in Seq(AnyNode) /\ l \in Nat /\ m \in Nat
         /\ \A j \in DOMAIN blocks : blocks[j] \in SynNode(m) /\ blocks[j].kind = "Block"
         /\ \A k \in 1..Len(br) : BranchBlock(br, k) \in 1..(m + l)
         /\ BlocksFit(br, blocks)
<1>1. m \in Nat
  BY DEF BuildInv, NodesInv
<1>2. ASSUME NEW s, Len(s) = 0, s = <<>> PROVE FlattenSeq(s) = <<>>
  BY <1>2 DEF FlattenSeq
<1>3. Before(br, 1) = <<>>
  <2>1. PICK s : s = [j \in 1..0 |-> Promoted(br[j])]
    OBVIOUS
  <2>2. s = <<>> /\ Len(s) = 0
    BY <2>1
  <2>3. FlattenSeq(s) = <<>>
    BY <1>2, <2>2
  <2> QED BY <2>1, <2>3 DEF Before
<1>4. br[1] \in 1..m
  BY <1>1
<1>5. PICK p : p = Promoted(br[1])
  OBVIOUS
<1>6. /\ p \in Seq(AnyNode) /\ Len(p) \in Nat /\ DOMAIN p = 1..Len(p)
      /\ \A j \in DOMAIN p : p[j] \in SynNode(m) /\ p[j].kind = "Block"
      /\ p # <<>> => Len(p) = 1
      /\ IF ast[br[1]].kind = "Block" THEN p = <<>>
         ELSE Len(p) = 1 /\ \A j \in DOMAIN p : Around(p[j], br[1])
  BY <1>4, <1>5, PromotedType
<1>7. Before(br, 2) = p
  <2>1. PICK s : s = [j \in 1..1 |-> Promoted(br[j])]
    OBVIOUS
  <2>2. Len(s) = 1 /\ s[1] = p
    BY <1>5, <2>1
  <2>3. FlattenSeq(s) = p
    BY <2>2, FlattenOne
  <2> QED BY <2>1, <2>3 DEF Before
<1>8. NewId = m + 1
  BY DEF NewId
<1>9. CASE Len(br) = 1
  <2>1. blocks = p /\ 1..Len(br) = {1}
    BY <1>7, <1>9
  <2>2. BranchBlock(br, 1) = IF p = <<>> THEN br[1] ELSE m + 1
    BY <1>3, <1>5, <1>8, <1>1 DEF BranchBlock
  <2>3. BranchBlock(br, 1) \in 1..(m + l)
    BY <1>1, <1>4, <1>6, <2>1, <2>2
  <2>4. BlocksFit(br, blocks)
    <3>1. CASE ast[br[1]].kind = "Block"
      BY <1>6, <2>1, <2>2, <3>1 DEF BlocksFit
    <3>2. CASE ast[br[1]].kind # "Block"
      <4>1. Len(p) = 1 /\ DOMAIN p = 1..1 /\ 1 \in 1..1 /\ \A j \in 1..1 : j = 1
        BY <1>6, <3>2
      <4>2. p # <<>> /\ Around(p[1], br[1]) /\ DOMAIN p = {1}
        <5>1. DOMAIN p = {1} /\ 1 \in DOMAIN p
          BY <4>1
        <5>2. p # <<>>
          BY <1>6, <5>1
        <5> QED BY <1>6, <3>2, <5>1, <5>2
      <4>3. BranchBlock(br, 1) = Len(ast) + 1
        BY <2>2, <4>2
      <4> QED BY <2>1, <3>2, <4>2, <4>3 DEF BlocksFit
    <3> QED BY <3>1, <3>2
  <2> QED BY <1>1, <1>6, <2>1, <2>3, <2>4
<1>10. CASE Len(br) = 2
  <2>1. br[2] \in 1..m /\ \A k \in 1..Len(br) : k = 1 \/ k = 2
    <3>1. 2 \in DOMAIN br
      BY <1>10
    <3>2. \A k \in 1..2 : k = 1 \/ k = 2
      OBVIOUS
    <3>3. br[2] \in 1..m
      BY <3>1
    <3>4. 1..Len(br) = 1..2
      BY <1>10
    <3> QED BY <3>2, <3>3, <3>4
  <2>2. PICK q : q = Promoted(br[2])
    OBVIOUS
  <2>3. /\ q \in Seq(AnyNode) /\ Len(q) \in Nat /\ DOMAIN q = 1..Len(q)
        /\ \A j \in DOMAIN q : q[j] \in SynNode(m) /\ q[j].kind = "Block"
        /\ q # <<>> => Len(q) = 1
        /\ IF ast[br[2]].kind = "Block" THEN q = <<>>
           ELSE Len(q) = 1 /\ \A j \in DOMAIN q : Around(q[j], br[2])
    BY <2>1, <2>2, PromotedType
  <2>4. Before(br, 3) = p \o q
    <3>1. PICK s : s = [j \in 1..2 |-> Promoted(br[j])]
      OBVIOUS
    <3>2. Len(s) = 2 /\ s[1] = p /\ s[2] = q
      BY <1>5, <2>2, <3>1
    <3>3. FlattenSeq(s) = p \o q
      BY <3>2, FlattenTwo
    <3> QED BY <3>1, <3>3 DEF Before
  <2>5. blocks = p \o q
    BY <1>10, <2>4
  <2>6. /\ blocks \in Seq(AnyNode) /\ l = Len(p) + Len(q) /\ DOMAIN blocks = 1..(Len(p) + Len(q))
        /\ \A i \in 1..Len(p) : blocks[i] = p[i]
        /\ \A i \in 1..Len(q) : blocks[Len(p) + i] = q[i]
    <3>1. p \in Seq(AnyNode) /\ q \in Seq(AnyNode)
      BY <1>6, <2>3
    <3>2. /\ p \o q \in Seq(AnyNode) /\ Len(p \o q) = Len(p) + Len(q) /\ DOMAIN (p \o q) = 1..(Len(p) + Len(q))
          /\ \A i \in 1..Len(p) : (p \o q)[i] = p[i]
          /\ \A i \in 1..Len(q) : (p \o q)[Len(p) + i] = q[i]
      BY ONLY <3>1, Joined
    <3> QED BY ONLY <2>5, <3>2, l = Len(blocks)
  <2>7. ASSUME NEW j \in DOMAIN blocks PROVE blocks[j] \in SynNode(m) /\ blocks[j].kind = "Block"
    <3>1. CASE j \in 1..Len(p)
      BY <1>6, <2>6, <3>1
    <3>2. CASE j \notin 1..Len(p)
      <4>1. PICK i \in 1..Len(q) : j = Len(p) + i
        <5>1. p \in Seq(AnyNode) /\ q \in Seq(AnyNode) /\ j \in DOMAIN (p \o q)
          BY <1>6, <2>3, <2>5
        <5>2. \/ \E i \in DOMAIN p : j = i /\ (p \o q)[j] = p[i]
              \/ \E i \in DOMAIN q : j = Len(p) + i /\ (p \o q)[j] = q[i]
          BY ONLY <5>1, InJoined
        <5> QED BY <1>6, <2>3, <3>2, <5>2
      <4>2. blocks[j] = q[i] /\ i \in DOMAIN q
        BY <2>3, <2>6, <4>1
      <4> QED BY <2>3, <4>2
    <3> QED BY <3>1, <3>2
  <2>8. BranchBlock(br, 1) = IF p = <<>> THEN br[1] ELSE m + 1
    BY <1>3, <1>5, <1>8, <1>1 DEF BranchBlock
  <2>9. BranchBlock(br, 2) = IF q = <<>> THEN br[2] ELSE m + 1 + Len(p)
    BY <1>7, <1>8, <2>2 DEF BranchBlock
  <2>10. BranchBlock(br, 1) \in 1..(m + l)
    BY <1>1, <1>4, <1>6, <2>3, <2>6, <2>8
  <2>11. BranchBlock(br, 2) \in 1..(m + l)
    BY <1>1, <1>6, <2>1, <2>3, <2>6, <2>9
  <2>12. l \in Nat
    BY <1>6, <2>3, <2>6
  <2>13. \A k \in 1..Len(br) : BranchBlock(br, k) \in 1..(m + l)
    BY <2>1, <2>10, <2>11
  <2>14. BlocksFit(br, blocks)
    <3>1. ast[br[1]].kind # "Block" =>
            Len(p) = 1 /\ p # <<>> /\ 1 \in DOMAIN blocks /\ blocks[1] = p[1] /\ Around(p[1], br[1])
      <4> SUFFICES ASSUME ast[br[1]].kind # "Block"
                   PROVE  Len(p) = 1 /\ p # <<>> /\ 1 \in DOMAIN blocks /\ blocks[1] = p[1] /\ Around(p[1], br[1])
        OBVIOUS
      <4>1. Len(p) = 1 /\ \A j \in DOMAIN p : Around(p[j], br[1])
        BY <1>6
      <4>2. 1 \in 1..Len(p) /\ 1 \in 1..(Len(p) + Len(q))
        BY <2>3, <4>1
      <4>3. p # <<>>
        BY <1>6, <4>2
      <4> QED BY <1>6, <2>6, <4>1, <4>2, <4>3
    <3>2. ast[br[2]].kind # "Block" =>
            /\ Len(q) = 1 /\ q # <<>> /\ Len(p) + 1 \in DOMAIN blocks
            /\ blocks[Len(p) + 1] = q[1] /\ Around(q[1], br[2])
      <4> SUFFICES ASSUME ast[br[2]].kind # "Block"
                   PROVE  /\ Len(q) = 1 /\ q # <<>> /\ Len(p) + 1 \in DOMAIN blocks
                          /\ blocks[Len(p) + 1] = q[1] /\ Around(q[1], br[2])
        OBVIOUS
      <4>1. Len(q) = 1 /\ \A j \in DOMAIN q : Around(q[j], br[2])
        BY <2>3
      <4>2. 1 \in 1..Len(q) /\ Len(p) + 1 \in 1..(Len(p) + Len(q))
        BY <1>6, <4>1
      <4>3. q # <<>>
        BY <2>3, <4>2
      <4> QED BY <2>3, <2>6, <4>1, <4>2, <4>3
    <3>3. ast[br[1]].kind # "Block" => BranchBlock(br, 1) = Len(ast) + 1
      BY <2>8, <3>1
    <3>4. ast[br[2]].kind # "Block" => BranchBlock(br, 2) = Len(ast) + (Len(p) + 1)
      <4>1. PICK z : z = Len(p) /\ z \in Nat
        BY <1>6
      <4>2. m + 1 + z = m + (z + 1)
        BY <1>1, <4>1
      <4> QED BY <2>9, <3>2, <4>1, <4>2
    <3>5. ast[br[1]].kind = "Block" => BranchBlock(br, 1) = br[1]
      BY <1>6, <2>8
    <3>6. ast[br[2]].kind = "Block" => BranchBlock(br, 2) = br[2]
      BY <2>3, <2>9
    <3>7. 1 \in 1..Len(br) /\ 2 \in 1..Len(br)
      BY <1>10
    <3>8. ASSUME NEW k \in 1..Len(br)
          PROVE  IF ast[br[k]].kind = "Block" THEN BranchBlock(br, k) = br[k]
                 ELSE \E j \in DOMAIN blocks :
                        BranchBlock(br, k) = Len(ast) + j /\ Around(blocks[j], br[k])
      <4>1. k = 1 \/ k = 2
        BY <2>1
      <4> QED BY <3>1, <3>2, <3>3, <3>4, <3>5, <3>6, <4>1
    <3>9. ASSUME NEW j \in DOMAIN blocks
          PROVE  \E k \in 1..Len(br) : ast[br[k]].kind # "Block" /\ Around(blocks[j], br[k])
      <4>1. CASE j \in 1..Len(p)
        <5>1. p # <<>> /\ blocks[j] = p[j] /\ j \in DOMAIN p
          BY <1>6, <2>6, <4>1
        <5> QED BY <1>6, <3>7, <5>1
      <4>2. CASE j \notin 1..Len(p)
        <5>1. PICK i \in 1..Len(q) : j = Len(p) + i
          <6>1. p \in Seq(AnyNode) /\ q \in Seq(AnyNode) /\ j \in DOMAIN (p \o q)
            BY <1>6, <2>3, <2>5
          <6>2. \/ \E i \in DOMAIN p : j = i /\ (p \o q)[j] = p[i]
                \/ \E i \in DOMAIN q : j = Len(p) + i /\ (p \o q)[j] = q[i]
            BY ONLY <6>1, InJoined
          <6> QED BY <1>6, <2>3, <4>2, <6>2
        <5>2. blocks[j] = q[i] /\ i \in DOMAIN q
          BY <2>3, <2>6, <5>1
        <5>3. ast[br[2]].kind # "Block" /\ Around(q[i], br[2])
          <6>1. q # <<>>
            BY <5>2
          <6> QED BY <2>3, <5>2, <6>1
        <5> QED BY <3>7, <5>2, <5>3
      <4> QED BY <4>1, <4>2
    <3> QED BY <3>8, <3>9 DEF BlocksFit
  <2> QED BY <1>1, <2>6, <2>7, <2>12, <2>13, <2>14
<1> QED BY <1>9, <1>10

LEMMA MakeIfStep ==
  ASSUME BuildInv, MakeIf
  PROVE  \E v, nodes : IsMade(v, nodes) /\ IsShaped(v, nodes) /\ IsGrown(v, nodes)
<1>1. PICK n, parts, m : n = Here /\ parts = tree[n].parts /\ m = Len(ast)
  OBVIOUS
<1>2. At("make") /\ tree \in Trees /\ NodesInv /\ tree[n].kind = "If"
  BY <1>1 DEF MakeIf, BuildInv
<1>3. n \in DOMAIN tree /\ Items(parts) \subseteq DOMAIN value
  BY <1>1, <1>2, ChildrenDone
<1>4. HasParts(tree[n]) /\ parts \in Seq(Seq(Nat)) /\ m \in Nat
  BY <1>1, <1>2, <1>3, KidsOf DEF ParseNode, NodesInv
<1>5. Len(parts) = 3 /\ Len(parts[1]) = 1 /\ Len(parts[2]) = 1 /\ Len(parts[3]) <= 1
  BY <1>1, <1>2, <1>4 DEF HasParts
<1>6. 1 \in DOMAIN parts /\ 2 \in DOMAIN parts /\ 3 \in DOMAIN parts
  BY <1>4, <1>5
<1>7. \A p \in DOMAIN parts : parts[p] \in Seq(Nat) /\ ToSet(parts[p]) \subseteq DOMAIN value
  BY <1>3, <1>4 DEF Items
<1>8. PICK c : c = parts[2] \o parts[3]
  OBVIOUS
<1>9. /\ c \in Seq(Nat) /\ Len(c) \in {1, 2} /\ ToSet(c) \subseteq DOMAIN value
      /\ c[1] = parts[2][1] /\ Len(parts[3]) \in Nat /\ Len(c) = Len(parts[3]) + 1
      /\ \A q \in 1..Len(parts[3]) : c[q + 1] = parts[3][q]
  <2>1. PICK a, b : a = parts[2] /\ b = parts[3]
    OBVIOUS
  <2>2. a \in Seq(Nat) /\ b \in Seq(Nat) /\ ToSet(a) \subseteq DOMAIN value /\ ToSet(b) \subseteq DOMAIN value
    BY <1>6, <1>7, <2>1
  <2>3. /\ a \o b \in Seq(Nat) /\ Len(a \o b) = Len(a) + Len(b) /\ Len(a) \in Nat /\ Len(b) \in Nat
        /\ DOMAIN a = 1..Len(a) /\ DOMAIN b = 1..Len(b) /\ DOMAIN (a \o b) = 1..(Len(a) + Len(b))
        /\ \A q \in 1..Len(a) : (a \o b)[q] = a[q]
        /\ \A q \in 1..Len(b) : (a \o b)[Len(a) + q] = b[q]
    BY ONLY <2>2, Joined
  <2>4. Len(a) = 1 /\ Len(b) <= 1
    BY <1>5, <2>1
  <2>5. Len(a \o b) \in {1, 2}
    BY <2>3, <2>4
  <2>6. ASSUME NEW q \in DOMAIN (a \o b) PROVE (a \o b)[q] \in DOMAIN value
    <3>1. CASE q \in 1..Len(a)
      BY <2>2, <2>3, <3>1 DEF ToSet
    <3>2. CASE q \notin 1..Len(a)
      <4>1. q - Len(a) \in 1..Len(b) /\ Len(a) + (q - Len(a)) = q
        BY <2>3, <3>2
      <4> QED BY <2>2, <2>3, <4>1 DEF ToSet
    <3> QED BY <3>1, <3>2
  <2>7. ToSet(a \o b) \subseteq DOMAIN value
    BY <2>6 DEF ToSet
  <2>8. (a \o b)[1] = a[1] /\ Len(a \o b) = Len(b) + 1 /\ \A q \in 1..Len(b) : (a \o b)[q + 1] = b[q]
    BY <2>3, <2>4
  <2> QED BY <1>8, <2>1, <2>3, <2>5, <2>7, <2>8
<1>10. PICK br : br = Values(c)
  OBVIOUS
<1>11. br \in Seq(1..m) /\ Len(br) \in {1, 2}
  <2>1. Values(c) \in Seq(1..Len(ast)) /\ Len(Values(c)) = Len(c)
    BY <1>2, <1>9, ValuesType
  <2> QED BY <1>1, <1>9, <1>10, <2>1
<1>12. PICK blocks, l : blocks = Before(br, Len(br) + 1) /\ l = Len(blocks)
  OBVIOUS
<1>13. /\ blocks \in Seq(AnyNode) /\ l \in Nat
       /\ \A j \in DOMAIN blocks : blocks[j] \in SynNode(m) /\ blocks[j].kind = "Block"
       /\ \A k \in 1..Len(br) : BranchBlock(br, k) \in 1..(m + l)
       /\ BlocksFit(br, blocks)
  BY <1>1, <1>11, <1>12, BlocksType
<1>14. PICK first, second, third :
         /\ first = Values(parts[1])
         /\ second = <<BranchBlock(br, 1)>>
         /\ third = [k \in 1..(Len(br) - 1) |-> BranchBlock(br, k + 1)]
  OBVIOUS
<1>15. first \in Seq(1..(m + l))
  <2>1. Values(parts[1]) \in Seq(1..Len(ast))
    BY <1>2, <1>6, <1>7, ValuesType
  <2>2. 1..m \subseteq 1..(m + l)
    BY <1>4, <1>13
  <2>3. first \in Seq(1..m)
    BY <1>1, <1>14, <2>1
  <2> QED BY <2>2, <2>3, SeqInside
<1>16. second \in Seq(1..(m + l))
  <2>1. 1 \in 1..Len(br)
    BY <1>11
  <2> QED BY <1>13, <1>14, <2>1
<1>17. third \in Seq(1..(m + l))
  <2>1. PICK q : q = Len(br) - 1
    OBVIOUS
  <2>2. q \in Nat
    BY <1>11, <2>1
  <2>3. \A k \in 1..q : k + 1 \in 1..Len(br)
    BY <1>11, <2>1
  <2>4. PICK S : S = 1..(m + l)
    OBVIOUS
  <2>5. third \in [1..q -> S]
    BY <1>13, <1>14, <2>1, <2>3, <2>4
  <2>6. third \in Seq(S)
    BY <2>2, <2>5
  <2> QED BY <2>4, <2>6
<1>18. PICK s : s = <<first, second, third>>
  OBVIOUS
<1>19. s \in Seq(Seq(1..(m + l)))
  BY <1>15, <1>16, <1>17, <1>18
<1>20. PICK x : x = Node("If", n, s)
  OBVIOUS
<1>21. "If" \in Kind /\ m + l \in Nat
  BY <1>4, <1>13 DEF Kind
<1>22. x \in SynNode(m + l) /\ x \in AnyNode /\ x.kind = "If"
  BY <1>2, <1>3, <1>19, <1>20, <1>21, NodeType, SynNodeType
<1>23. PICK nodes : nodes = Append(blocks, x)
  OBVIOUS
<1>24. /\ nodes \in Seq(AnyNode) /\ DOMAIN nodes = 1..(l + 1) /\ Len(nodes) = l + 1
       /\ \A j \in 1..l : nodes[j] = blocks[j] /\ j \in DOMAIN blocks
       /\ nodes[l + 1] = x
  BY <1>12, <1>13, <1>22, <1>23
<1>25. ASSUME NEW j \in DOMAIN nodes PROVE nodes[j] \in SynNode(m + j - 1)
  <2>1. CASE j = l + 1
    <3>1. m + j - 1 = m + l
      BY <1>4, <1>13, <2>1
    <3> QED BY <1>22, <1>24, <2>1, <3>1
  <2>2. CASE j # l + 1
    <3>1. j \in 1..l
      BY <1>13, <1>24, <2>2
    <3>2. m + j - 1 \in Nat /\ m <= m + j - 1
      BY <1>4, <1>13, <3>1
    <3>3. nodes[j] \in SynNode(m)
      BY <1>13, <1>24, <3>1
    <3> QED BY <1>4, <3>2, <3>3, SynNodeGrows
  <2> QED BY <2>1, <2>2
<1>26. PICK v : v = m + 1 + l
  OBVIOUS
<1>27. v \in 1..(m + Len(nodes))
  BY <1>4, <1>13, <1>24, <1>26
<1>28. Returns(v, nodes)
  <2>1. Returns(NewId + Len(Before(br, Len(br) + 1)),
                Append(Before(br, Len(br) + 1),
                       Node("If", n, <<Values(parts[1]), <<BranchBlock(br, 1)>>,
                                       [k \in 1..(Len(br) - 1) |-> BranchBlock(br, k + 1)]>>)))
    BY <1>1, <1>8, <1>10 DEF MakeIf, Before, BranchBlock
  <2> QED BY <1>1, <1>12, <1>14, <1>18, <1>20, <1>23, <1>26, <2>1 DEF NewId
<1>29. ASSUME NEW j \in DOMAIN nodes PROVE nodes[j].kind # "Program"
  <2>1. j \in 1..l \/ j = l + 1
    BY <1>13, <1>24
  <2> QED BY <1>13, <1>22, <1>24, <2>1
<1>30. n # Root
  BY <1>2, <1>3, OnlyRootIsProgram
<1>31. IsMade(v, nodes)
  BY <1>1, <1>24, <1>25, <1>27, <1>28, <1>29, <1>30 DEF IsMade
<1>32. ASSUME NEW f, IsStanding(f), Shapes(f), NEW b, b = ast \o nodes
       PROVE  b[v].of = f[n] /\ \A j \in DOMAIN nodes : Fits(b, m + j, f)
  <2>1. /\ \A q \in DOMAIN ast : b[q] = ast[q]
        /\ \A q \in DOMAIN nodes : b[m + q] = nodes[q]
        /\ DOMAIN ast = 1..m
    <3>1. ast \in Seq(AnyNode) /\ nodes \in Seq(AnyNode)
      BY <1>2, <1>24 DEF NodesInv
    <3>2. /\ DOMAIN ast = 1..Len(ast) /\ DOMAIN nodes = 1..Len(nodes)
          /\ \A q \in 1..Len(ast) : (ast \o nodes)[q] = ast[q]
          /\ \A q \in 1..Len(nodes) : (ast \o nodes)[Len(ast) + q] = nodes[q]
      BY ONLY <3>1, Joined
    <3> QED BY <1>1, <1>32, <3>2
  <2>2. x.of = n /\ x.kind = "If" /\ tree[n].kind = "If" /\ x.parts = s
    BY <1>2, <1>20 DEF Node
  <2>3. f[n] = n
    BY <1>2, <1>3, <1>32 DEF IsStanding
  <2>4. v = m + (l + 1) /\ l + 1 \in DOMAIN nodes /\ b[v] = x
    <3>1. v = m + (l + 1) /\ l + 1 \in DOMAIN nodes
      BY <1>4, <1>13, <1>24, <1>26
    <3> QED BY <1>24, <2>1, <3>1
  <2>5. /\ DOMAIN br = 1..Len(br) /\ Len(br) = Len(c)
        /\ \A k \in 1..Len(br) : br[k] \in 1..m /\ ast[br[k]].of = f[c[k]]
    <3>1. DOMAIN br = 1..Len(br) /\ \A k \in 1..Len(br) : br[k] \in 1..m
      BY ONLY <1>11, SeqParts
    <3>2. Len(br) = Len(c) /\ DOMAIN br = DOMAIN c /\ \A k \in DOMAIN br : b[br[k]].of = f[c[k]]
      <4>1. NodesInv /\ c \in Seq(Nat) /\ ToSet(c) \subseteq DOMAIN value /\ Shapes(f)
            /\ br = Values(c) /\ \A q \in DOMAIN ast : b[q] = ast[q]
        BY <1>2, <1>9, <1>10, <1>32, <2>1
      <4> QED BY ONLY <4>1, ValuesShape
    <3> QED BY <2>1, <3>1, <3>2
  <2>6. ASSUME NEW k \in 1..Len(br)
        PROVE  b[BranchBlock(br, k)].kind = "Block" /\ b[BranchBlock(br, k)].of = f[c[k]]
    <3>1. CASE ast[br[k]].kind = "Block"
      <4>1. BranchBlock(br, k) = br[k]
        BY <1>13, <3>1 DEF BlocksFit
      <4> QED BY <2>1, <2>5, <3>1, <4>1
    <3>2. CASE ast[br[k]].kind # "Block"
      <4>1. PICK j \in DOMAIN blocks : BranchBlock(br, k) = Len(ast) + j /\ Around(blocks[j], br[k])
        BY <1>13, <3>2 DEF BlocksFit
      <4>2. j \in 1..l
        BY <1>12, <1>13
      <4>3. nodes[j] = blocks[j] /\ j \in DOMAIN nodes
        BY <1>13, <1>24, <4>2
      <4>4. blocks[j].of = f[c[k]] /\ blocks[j].kind = "Block"
        BY <1>13, <2>5, <4>1 DEF Around
      <4> QED BY <1>1, <2>1, <4>1, <4>3, <4>4
    <3> QED BY <3>1, <3>2
  <2>7. ASSUME NEW j \in 1..l PROVE Fits(b, m + j, f)
    <3>1. j \in DOMAIN blocks /\ nodes[j] = blocks[j] /\ j \in DOMAIN nodes
      BY <1>13, <1>24
    <3>2. PICK k \in 1..Len(br) : ast[br[k]].kind # "Block" /\ Around(blocks[j], br[k])
      BY <1>13, <3>1 DEF BlocksFit
    <3>3. Fits(ast, br[k], f)
      BY <1>32, <2>1, <2>5 DEF Shapes
    <3>4. ast[br[k]].kind = tree[ast[br[k]].of].kind
      BY <3>2, <3>3, Zenon DEF Fits
    <3>5. b[m + j] = blocks[j] /\ blocks[j].kind = "Block"
      BY <1>13, <2>1, <3>1
    <3> QED BY <3>2, <3>4, <3>5 DEF Fits, Around
  <2>8. Fits(b, v, f)
    <3>1. Len(s) = 3 /\ DOMAIN s = 1..3 /\ s[1] = first /\ s[2] = second /\ s[3] = third
      BY <1>18
    <3>2. \A p \in 1..3 : p = 1 \/ p = 2 \/ p = 3
      OBVIOUS
    <3>3. Len(first) = Len(parts[1]) /\ \A k \in DOMAIN first : b[first[k]].of = f[parts[1][k]]
      <4>1. PICK part : part = parts[1]
        OBVIOUS
      <4>2. NodesInv /\ part \in Seq(Nat) /\ ToSet(part) \subseteq DOMAIN value /\ Shapes(f)
            /\ first = Values(part) /\ \A q \in DOMAIN ast : b[q] = ast[q]
        BY <1>2, <1>6, <1>7, <1>14, <1>32, <2>1, <4>1
      <4>3. /\ Len(first) = Len(part)
            /\ \A k \in DOMAIN first : b[first[k]].of = f[part[k]]
        BY ONLY <4>2, ValuesShape
      <4> QED BY <4>1, <4>3
    <3>4. /\ Len(second) = Len(parts[2])
          /\ \A k \in DOMAIN second : /\ b[second[k]].of = f[parts[2][k]]
                                      /\ b[second[k]].kind = "Block"
      <4>1. Len(second) = 1 /\ second[1] = BranchBlock(br, 1) /\ \A k \in DOMAIN second : k = 1
        BY <1>14
      <4>2. 1 \in 1..Len(br)
        BY <1>11
      <4> QED BY <1>5, <1>9, <2>6, <4>1, <4>2
    <3>5. /\ Len(third) = Len(parts[3])
          /\ \A k \in DOMAIN third : /\ b[third[k]].of = f[parts[3][k]]
                                     /\ b[third[k]].kind = "Block"
      <4>1. PICK q : q = Len(parts[3])
        OBVIOUS
      <4>2. q \in Nat /\ Len(br) = q + 1 /\ Len(br) - 1 = q
        BY <1>9, <2>5, <4>1
      <4>3. DOMAIN third = 1..q /\ Len(third) = q /\ \A k \in 1..q : third[k] = BranchBlock(br, k + 1)
        BY <1>14, <4>2
      <4>4. ASSUME NEW k \in 1..q PROVE k + 1 \in 1..Len(br) /\ c[k + 1] = parts[3][k]
        <5>1. k + 1 \in 1..(q + 1)
          BY <4>2
        <5>2. c[k + 1] = parts[3][k]
          BY <1>9, <4>1
        <5> QED BY <4>2, <5>1, <5>2
      <4> QED BY <2>6, <4>1, <4>3, <4>4
    <3>6. ASSUME NEW p \in DOMAIN s
          PROVE  /\ Len(s[p]) = Len(parts[p])
                 /\ \A k \in DOMAIN s[p] : /\ b[s[p][k]].of = f[parts[p][k]]
                                           /\ p # 1 => b[s[p][k]].kind = "Block"
      BY <3>1, <3>2, <3>3, <3>4, <3>5
    <3>7. b[v].kind = "If" /\ b[v].of = n /\ b[v].parts = s /\ tree[n].kind = "If" /\ tree[n].parts = parts
      BY <1>1, <2>2, <2>4
    <3>8. Len(s) = Len(parts)
      BY <1>5, <3>1
    <3> QED BY ONLY <3>6, <3>7, <3>8, Zenon DEF Fits
  <2>9. ASSUME NEW j \in DOMAIN nodes PROVE Fits(b, m + j, f)
    <3>1. j \in 1..l \/ j = l + 1
      BY <1>13, <1>24
    <3> QED BY <2>4, <2>7, <2>8, <3>1
  <2> QED BY <2>2, <2>3, <2>4, <2>9
<1>33. IsShaped(v, nodes)
  BY <1>1, <1>32 DEF IsShaped
<1>34. IsOwn(x)
  <2>1. x.of = n /\ x.kind = "If"
    BY <1>20 DEF Node
  <2> QED BY <1>1, <1>2, <2>1 DEF IsOwn
<1>35. \A k \in 1..Len(br) : c[k] \in DOMAIN value /\ br[k] = value[c[k]]
  <2>1. Len(br) = Len(c)
    BY <1>2, <1>9, <1>10, ValuesType
  <2>2. DOMAIN c = 1..Len(br)
    BY <1>9, <2>1
  <2> QED BY <1>9, <1>10, <2>2 DEF Values, ToSet
<1>36. ASSUME NEW j \in DOMAIN nodes, j # Len(nodes)
       PROVE  /\ nodes[j].kind = "Block"
              /\ \E k \in DOMAIN value : ast[value[k]].kind # "Block" /\ Around(nodes[j], value[k])
  <2>1. j \in 1..l
    BY <1>13, <1>24, <1>36
  <2>2. nodes[j] = blocks[j] /\ j \in DOMAIN blocks
    BY <1>24, <2>1
  <2>3. PICK k \in 1..Len(br) : ast[br[k]].kind # "Block" /\ Around(blocks[j], br[k])
    BY <1>13, <2>2 DEF BlocksFit
  <2> QED BY <1>13, <1>35, <2>2, <2>3
<1>37. IsGrown(v, nodes)
  <2>1. Len(nodes) # 0 /\ v = m + Len(nodes) /\ nodes[Len(nodes)] = x
    BY <1>4, <1>13, <1>24, <1>26
  <2> QED BY <1>1, <1>34, <1>36, <2>1 DEF IsGrown
<1> QED BY <1>31, <1>33, <1>37

-----------------------------------------------------------------------------

LEMMA BuildStep ==
  ASSUME BuildInv, BNext
  PROVE  BuildInv'
<1>1. ASSUME MakeNode \/ MakeFor \/ MakeIf \/ MakeObject PROVE BuildInv'
  <2>1. PICK v, nodes : IsMade(v, nodes)
    BY <1>1, MakeNodeStep, MakeForStep, MakeIfStep, MakeObjectStep
  <2> QED BY <2>1, Returned DEF IsMade
<1> QED BY <1>1, VisitStep DEF BNext

LEMMA BuildStutter ==
  ASSUME BuildInv, UNCHANGED bvars
  PROVE  BuildInv'
<1>1. /\ tree' = tree /\ todo' = todo /\ value' = value /\ ast' = ast /\ diags' = diags /\ build' = build
      /\ tree \in Trees /\ TodoInv /\ NodesInv
  BY DEF BuildInv, bvars
<1>2. TodoInv'
  <2>1. PICK w, e : w = todo /\ e = DOMAIN value
    OBVIOUS
  <2>2. TodoOK(w, e)
    BY <1>1, <2>1 DEF TodoInv
  <2> QED BY <1>1, <2>1, <2>2, TodoStays
<1>3. NodesInv'
  BY <1>1, NodesStay DEF NodesInv
<1>4. Incomplete' = Incomplete
  BY <1>1 DEF Incomplete
<1> QED BY <1>1, <1>2, <1>3, <1>4 DEF BuildInv

LEMMA BuildInvariance == PSpec => []BuildInv
<1>1. PInit => BuildInv
  BY BuildInit DEF PInit
<1>2. BuildInv /\ [PNext]_allvars => BuildInv'
  <2> SUFFICES ASSUME BuildInv, [PNext]_allvars PROVE BuildInv'
    OBVIOUS
  <2>1. BNext \/ UNCHANGED bvars
    BY DEF PNext, Build, StartPrint, PrintNode, CloseNode, allvars
  <2> QED BY <2>1, BuildStep, BuildStutter
<1> QED BY <1>1, <1>2, PTL DEF PSpec

\* When the root has its value so have all nodes, each being the child of
\* another, and a node is given a value after its children only.
LEMMA AllValued ==
  ASSUME BuildInv, build = "built"
  PROVE  DOMAIN value = DOMAIN tree
<1>1. PICK N : N = Len(tree)
  OBVIOUS
<1>2. /\ tree \in Seq(ParseNode) /\ DOMAIN tree = 1..N /\ N \in Nat
      /\ \A n \in DOMAIN tree : n # Root => \E m \in DOMAIN tree : n \in Items(tree[m].parts)
  BY <1>1, TreeAssumption DEF BuildInv
<1>3. NodesInv /\ Root \in DOMAIN value /\ tree \in Trees
  BY DEF BuildInv
<1> DEFINE G == {k \in 0..N : \A n \in 1..k : n \in DOMAIN value}
<1>4. 0 \in G
  BY <1>2
<1>5. ASSUME NEW k \in 0..N, k \in G, k < N PROVE k + 1 \in G
  <2>1. k + 1 \in DOMAIN tree /\ k + 1 \in 0..N
    BY <1>2, <1>5
  <2>2. k + 1 \in DOMAIN value
    <3>1. CASE k + 1 = Root
      BY <1>3, <3>1
    <3>2. CASE k + 1 # Root
      <4>1. PICK m \in DOMAIN tree : k + 1 \in Items(tree[m].parts)
        BY <1>2, <2>1, <3>2
      <4>2. k + 1 > m /\ m \in Nat
        <5>1. k + 1 # Null
          BY <1>5 DEF Null
        <5> QED BY <1>3, <4>1, <5>1, KidsOf
      <4>3. m \in 1..k
        BY <1>2, <4>1, <4>2
      <4>4. m \in DOMAIN value
        BY <1>5, <4>3
      <4> QED BY <1>3, <4>1, <4>4 DEF NodesInv
    <3> QED BY <3>1, <3>2
  <2>3. \A n \in 1..(k + 1) : n \in 1..k \/ n = k + 1
    BY <1>5
  <2> QED BY <1>5, <2>1, <2>2, <2>3
<1>6. N \in G
  <2> HIDE DEF G
  <2>1. 0..N \subseteq G
    BY <1>2, <1>4, <1>5, CountUp
  <2> QED BY <1>2, <2>1
<1>7. DOMAIN value \subseteq DOMAIN tree
  BY <1>3 DEF NodesInv
<1> QED BY <1>2, <1>6, <1>7

\* CrashesExplained: the visitor stops for an absent child only, and does not
\* get past one.
THEOREM CrashesAreExplained == PSpec => []CrashesExplained
<1>1. BuildInv => CrashesExplained
  <2> SUFFICES ASSUME BuildInv PROVE CrashesExplained
    OBVIOUS
  <2>1. build = "crashed" => Incomplete
    BY DEF BuildInv
  <2>2. ASSUME build = "built" PROVE ~Incomplete
    <3>1. NodesInv /\ DOMAIN value = DOMAIN tree /\ tree \in Trees
      BY <2>2, AllValued DEF BuildInv
    <3>2. Null \notin DOMAIN tree
      <4>1. tree \in Seq(ParseNode)
        BY <3>1, TreeAssumption
      <4> QED BY <4>1 DEF Null
    <3> QED BY <3>1, <3>2 DEF NodesInv, Incomplete
  <2> QED BY <2>1, <2>2 DEF CrashesExplained, Incomplete
<1> QED BY <1>1, BuildInvariance, PTL

-----------------------------------------------------------------------------
(* The printer.                                                            *)

WorkItem == [op : {"open", "close"}, node : DOMAIN ast, last : BOOLEAN]

PrintInv ==
  /\ depth \in Nat
  /\ depthFlag \in [Flag -> BOOLEAN]
  /\ isLast \in Seq(BOOLEAN)
  /\ Len(isLast) = depth + 1
  /\ print \in {"waiting", "printing", "printed", "asserted"}
  /\ print # "waiting" => build = "built"
  /\ print = "waiting" => work = <<>>
  /\ work \in Seq(WorkItem)

\* The children of a node, each to be opened; only the last one is marked as last,
\* whichever part it is in.
LEMMA ChildrenType ==
  ASSUME BuildInv, NEW a \in DOMAIN ast
  PROVE  /\ Children(a) \in Seq([op : {"open"}, node : Items(ast[a].parts), last : BOOLEAN])
         /\ \A k \in Items(ast[a].parts) : \E i \in DOMAIN Children(a) : Children(a)[i].node = k
         /\ \A i \in DOMAIN Children(a) : Children(a)[i].last <=> i = Len(Children(a))
<1>1. PICK parts, n, X : /\ parts = ast[a].parts /\ n = Len(parts)
                         /\ X = [op : {"open"}, node : Items(parts), last : BOOLEAN]
  OBVIOUS
<1>2. parts \in Seq(Seq(1..(a - 1))) /\ a \in Nat
  BY <1>1 DEF BuildInv, NodesInv, SynNode
<1>3. n \in Nat /\ DOMAIN parts = 1..n /\ \A p \in DOMAIN parts : parts[p] \in Seq(1..(a - 1))
  BY <1>1, <1>2
<1>4. PICK s : s = [p \in DOMAIN parts |-> [k \in DOMAIN parts[p] |-> Open(parts[p][k], LastChild(parts, p, k))]]
  OBVIOUS
<1>5. ASSUME NEW p \in DOMAIN parts PROVE s[p] \in Seq(X)
  <2>1. PICK t : t = [k \in DOMAIN parts[p] |-> Open(parts[p][k], LastChild(parts, p, k))]
    OBVIOUS
  <2>2. ASSUME NEW k \in DOMAIN parts[p] PROVE t[k] \in X
    <3>1. parts[p][k] \in Items(parts)
      BY DEF Items, ToSet
    <3>2. LastChild(parts, p, k) \in BOOLEAN
      BY DEF LastChild
    <3> QED BY <1>1, <2>1, <3>1, <3>2 DEF Open
  <2>3. t = [k \in DOMAIN parts[p] |-> t[k]]
    BY <2>1
  <2>4. t \in Seq(X)
    BY <1>3, <2>2, <2>3, MapType
  <2> QED BY <1>4, <2>1, <2>4
<1>6. s \in Seq(Seq(X)) /\ Len(s) = n
  <2>1. s = [p \in DOMAIN parts |-> s[p]]
    BY <1>4
  <2>2. PICK Y, Z : Y = Seq(1..(a - 1)) /\ Z = Seq(X)
    OBVIOUS
  <2>3. parts \in Seq(Y) /\ \A p \in DOMAIN parts : s[p] \in Z
    BY <1>2, <1>5, <2>2
  <2>4. s \in Seq(Z) /\ Len(s) = Len(parts)
    BY <2>1, <2>3, MapType
  <2> QED BY <1>1, <2>2, <2>4
<1>7. s = <<>> \/ n # 0
  BY <1>6
<1>8. FlattenSeq(s) \in Seq(X) /\ \E offset : IsOffset(s, n, offset)
  BY <1>3, <1>5, <1>6, <1>7, FlattenShape
<1>9. ASSUME NEW k \in Items(parts) PROVE \E i \in DOMAIN FlattenSeq(s) : FlattenSeq(s)[i].node = k
  <2>1. PICK p \in DOMAIN parts : \E q \in DOMAIN parts[p] : parts[p][q] = k
    BY <1>9 DEF Items, ToSet
  <2>2. PICK q \in DOMAIN parts[p] : parts[p][q] = k
    BY <2>1
  <2>3. s[p] = [j \in DOMAIN parts[p] |-> Open(parts[p][j], LastChild(parts, p, j))]
    BY <1>4
  <2>4. q \in DOMAIN s[p] /\ s[p][q].node = k
    BY <2>2, <2>3 DEF Open
  <2>5. parts[p] \in Seq(1..(a - 1))
    BY <1>3
  <2>6. q \in Nat /\ p \in 1..n
    BY <1>3, <2>5
  <2>7. PICK offset : IsOffset(s, n, offset)
    BY <1>8
  <2>8. offset[p] + q \in DOMAIN FlattenSeq(s) /\ FlattenSeq(s)[offset[p] + q] = s[p][q]
    BY <2>4, <2>6, <2>7 DEF IsOffset
  <2> QED BY <2>4, <2>8
<1>10. Children(a) = FlattenSeq(s)
  BY <1>1, <1>4 DEF Children
<1>11. ASSUME NEW i \in DOMAIN FlattenSeq(s)
       PROVE  FlattenSeq(s)[i].last <=> i = Len(FlattenSeq(s))
  <2>1. PICK offset : IsOffset(s, n, offset)
    BY <1>8
  <2>2. PICK L, fl : fl = FlattenSeq(s) /\ L = Len(fl)
    OBVIOUS
  <2>3. L \in Nat /\ DOMAIN fl = 1..L /\ i \in 1..L /\ i \in Nat
    <3>1. fl \in Seq(X)
      BY <1>8, <2>2
    <3>2. L \in Nat /\ DOMAIN fl = 1..L
      BY <2>2, <3>1
    <3> QED BY <1>11, <2>2, <3>2
  <2>4. /\ offset \in [1..n -> Nat]
        /\ \A q \in DOMAIN fl : \E p \in 1..n : \E k \in DOMAIN s[p] : q = offset[p] + k
        /\ \A p \in 1..n : offset[p] + Len(s[p]) <= L
        /\ \A p \in 1..n, q \in 1..n : p < q => offset[p] + Len(s[p]) <= offset[q]
        /\ \A p \in 1..n, k \in Nat : k \in DOMAIN s[p] => fl[offset[p] + k] = s[p][k]
    BY <2>1, <2>2 DEF IsOffset
  <2>5. \A p \in 1..n : /\ Len(s[p]) \in Nat /\ DOMAIN s[p] = 1..Len(s[p])
                       /\ DOMAIN parts[p] = 1..Len(s[p]) /\ Len(parts[p]) = Len(s[p])
                       /\ (parts[p] = <<>> <=> Len(s[p]) = 0)
    <3> TAKE p \in 1..n
    <3>1. parts[p] \in Seq(1..(a - 1)) /\ s[p] \in Seq(X)
      BY <1>3, <1>5
    <3>2. s[p] = [k \in DOMAIN parts[p] |-> Open(parts[p][k], LastChild(parts, p, k))]
      BY <1>3, <1>4
    <3>3. DOMAIN s[p] = DOMAIN parts[p]
      BY <3>2
    <3>4. Len(s[p]) = Len(parts[p])
      BY <3>1, <3>3
    <3> QED BY <3>1, <3>3, <3>4
  <2>6. PICK p \in 1..n : \E k \in DOMAIN s[p] : i = offset[p] + k
    BY <2>2, <2>3, <2>4
  <2>7. PICK k \in DOMAIN s[p] : i = offset[p] + k
    BY <2>6
  <2>8. k \in Nat /\ k \in 1..Len(s[p]) /\ fl[i] = s[p][k]
    BY <2>4, <2>5, <2>7
  <2>9. fl[i].last = LastChild(parts, p, k)
    <3>1. s[p] = [j \in DOMAIN parts[p] |-> Open(parts[p][j], LastChild(parts, p, j))]
      BY <1>3, <1>4
    <3>2. k \in DOMAIN parts[p]
      BY <2>5, <2>8
    <3> QED BY <2>8, <3>1, <3>2 DEF Open
  <2>10. LastChild(parts, p, k) <=> k = Len(s[p]) /\ \A q \in 1..n : q > p => Len(s[q]) = 0
    BY <1>3, <2>5 DEF LastChild
  <2>11. PICK o : o = [q \in 1..n |-> Len(s[q])]
    OBVIOUS
  <2>12. /\ \A q \in 1..n : o[q] \in Nat /\ offset[q] \in Nat /\ offset[q] + o[q] <= L /\ Len(s[q]) = o[q]
         /\ \A q \in 1..n, r \in 1..n : q < r => offset[q] + o[q] <= offset[r]
         /\ \A j \in 1..L : \E q \in 1..n : \E m \in 1..o[q] : j = offset[q] + m
    <3>1. \A q \in 1..n : /\ o[q] \in Nat /\ offset[q] \in Nat /\ offset[q] + o[q] <= L
                          /\ Len(s[q]) = o[q] /\ DOMAIN s[q] = 1..o[q]
      <4> TAKE q \in 1..n
      <4>1. o[q] = Len(s[q])
        BY <2>11
      <4>2. Len(s[q]) \in Nat /\ DOMAIN s[q] = 1..Len(s[q])
        BY <2>5
      <4>3. offset[q] \in Nat /\ offset[q] + Len(s[q]) <= L
        BY <2>4
      <4> QED BY ONLY <4>1, <4>2, <4>3
    <3>2. \A q \in 1..n, r \in 1..n : q < r => offset[q] + o[q] <= offset[r]
      <4>1. \A q \in 1..n, r \in 1..n : q < r => offset[q] + Len(s[q]) <= offset[r]
        BY <2>4
      <4> QED BY ONLY <3>1, <4>1
    <3>3. \A j \in 1..L : \E q \in 1..n : \E m \in 1..o[q] : j = offset[q] + m
      <4>1. \A j \in 1..L : \E q \in 1..n : \E m \in DOMAIN s[q] : j = offset[q] + m
        BY <2>3, <2>4
      <4> QED BY ONLY <3>1, <4>1
    <3> QED BY <3>1, <3>2, <3>3
  <2>13. ASSUME k = o[p], \A q \in 1..n : q > p => o[q] = 0 PROVE i = L
    <3> SUFFICES ASSUME i # L PROVE FALSE
      OBVIOUS
    <3>1. i + 1 \in 1..L
      BY <2>3
    <3>2. PICK q \in 1..n : \E m \in 1..o[q] : i + 1 = offset[q] + m
      BY <2>12, <3>1
    <3>3. PICK m \in 1..o[q] : i + 1 = offset[q] + m
      BY <3>2
    <3>4. offset[q] \in Nat /\ o[q] \in Nat /\ o[p] \in Nat /\ offset[p] \in Nat /\ m \in Nat /\ m >= 1 /\ m <= o[q]
      BY <2>12
    <3>5. i = offset[p] + o[p]
      BY <2>7, <2>13
    <3>6. CASE q < p
      <4>1. offset[q] + o[q] <= offset[p]
        BY <2>12, <3>6
      <4> QED BY <3>3, <3>4, <3>5, <4>1
    <3>7. CASE q = p
      BY <3>3, <3>4, <3>5, <3>7
    <3>8. CASE q > p
      BY <2>13, <3>4, <3>8
    <3> QED BY <1>3, <3>6, <3>7, <3>8
  <2>14. ASSUME i = L PROVE k = o[p] /\ \A q \in 1..n : q > p => o[q] = 0
    <3>1. offset[p] \in Nat /\ o[p] \in Nat /\ offset[p] + o[p] <= L /\ k <= o[p]
      BY <2>8, <2>12
    <3>2. k = o[p]
      BY <2>7, <2>8, <2>14, <3>1
    <3>3. ASSUME NEW q \in 1..n, q > p PROVE o[q] = 0
      <4>1. offset[p] + o[p] <= offset[q] /\ offset[q] + o[q] <= L /\ offset[q] \in Nat /\ o[q] \in Nat
        BY <2>12, <3>3
      <4> QED BY <2>3, <2>7, <2>14, <3>1, <3>2, <4>1
    <3> QED BY <3>2, <3>3
  <2>15. (k = Len(s[p]) /\ \A q \in 1..n : q > p => Len(s[q]) = 0) <=> (k = o[p] /\ \A q \in 1..n : q > p => o[q] = 0)
    BY <2>11
  <2> QED BY <2>2, <2>9, <2>10, <2>13, <2>14, <2>15
<1> QED BY <1>1, <1>8, <1>9, <1>10, <1>11

LEMMA PrintInit == PInit => PrintInv
<1> SUFFICES ASSUME PInit PROVE PrintInv
  OBVIOUS
<1>1. isLast \in Seq(BOOLEAN) /\ Len(isLast) = 1
  BY DEF PInit
<1>2. work \in Seq(WorkItem)
  BY DEF PInit
<1> QED BY <1>1, <1>2 DEF PInit, PrintInv

LEMMA PrintStays ==
  ASSUME PrintInv, UNCHANGED <<pvars, ast>>, print = "waiting" \/ build' = build
  PROVE  PrintInv'
BY DEF PrintInv, WorkItem, pvars

LEMMA StartStep ==
  ASSUME BuildInv, PrintInv, StartPrint
  PROVE  PrintInv'
<1>1. /\ build = "built" /\ work' = <<Open(value[Root], FALSE)>> /\ print' = "printing"
      /\ UNCHANGED <<bvars, depth, depthFlag, isLast, lines>> /\ ast' = ast /\ build' = build
  BY DEF StartPrint, bvars
<1>2. value[Root] \in DOMAIN ast
  BY <1>1 DEF BuildInv, NodesInv
<1>3. Open(value[Root], FALSE) \in WorkItem
  BY <1>2 DEF Open, WorkItem
<1>4. work' \in Seq(WorkItem)
  <2>1. PICK x : x = Open(value[Root], FALSE)
    OBVIOUS
  <2>2. work' = <<x>> /\ x \in WorkItem
    BY <1>1, <1>3, <2>1
  <2> QED BY <2>2
<1>5. WorkItem' = WorkItem
  BY <1>1 DEF WorkItem
<1> QED BY <1>1, <1>4, <1>5 DEF PrintInv

\* What a line adds to the work: the children of its node, and its end.
LEMMA OpenedWork ==
  ASSUME BuildInv, NEW w \in Seq(WorkItem), w # <<>>, NEW a, a = Head(w).node
  PROVE  /\ a \in DOMAIN ast /\ Head(w).last \in BOOLEAN
         /\ Children(a) \o <<Close(a)>> \in Seq(WorkItem)
         /\ Children(a) \o <<Close(a)>> \o Tail(w) \in Seq(WorkItem)
<1>1. Head(w) \in WorkItem /\ Tail(w) \in Seq(WorkItem)
  OBVIOUS
<1>2. a \in DOMAIN ast /\ Head(w).last \in BOOLEAN
  BY <1>1 DEF WorkItem
<1>3. PICK X : X = [op : {"open"}, node : Items(ast[a].parts), last : BOOLEAN]
  OBVIOUS
<1>4. PICK c : c = Children(a)
  OBVIOUS
<1>5. c \in Seq(X)
  BY <1>2, <1>3, <1>4, ChildrenType
<1>6. Items(ast[a].parts) \subseteq DOMAIN ast
  <2>1. ast[a] \in SynNode(a - 1) /\ DOMAIN ast = 1..Len(ast) /\ Len(ast) \in Nat /\ tree \in Trees
    BY <1>2 DEF BuildInv, NodesInv
  <2>2. a - 1 \in Nat /\ 1..(a - 1) \subseteq 1..Len(ast)
    BY <1>2, <2>1
  <2>3. Items(ast[a].parts) \subseteq 1..(a - 1)
    BY <2>1, <2>2, SynNodeType
  <2> QED BY <2>1, <2>2, <2>3
<1>7. X \subseteq WorkItem
  BY <1>3, <1>6 DEF WorkItem
<1>8. c \in Seq(WorkItem)
  BY <1>5, <1>7, SeqInside
<1>9. PICK e : e = <<Close(a)>>
  OBVIOUS
<1>10. e \in Seq(WorkItem)
  <2>1. Close(a) \in WorkItem
    BY <1>2 DEF Close, WorkItem
  <2> QED BY <1>9, <2>1
<1>11. c \o e \in Seq(WorkItem)
  BY <1>8, <1>10
<1> QED BY <1>1, <1>2, <1>4, <1>9, <1>11

LEMMA LastOf ==
  ASSUME NEW X, NEW s \in Seq(X), s # <<>>
  PROVE  Last(s) \in X /\ Front(s) \in Seq(X) /\ Len(Front(s)) = Len(s) - 1
<1>1. Len(s) \in Nat /\ Len(s) >= 1 /\ DOMAIN s = 1..Len(s)
  OBVIOUS
<1>2. s[Len(s)] \in X
  BY <1>1
<1>3. PICK n : n = Len(s) - 1
  OBVIOUS
<1>4. n \in Nat /\ \A i \in 1..n : i \in DOMAIN s
  BY <1>1, <1>3
<1>5. SubSeq(s, 1, n) \in Seq(X) /\ Len(SubSeq(s, 1, n)) = n
  BY <1>4
<1> QED BY <1>2, <1>3, <1>5 DEF Last, Front

LEMMA PrintStep ==
  ASSUME BuildInv, PrintInv, PrintNode
  PROVE  PrintInv'
<1>1. /\ print = "printing" /\ work # <<>> /\ Head(work).op = "open"
      /\ UNCHANGED bvars /\ ast' = ast /\ build' = build
  BY DEF PrintNode, AtWork, bvars
<1>2. WorkItem' = WorkItem /\ work \in Seq(WorkItem) /\ depth \in Nat /\ isLast \in Seq(BOOLEAN)
      /\ Len(isLast) = depth + 1 /\ depthFlag \in [Flag -> BOOLEAN] /\ build = "built"
  BY <1>1 DEF WorkItem, PrintInv
<1>3. PICK a, d, stack : /\ a = Head(work).node /\ d = Entered
                         /\ stack = IF d = depth THEN isLast ELSE Append(isLast, Head(work).last)
  OBVIOUS
<1>4. Head(work).last \in BOOLEAN /\ Children(a) \o <<Close(a)>> \o Tail(work) \in Seq(WorkItem)
  BY <1>1, <1>2, <1>3, OpenedWork
<1>5. d \in Nat /\ (d = depth \/ d = depth + 1)
  BY <1>2, <1>3 DEF Entered
<1>6. stack \in Seq(BOOLEAN) /\ Len(stack) = d + 1
  <2>1. CASE d = depth
    BY <1>2, <1>3, <2>1
  <2>2. CASE d # depth
    <3>1. stack = Append(isLast, Head(work).last) /\ d = depth + 1
      BY <1>3, <1>5, <2>2
    <3>2. Append(isLast, Head(work).last) \in Seq(BOOLEAN)
          /\ Len(Append(isLast, Head(work).last)) = Len(isLast) + 1
      BY <1>2, <1>4
    <3> QED BY <1>2, <3>1, <3>2
  <2> QED BY <2>1, <2>2
<1>7. CASE FlagsUsed(d, Last(stack)) \subseteq Flag
  <2>1. /\ depthFlag' = [i \in Flag |-> IF Last(stack) /\ i = d THEN FALSE ELSE depthFlag[i]]
        /\ depth' = d /\ isLast' = stack
        /\ work' = Children(a) \o <<Close(a)>> \o Tail(work) /\ print' = print
    BY <1>3, <1>7 DEF PrintNode
  <2>2. depthFlag' \in [Flag -> BOOLEAN]
    <3>1. \A i \in Flag : depthFlag[i] \in BOOLEAN
      BY <1>2
    <3> QED BY <2>1, <3>1
  <2>3. work' \in Seq(WorkItem')
    BY <1>2, <1>4, <2>1
  <2> QED BY <1>1, <1>2, <1>5, <1>6, <2>1, <2>2, <2>3 DEF PrintInv
<1>8. CASE ~(FlagsUsed(d, Last(stack)) \subseteq Flag)
  <2>1. print' = "asserted" /\ UNCHANGED <<lines, depthFlag, depth, isLast, work>>
    BY <1>3, <1>8 DEF PrintNode
  <2> QED BY <1>1, <1>2, <2>1 DEF PrintInv
<1> QED BY <1>7, <1>8

LEMMA CloseStep ==
  ASSUME BuildInv, PrintInv, CloseNode
  PROVE  PrintInv'
<1>1. /\ print = "printing" /\ work # <<>>
      /\ UNCHANGED bvars /\ ast' = ast /\ build' = build
  BY DEF CloseNode, AtWork, bvars
<1>2. WorkItem' = WorkItem /\ work \in Seq(WorkItem) /\ depth \in Nat /\ isLast \in Seq(BOOLEAN)
      /\ Len(isLast) = depth + 1 /\ depthFlag \in [Flag -> BOOLEAN] /\ build = "built"
  BY <1>1 DEF WorkItem, PrintInv
<1>3. CASE depth \in Flag
  <2>1. /\ depthFlag' = Reset(depthFlag, depth)
        /\ depth' = IF depth = 0 THEN 0 ELSE depth - 1
        /\ isLast' = IF depth = 0 THEN isLast ELSE Front(isLast)
        /\ work' = Tail(work)
        /\ print' = IF depth = 0 THEN "printed" ELSE print
    BY <1>3 DEF CloseNode, Pop
  <2>2. depthFlag' \in [Flag -> BOOLEAN]
    BY <1>2, <2>1 DEF Reset
  <2>3. work' \in Seq(WorkItem')
    BY <1>1, <1>2, <2>1
  <2>4. isLast # <<>>
    BY <1>2
  <2>5. Front(isLast) \in Seq(BOOLEAN) /\ Len(Front(isLast)) = depth
    BY <1>2, <2>4, LastOf
  <2>6. depth' \in Nat /\ isLast' \in Seq(BOOLEAN) /\ Len(isLast') = depth' + 1
    BY <1>2, <2>1, <2>5
  <2> QED BY <1>1, <1>2, <2>1, <2>2, <2>3, <2>6 DEF PrintInv
<1>4. CASE depth \notin Flag
  <2>1. print' = "asserted" /\ UNCHANGED <<lines, depthFlag, depth, isLast, work>>
    BY <1>4 DEF CloseNode
  <2> QED BY <1>1, <1>2, <2>1 DEF PrintInv
<1> QED BY <1>3, <1>4

LEMMA PrintInvariance == PSpec => []PrintInv
<1>1. PInit => PrintInv
  BY PrintInit
<1>2. BuildInv /\ PrintInv /\ [PNext]_allvars => PrintInv'
  <2> SUFFICES ASSUME BuildInv, PrintInv, [PNext]_allvars PROVE PrintInv'
    OBVIOUS
  <2>1. ASSUME Build PROVE PrintInv'
    <3>1. build = "visiting" /\ UNCHANGED pvars
      BY <2>1 DEF Build, BNext, VisitNode, VisitNull, KeepField, DropField, MakeNode, MakeFor, MakeIf,
                  MakeObject, At
    <3>2. print = "waiting" /\ work = <<>> /\ work' = <<>>
      BY <3>1 DEF PrintInv, pvars
    <3> QED BY <3>1, <3>2 DEF PrintInv, pvars
  <2>2. CASE UNCHANGED allvars
    BY <2>2, PrintStays DEF allvars, bvars, pvars
  <2> QED BY <2>1, <2>2, StartStep, PrintStep, CloseStep DEF PNext
<1> QED BY <1>1, <1>2, BuildInvariance, PTL DEF PSpec

\* PTypeOK: a node has older nodes for children, and the stack of Scopes is as
\* high as the line is deep.
THEOREM PrinterTypeCorrect == PSpec => []PTypeOK
<1>1. BuildInv /\ PrintInv => PTypeOK
  <2> SUFFICES ASSUME BuildInv, PrintInv PROVE PTypeOK
    OBVIOUS
  <2>1. NodesInv /\ tree \in Trees /\ build \in {"visiting", "built", "crashed"}
    BY DEF BuildInv
  <2>2. ASSUME NEW a \in DOMAIN ast
        PROVE  ast[a].kind \in Kind /\ ast[a].of \in DOMAIN tree /\ Items(ast[a].parts) \subseteq 1..(a - 1)
    <3>1. ast[a] \in SynNode(a - 1) /\ a - 1 \in Nat
      BY <2>1 DEF NodesInv
    <3> QED BY <2>1, <3>1, SynNodeType
  <2> QED BY <2>1, <2>2 DEF PTypeOK, NodesInv, PrintInv
<1> QED BY <1>1, BuildInvariance, PrintInvariance, PTL

-----------------------------------------------------------------------------
(* The program declaration is the last node of all, and the only one of    *)
(* its kind: the visit of any other node enters a Scope.                   *)

ProgramInv ==
  /\ build # "built" => \A a \in DOMAIN ast : ast[a].kind # "Program"
  /\ build = "built" => /\ value[Root] = Len(ast)
                        /\ \A a \in DOMAIN ast : ast[a].kind = "Program" <=> a = Len(ast)

LEMMA ProgramMade ==
  ASSUME BuildInv, ProgramInv, NEW v, NEW nodes, IsMade(v, nodes)
  PROVE  ProgramInv'
<1>1. /\ At("make") /\ build = "visiting" /\ ast' = ast \o nodes
      /\ value' = [n \in DOMAIN value \union {Here} |-> IF n = Here THEN v ELSE value[n]]
      /\ build' = IF Here = Root THEN "built" ELSE build
  BY DEF IsMade, Returns, At
<1>2. PICK a, m, c : a = ast /\ m = Len(a) /\ c = Len(nodes)
  OBVIOUS
<1>3. a \in Seq(AnyNode) /\ nodes \in Seq(AnyNode)
  BY <1>2 DEF IsMade, BuildInv, NodesInv
<1>4. PICK b : b = a \o nodes
  OBVIOUS
<1>5. /\ DOMAIN a = 1..m /\ m \in Nat /\ c \in Nat /\ DOMAIN nodes = 1..c
      /\ DOMAIN b = 1..(m + c) /\ Len(b) = m + c
      /\ \A q \in 1..m : b[q] = a[q]
      /\ \A q \in 1..c : b[m + q] = nodes[q]
  BY <1>2, <1>3, <1>4, Joined
<1>6. \A q \in 1..m : b[q].kind # "Program"
  BY <1>1, <1>2, <1>5 DEF ProgramInv
<1>7. \A q \in 1..(m + c) : q \in 1..m \/ (q - m \in 1..c /\ b[q] = nodes[q - m])
  <2> TAKE q \in 1..(m + c)
  <2>1. CASE q \notin 1..m
    <3>1. q - m \in 1..c /\ m + (q - m) = q
      BY <1>5, <2>1
    <3> QED BY <1>5, <3>1
  <2> QED BY <2>1
<1>8. ast' = b
  BY <1>1, <1>2, <1>4
<1>9. CASE Here # Root
  <2>1. \A j \in DOMAIN nodes : nodes[j].kind # "Program"
    BY <1>9 DEF IsMade
  <2>2. \A q \in DOMAIN b : b[q].kind # "Program"
    BY <1>5, <1>6, <1>7, <2>1
  <2>3. build' # "built"
    BY <1>1, <1>9
  <2> QED BY <1>8, <2>2, <2>3 DEF ProgramInv
<1>10. CASE Here = Root
  <2>1. v = m + 1 /\ c = 1 /\ nodes[1].kind = "Program"
    BY <1>2, <1>10 DEF IsMade
  <2>2. build' = "built" /\ value'[Root] = m + 1
    BY <1>1, <1>10, <2>1
  <2>3. ASSUME NEW q \in DOMAIN b PROVE b[q].kind = "Program" <=> q = m + 1
    <3>1. CASE q \in 1..m
      <4>1. q # m + 1
        BY <1>5, <3>1
      <4> QED BY <1>6, <3>1, <4>1
    <3>2. CASE q \notin 1..m
      <4>1. q - m \in 1..1 /\ b[q] = nodes[q - m]
        BY <1>5, <1>7, <2>1, <3>2
      <4>2. q - m = 1 /\ q = m + 1
        BY <1>5, <2>1, <4>1
      <4> QED BY <2>1, <4>1, <4>2
    <3> QED BY <3>1, <3>2
  <2>4. Len(b) = m + 1
    BY <1>5, <2>1
  <2> QED BY <1>8, <2>2, <2>3, <2>4 DEF ProgramInv
<1> QED BY <1>9, <1>10

LEMMA ProgramInvariance == PSpec => []ProgramInv
<1>1. PInit => ProgramInv
  BY DEF PInit, BInit, ProgramInv
<1>2. BuildInv /\ ProgramInv /\ [PNext]_allvars => ProgramInv'
  <2> SUFFICES ASSUME BuildInv, ProgramInv, [PNext]_allvars PROVE ProgramInv'
    OBVIOUS
  <2>1. ASSUME UNCHANGED <<value, ast>>, build' = build \/ (build = "visiting" /\ build' = "crashed")
        PROVE  ProgramInv'
    BY <2>1 DEF ProgramInv
  <2>2. ASSUME BNext PROVE ProgramInv'
    <3>1. ASSUME MakeNode \/ MakeFor \/ MakeIf \/ MakeObject PROVE ProgramInv'
      <4>1. PICK v, nodes : IsMade(v, nodes)
        BY <3>1, MakeNodeStep, MakeForStep, MakeIfStep, MakeObjectStep
      <4> QED BY <4>1, ProgramMade
    <3>2. ASSUME VisitNode \/ VisitNull \/ KeepField \/ DropField PROVE ProgramInv'
      <4>1. UNCHANGED <<value, ast>> /\ (build' = build \/ (build = "visiting" /\ build' = "crashed"))
        BY <3>2 DEF VisitNode, VisitNull, KeepField, DropField, At
      <4> QED BY <2>1, <4>1
    <3> QED BY <2>2, <3>1, <3>2 DEF BNext
  <2>3. ASSUME UNCHANGED bvars PROVE ProgramInv'
    BY <2>1, <2>3 DEF bvars
  <2>4. BNext \/ UNCHANGED bvars
    BY DEF PNext, Build, StartPrint, PrintNode, CloseNode, allvars
  <2> QED BY <2>2, <2>3, <2>4
<1> QED BY <1>1, <1>2, BuildInvariance, PTL DEF PSpec

-----------------------------------------------------------------------------
(* The nodes at each depth.                                                *)

LEMMA LevelsDefined ==
  ASSUME BuildInv
  PROVE  /\ DOMAIN Levels = 0..Len(ast) /\ Len(ast) \in Nat
         /\ Levels[0] = {value[Root]}
         /\ \A d \in 1..Len(ast) : Levels[d] = UNION {Items(ast[a].parts) : a \in Levels[d - 1]}
<1>1. PICK N : N = Len(ast)
  OBVIOUS
<1>2. N \in Nat
  BY <1>1 DEF BuildInv, NodesInv
<1> DEFINE F(S) == UNION {Items(ast[a].parts) : a \in S}
           Def(f) == f = [d \in 0..Len(ast) |-> IF d = 0 THEN {value[Root]} ELSE F(f[d - 1])]
           Rec(f, k) == \A d \in 0..k : f[d] = IF d = 0 THEN {value[Root]} ELSE F(f[d - 1])
           G == {k \in 0..N : \E f : Rec(f, k)}
<1>3. 0 \in G
  <2>1. PICK w : w = [d \in 0..0 |-> {value[Root]}]
    OBVIOUS
  <2>2. \A d \in 0..0 : d = 0
    OBVIOUS
  <2>3. w[0] = {value[Root]}
    BY <2>1
  <2>4. Rec(w, 0)
    BY <2>2, <2>3
  <2>5. \E f : Rec(f, 0)
    <3> HIDE DEF Rec
    <3> QED BY <2>4
  <2> HIDE DEF Rec
  <2> QED BY <1>2, <2>5
<1>4. ASSUME NEW k \in 0..N, k \in G, k < N PROVE k + 1 \in G
  <2>1. PICK u : Rec(u, k)
    BY <1>4
  <2>2. PICK w : w = [d \in 0..(k + 1) |-> IF d = k + 1 THEN F(u[d - 1]) ELSE u[d]]
    OBVIOUS
  <2> HIDE DEF F
  <2>3. ASSUME NEW d \in 0..(k + 1) PROVE w[d] = IF d = 0 THEN {value[Root]} ELSE F(w[d - 1])
    <3>1. CASE d = k + 1
      <4>1. d # 0 /\ d - 1 \in 0..(k + 1) /\ d - 1 # k + 1
        BY <3>1
      <4>2. w[d - 1] = u[d - 1] /\ w[d] = F(u[d - 1])
        BY <2>2, <3>1, <4>1
      <4> QED BY <4>1, <4>2
    <3>2. CASE d # k + 1
      <4>1. d \in 0..k
        BY <3>2
      <4>2. u[d] = IF d = 0 THEN {value[Root]} ELSE F(u[d - 1])
        BY <2>1, <4>1
      <4>3. w[d] = u[d]
        BY <2>2, <3>2
      <4>4. d # 0 => w[d - 1] = u[d - 1]
        BY <2>2, <4>1
      <4> QED BY <4>2, <4>3, <4>4
    <3> QED BY <3>1, <3>2
  <2>4. Rec(w, k + 1)
    BY <2>3
  <2>5. \E f : Rec(f, k + 1)
    <3> HIDE DEF Rec
    <3> QED BY <2>4
  <2>6. k + 1 \in 0..N
    BY <1>2, <1>4
  <2> HIDE DEF Rec
  <2> QED BY <2>5, <2>6
<1>5. N \in G
  <2> HIDE DEF G
  <2>1. 0..N \subseteq G
    BY <1>2, <1>3, <1>4, CountUp
  <2> QED BY <1>2, <2>1
<1>6. PICK u : Rec(u, N)
  BY <1>5
<1>7. \E f : Def(f)
  <2>1. PICK w : w = [d \in 0..N |-> u[d]]
    OBVIOUS
  <2> HIDE DEF F
  <2>2. ASSUME NEW d \in 0..N PROVE w[d] = IF d = 0 THEN {value[Root]} ELSE F(w[d - 1])
    <3>1. w[d] = u[d] /\ (d # 0 => d - 1 \in 0..N /\ w[d - 1] = u[d - 1])
      BY <1>2, <2>1
    <3>2. u[d] = IF d = 0 THEN {value[Root]} ELSE F(u[d - 1])
      BY <1>6
    <3> QED BY <3>1, <3>2
  <2>3. w = [d \in 0..N |-> IF d = 0 THEN {value[Root]} ELSE F(w[d - 1])]
    BY <2>1, <2>2
  <2>4. Def(w)
    BY <1>1, <2>3
  <2> HIDE DEF Def
  <2> QED BY <2>4
<1>8. PICK f : f = CHOOSE h : Def(h)
  OBVIOUS
<1>9. Def(f)
  <2> HIDE DEF Def
  <2> QED BY <1>7, <1>8
<1>10. Levels = f
  BY <1>8 DEF Levels
<1>11. DOMAIN f = 0..N
  BY <1>1, <1>9
<1>12. f[0] = {value[Root]}
  BY <1>1, <1>2, <1>9
<1>13. ASSUME NEW d \in 1..N PROVE f[d] = F(f[d - 1])
  <2>1. d \in 0..N /\ d # 0
    BY <1>2
  <2> HIDE DEF F
  <2> QED BY <1>1, <1>9, <2>1
<1> QED BY <1>1, <1>2, <1>10, <1>11, <1>12, <1>13

\* A node is that much older than the root as it is deep, at least.
LEMMA LevelsBound ==
  ASSUME BuildInv, ProgramInv, build = "built", NEW d \in DOMAIN Levels, NEW x \in Levels[d]
  PROVE  x \in DOMAIN ast /\ x + d <= Len(ast)
<1>1. PICK N, L : N = Len(ast) /\ L = Levels
  OBVIOUS
<1>2. /\ N \in Nat /\ DOMAIN ast = 1..N /\ tree \in Trees /\ value[Root] = N /\ N \in DOMAIN ast
      /\ \A a \in DOMAIN ast : ast[a] \in SynNode(a - 1)
  BY <1>1 DEF BuildInv, NodesInv, ProgramInv
<1>3. /\ DOMAIN L = 0..N /\ L[0] = {N}
      /\ \A e \in 1..N : L[e] = UNION {Items(ast[a].parts) : a \in L[e - 1]}
  BY <1>1, <1>2, LevelsDefined
<1> DEFINE G == {k \in 0..N : \A y \in L[k] : y \in 1..N /\ y + k <= N}
<1>4. 0 \in G
  BY <1>2, <1>3
<1>5. ASSUME NEW k \in 0..N, k \in G, k < N PROVE k + 1 \in G
  <2>1. k + 1 \in 1..N /\ (k + 1) - 1 = k /\ k + 1 \in 0..N
    BY <1>2, <1>5
  <2>2. ASSUME NEW y \in L[k + 1] PROVE y \in 1..N /\ y + (k + 1) <= N
    <3>1. PICK a \in L[k] : y \in Items(ast[a].parts)
      BY <1>3, <2>1, <2>2
    <3>2. a \in 1..N /\ a + k <= N
      BY <1>5, <3>1
    <3>3. ast[a] \in SynNode(a - 1) /\ a - 1 \in Nat
      BY <1>2, <3>2
    <3>4. y \in 1..(a - 1)
      BY <1>2, <3>1, <3>3, SynNodeType
    <3> QED BY <1>2, <3>2, <3>4
  <2> QED BY <2>1, <2>2
<1>6. 0..N \subseteq G
  <2> HIDE DEF G
  <2> QED BY <1>2, <1>4, <1>5, CountUp
<1> QED BY <1>1, <1>2, <1>3, <1>6

\* The children of a node are one level below it.
LEMMA LevelBelow ==
  ASSUME BuildInv, ProgramInv, build = "built",
         NEW d \in DOMAIN Levels, NEW x \in Levels[d], NEW k \in Items(ast[x].parts)
  PROVE  d + 1 \in DOMAIN Levels /\ k \in Levels[d + 1] /\ k < Len(ast)
<1>1. x \in DOMAIN ast /\ x + d <= Len(ast)
  BY LevelsBound
<1>2. Len(ast) \in Nat /\ DOMAIN Levels = 0..Len(ast) /\ DOMAIN ast = 1..Len(ast)
      /\ ast[x] \in SynNode(x - 1) /\ tree \in Trees
  BY <1>1, LevelsDefined DEF BuildInv, NodesInv
<1>3. x - 1 \in Nat
  BY <1>1, <1>2
<1>4. k \in 1..(x - 1)
  BY <1>2, <1>3, SynNodeType
<1>5. d + 1 \in 1..Len(ast) /\ (d + 1) - 1 = d /\ k < Len(ast)
  BY <1>1, <1>2, <1>4
<1>6. Levels[d + 1] = UNION {Items(ast[a].parts) : a \in Levels[d]}
  BY <1>5, LevelsDefined
<1> QED BY <1>2, <1>5, <1>6

-----------------------------------------------------------------------------
(* How deep the items of work are.                                         *)

Line == [node : DOMAIN ast, depth : Nat, last : BOOLEAN,
         bars : UNION {[1..m -> BOOLEAN] : m \in Int}]

\* g[i] is the depth of the i-th item of w: only the root has none, a node is
\* as deep as its next sibling, and one deeper than the node that closes next.
DepthsOK(w, g) ==
  /\ g \in [DOMAIN w -> Nat]
  /\ \A i \in DOMAIN w :
       /\ g[i] \in DOMAIN Levels /\ w[i].node \in Levels[g[i]]
       /\ g[i] = 0 <=> w[i].node = value[Root]
       /\ w[i].op = "open" /\ g[i] = 0 => i = 1
  /\ \A i \in DOMAIN w, j \in DOMAIN w :
       j = i + 1 => g[j] = IF w[j].op = "open" THEN g[i] ELSE g[i] - 1

HasLine(ls, x, d) == \E i \in DOMAIN ls : ls[i].node = x /\ ls[i].depth = d

HasItem(w, g, op, d) == {w[i].node : i \in {j \in DOMAIN w : w[j].op = op /\ g[j] = d}}

\* Each node has its line, or will have; and is not closed beyond the array.
Covered(w, ls, g) ==
  /\ HasLine(ls, value[Root], 0) \/ value[Root] \in HasItem(w, g, "open", 0)
  /\ \A i \in DOMAIN ls : \A k \in Items(ast[ls[i].node].parts) :
       HasLine(ls, k, ls[i].depth + 1) \/ k \in HasItem(w, g, "open", ls[i].depth + 1)
  /\ \A i \in DOMAIN ls : ls[i].depth < FlagCount \/ HasItem(w, g, "close", ls[i].depth) # {}

\* The depth of the printer, from the first item.
AtDepth(w, dep, g) ==
  w # <<>> => dep = IF Head(w).op = "close" THEN g[1] ELSE IF g[1] = 0 THEN 0 ELSE g[1] - 1

Walk(w, ls, dep, g) == DepthsOK(w, g) /\ Covered(w, ls, g) /\ AtDepth(w, dep, g)

IsWalk(w, ls, dep) == \E g : Walk(w, ls, dep, g)

LEMMA Beginning ==
  ASSUME BuildInv, ProgramInv, build = "built", NEW w, w = <<Open(value[Root], FALSE)>>
  PROVE  \E g : Walk(w, <<>>, 0, g)
<1>1. PICK x, ls : x = Open(value[Root], FALSE) /\ ls = <<>>
  OBVIOUS
<1>2. w = <<x>> /\ x.op = "open" /\ x.node = value[Root]
  BY <1>1 DEF Open
<1>3. DOMAIN w = {1} /\ w[1] = x /\ Head(w) = x /\ DOMAIN ls = {}
  <2>1. ASSUME NEW y PROVE Len(<<y>>) = 1 /\ <<y>>[1] = y /\ Head(<<y>>) = y /\ <<y>> \in Seq({y})
    OBVIOUS
  <2>2. /\ Len(w) = 1 /\ w[1] = x /\ Head(w) = x
        /\ w \in Seq({x})
    <3> HIDE DEF Open
    <3> QED BY ONLY <1>2, <2>1
  <2>3. DOMAIN w = 1..Len(w)
    BY <2>2
  <2>4. DOMAIN ls = {}
    BY <1>1
  <2>5. 1..1 = {1}
    OBVIOUS
  <2> QED BY <2>2, <2>3, <2>4, <2>5
<1>4. PICK g : g = [i \in {1} |-> 0]
  OBVIOUS
<1>5. g[1] = 0 /\ g \in [DOMAIN w -> Nat]
  BY <1>3, <1>4
<1>6. 0 \in DOMAIN Levels /\ value[Root] \in Levels[0]
  BY LevelsDefined
<1>7. DepthsOK(w, g)
  BY <1>2, <1>3, <1>5, <1>6 DEF DepthsOK
<1>8. Covered(w, ls, g)
  BY <1>2, <1>3, <1>5 DEF Covered, HasItem
<1>9. AtDepth(w, 0, g)
  BY <1>2, <1>3, <1>5 DEF AtDepth
<1> QED BY <1>1, <1>7, <1>8, <1>9 DEF Walk

\* How deep the node is that is printed next.
LEMMA NextDepth ==
  ASSUME BuildInv, ProgramInv, build = "built", NEW w \in Seq(WorkItem), w # <<>>, Head(w).op = "open",
         NEW ls, NEW dep, NEW g, Walk(w, ls, dep, g),
         NEW a, a = Head(w).node, NEW d, d = IF ast[a].kind = "Program" THEN dep ELSE dep + 1
  PROVE  a \in DOMAIN ast /\ d = g[1] /\ d \in Nat /\ d \in DOMAIN Levels /\ a \in Levels[d]
<1>1. 1 \in DOMAIN w /\ Head(w) = w[1] /\ a \in DOMAIN ast /\ Head(w) \in WorkItem
  <2>1. 1 \in DOMAIN w /\ Head(w) = w[1] /\ Head(w) \in WorkItem
    OBVIOUS
  <2> QED BY <2>1 DEF WorkItem
<1>2. DepthsOK(w, g) /\ AtDepth(w, dep, g)
  BY DEF Walk
<1>3. value[Root] = Len(ast) /\ (ast[a].kind = "Program" <=> a = value[Root])
  BY <1>1 DEF ProgramInv
<1>4. g[1] \in Nat /\ g[1] \in DOMAIN Levels /\ a \in Levels[g[1]] /\ (g[1] = 0 <=> a = value[Root])
  BY <1>1, <1>2 DEF DepthsOK
<1>5. d = g[1]
  <2>1. dep = IF g[1] = 0 THEN 0 ELSE g[1] - 1
    BY <1>1, <1>2 DEF AtDepth
  <2> QED BY <1>3, <1>4, <2>1
<1> QED BY <1>1, <1>4, <1>5

\* Opening puts the n children of node a, which are one deeper than it, and its
\* end in front of the rest of the work.
IsOpened(w, g, u, h, a, d, n) ==
  /\ n \in Nat /\ DOMAIN Children(a) = 1..n
  /\ \A i \in 1..n : /\ i \in DOMAIN u /\ u[i] = Children(a)[i] /\ h[i] = d + 1
                     /\ u[i].op = "open" /\ u[i].node \in Items(ast[a].parts)
  /\ n + 1 \in DOMAIN u /\ u[n + 1] = Close(a) /\ h[n + 1] = d
  /\ \A j \in DOMAIN w : j > 1 => n + j \in DOMAIN u /\ u[n + j] = w[j] /\ h[n + j] = g[j]
  /\ \A i \in DOMAIN u : i \in 1..n \/ i = n + 1 \/ \E j \in DOMAIN w : j > 1 /\ i = n + j

LEMMA Opening ==
  ASSUME BuildInv, ProgramInv, build = "built", NEW w \in Seq(WorkItem), w # <<>>, Head(w).op = "open",
         NEW ls \in Seq(Line), NEW dep, NEW g, Walk(w, ls, dep, g),
         NEW a, a = Head(w).node, NEW d, d = IF ast[a].kind = "Program" THEN dep ELSE dep + 1,
         NEW line \in Line, line.node = a, line.depth = d, NEW m, m = Append(ls, line),
         NEW u, u = Children(a) \o <<Close(a)>> \o Tail(w)
  PROVE  \E h, n : Walk(u, m, d, h) /\ IsOpened(w, g, u, h, a, d, n)
<1>1. 1 \in DOMAIN w /\ Head(w) = w[1] /\ a \in DOMAIN ast
  BY NextDepth
<1>2. DepthsOK(w, g) /\ Covered(w, ls, g)
  BY DEF Walk
<1>3. value[Root] = Len(ast)
  BY DEF ProgramInv
<1>4. g[1] = 0 <=> a = value[Root]
  BY <1>1, <1>2 DEF DepthsOK
<1>5. d = g[1] /\ d \in Nat /\ d \in DOMAIN Levels /\ a \in Levels[d]
  BY NextDepth
<1>6. PICK c, f, K, n : c = Children(a) /\ f = c \o <<Close(a)>> /\ K = Len(f) /\ n = Len(c)
  OBVIOUS
<1>7. PICK X : X = [op : {"open"}, node : Items(ast[a].parts), last : BOOLEAN]
  OBVIOUS
<1>8. /\ c \in Seq(X)
      /\ \A k \in Items(ast[a].parts) : \E i \in DOMAIN c : c[i].node = k
  BY <1>1, <1>6, <1>7, ChildrenType
<1>9. /\ f \in Seq(WorkItem) /\ u \in Seq(WorkItem) /\ u = f \o Tail(w)
  BY <1>1, <1>6, OpenedWork
<1>10. /\ n \in Nat /\ K = n + 1 /\ DOMAIN c = 1..n
       /\ \A q \in 1..n : f[q] = c[q]
       /\ f[K] = Close(a)
  BY <1>6, <1>8
<1>11. IsReplaced(w, f, u, K)
  BY <1>6, <1>9, Replaced
<1>12. /\ DOMAIN w = 1..Len(w) /\ Len(w) \in Nat
       /\ \A i \in 1..K : i \in DOMAIN u /\ u[i] = f[i]
       /\ \A i \in DOMAIN u :
            i \in Nat /\ (i \in 1..K \/ \E j \in DOMAIN w : j > 1 /\ i = K + j - 1 /\ u[i] = w[j])
       /\ \A j \in DOMAIN w : j > 1 => K + j - 1 \in DOMAIN u /\ u[K + j - 1] = w[j]
  BY <1>11 DEF IsReplaced
<1>13. ASSUME NEW i \in 1..n
       PROVE  i \in DOMAIN u /\ u[i].op = "open" /\ u[i].node \in Items(ast[a].parts) /\ u[i] = c[i]
  <2>1. i \in 1..K /\ c[i] \in X
    BY <1>8, <1>10
  <2> QED BY <1>7, <1>10, <1>12, <2>1
<1>14. K \in DOMAIN u /\ u[K].op = "close" /\ u[K].node = a /\ K \in Nat /\ K > 0
  <2>1. K \in 1..K /\ K \in Nat /\ K > 0
    BY <1>10
  <2>2. Close(a).op = "close" /\ Close(a).node = a
    BY DEF Close
  <2>3. K \in DOMAIN u /\ u[K] = f[K]
    BY <1>12, <2>1
  <2> QED BY <1>10, <2>1, <2>2, <2>3
<1>15. \A i \in DOMAIN u : i \in 1..n \/ i = K \/ \E j \in DOMAIN w : j > 1 /\ i = K + j - 1 /\ u[i] = w[j]
  <2>1. \A i \in 1..K : i \in 1..n \/ i = K
    BY <1>10
  <2> QED BY <1>12, <2>1
<1>16. PICK h : h = [i \in DOMAIN u |-> IF i < K THEN d + 1 ELSE IF i = K THEN d ELSE g[i - K + 1]]
  OBVIOUS
<1>17. /\ \A i \in 1..n : h[i] = d + 1
       /\ h[K] = d
       /\ \A j \in DOMAIN w : j > 1 => h[K + j - 1] = g[j]
  <2>1. \A i \in 1..n : i < K
    BY <1>10
  <2>2. ASSUME NEW j \in DOMAIN w, j > 1 PROVE h[K + j - 1] = g[j]
    <3>0. j \in Nat
      <4>1. j \in 1..Len(w)
        BY <1>12, <2>2
      <4> QED BY <4>1
    <3>1. j \in Nat /\ K \in Nat /\ K + j - 1 \in DOMAIN u
      BY <1>12, <1>14, <2>2, <3>0
    <3>2. ~(K + j - 1 < K) /\ K + j - 1 # K /\ (K + j - 1) - K + 1 = j
      BY <2>2, <3>1
    <3> QED BY <1>16, <3>1, <3>2
  <2>3. ~(K < K)
    BY <1>14
  <2> QED BY <1>13, <1>14, <1>16, <2>1, <2>2, <2>3
<1>18. d \in Nat /\ d \in DOMAIN Levels /\ a \in Levels[d] /\ (d = 0 <=> a = value[Root])
  BY <1>4, <1>5
<1>19. \A k \in Items(ast[a].parts) :
         d + 1 \in DOMAIN Levels /\ k \in Levels[d + 1] /\ k # value[Root]
  <2> TAKE k \in Items(ast[a].parts)
  <2>1. d + 1 \in DOMAIN Levels /\ k \in Levels[d + 1] /\ k < Len(ast)
    BY <1>18, LevelBelow
  <2>2. k \in DOMAIN ast
    BY <2>1, LevelsBound
  <2>3. Len(ast) \in Nat /\ k \in Nat
    BY <2>2 DEF BuildInv, NodesInv
  <2>4. k # Len(ast)
    BY <2>1, <2>3
  <2> QED BY <1>3, <2>1, <2>4
<1>20. ASSUME NEW i \in DOMAIN u
       PROVE  /\ h[i] \in Nat
              /\ h[i] \in DOMAIN Levels /\ u[i].node \in Levels[h[i]]
              /\ h[i] = 0 <=> u[i].node = value[Root]
              /\ u[i].op = "open" /\ h[i] = 0 => i = 1
  <2>1. CASE i \in 1..n
    <3>1. h[i] = d + 1 /\ d + 1 \in Nat /\ d + 1 # 0
      BY <1>17, <1>18, <2>1
    <3> QED BY <1>13, <1>19, <2>1, <3>1
  <2>2. CASE i = K
    BY <1>14, <1>17, <1>18, <2>2
  <2>3. ASSUME NEW j \in DOMAIN w, j > 1, i = K + j - 1, u[i] = w[j]
        PROVE  /\ h[i] \in Nat
               /\ h[i] \in DOMAIN Levels /\ u[i].node \in Levels[h[i]]
               /\ h[i] = 0 <=> u[i].node = value[Root]
               /\ u[i].op = "open" /\ h[i] = 0 => i = 1
    <3>1. h[i] = g[j]
      BY <1>17, <2>3
    <3>2. j # 1
      <4>1. j \in 1..Len(w)
        BY <1>12
      <4> QED BY <2>3, <4>1
    <3>3. /\ g[j] \in Nat /\ g[j] \in DOMAIN Levels /\ w[j].node \in Levels[g[j]]
          /\ g[j] = 0 <=> w[j].node = value[Root]
          /\ w[j].op = "open" /\ g[j] = 0 => j = 1
      BY <1>2 DEF DepthsOK
    <3> QED BY <2>3, <3>1, <3>2, <3>3
  <2> QED BY <1>15, <2>1, <2>2, <2>3
<1>21. ASSUME NEW i \in DOMAIN u, NEW j \in DOMAIN u, j = i + 1
       PROVE  h[j] = IF u[j].op = "open" THEN h[i] ELSE h[i] - 1
  <2>1. CASE j \in 1..n
    <3>1. i \in 1..n
      BY <1>10, <1>12, <1>15, <1>21, <2>1
    <3> QED BY <1>13, <1>17, <2>1, <3>1
  <2>2. CASE j = K
    <3>1. i \in 1..n
      <4>1. i \in Nat
        BY <1>12
      <4>2. i = n
        BY <1>10, <1>21, <2>2, <4>1
      <4>3. i # 0
        <5>1. \A q \in DOMAIN u : q \in 1..n \/ q = K \/ \E k \in DOMAIN w : k > 1 /\ q = K + k - 1
          BY <1>15
        <5>2. 0 \notin 1..n /\ 0 # K
          BY <1>10
        <5>3. \A k \in DOMAIN w : k \in Nat
          BY <1>12
        <5> QED BY <1>14, <5>1, <5>2, <5>3
      <4> QED BY <4>1, <4>2, <4>3
    <3>2. h[i] = d + 1 /\ h[j] = d
      BY <1>17, <2>2, <3>1
    <3>3. u[j].op # "open"
      BY <1>14, <2>2
    <3>4. (d + 1) - 1 = d
      BY <1>18
    <3> QED BY <3>2, <3>3, <3>4
  <2>3. CASE j \notin 1..n /\ j # K
    <3>1. PICK q \in DOMAIN w : q > 1 /\ j = K + q - 1 /\ u[j] = w[q]
      BY <1>15, <2>3
    <3>2. h[j] = g[q]
      BY <1>17, <3>1
    <3>3. CASE q = 2
      <4>1. i = K /\ h[i] = g[1]
        <5>1. i \in Nat /\ K \in Nat /\ j = i + 1 /\ j = K + 2 - 1
          BY <1>12, <1>14, <1>21, <3>1, <3>3
        <5>2. i = K
          BY <5>1
        <5> QED BY <1>5, <1>17, <5>2
      <4>2. g[2] = IF w[2].op = "open" THEN g[1] ELSE g[1] - 1
        <5>1. 2 \in DOMAIN w /\ 1 \in DOMAIN w /\ 2 = 1 + 1
          BY <1>1, <3>1, <3>3
        <5>2. \A k \in DOMAIN w, j1 \in DOMAIN w :
                j1 = k + 1 => g[j1] = IF w[j1].op = "open" THEN g[k] ELSE g[k] - 1
          BY <1>2 DEF DepthsOK
        <5> QED BY <5>1, <5>2
      <4> QED BY <3>1, <3>2, <3>3, <4>1, <4>2
    <3>4. CASE q # 2
      <4>1. PICK p : p = q - 1
        OBVIOUS
      <4>2. p \in DOMAIN w /\ p > 1 /\ q = p + 1 /\ i = K + p - 1
        <5>1. q \in 1..Len(w) /\ q > 1 /\ q # 2 /\ Len(w) \in Nat
          BY <1>12, <3>1, <3>4
        <5>2. p \in 1..Len(w) /\ p > 1 /\ q = p + 1
          BY <4>1, <5>1
        <5>3. i \in Nat /\ K \in Nat /\ j = i + 1 /\ j = K + q - 1
          BY <1>12, <1>14, <1>21, <3>1
        <5>4. i = K + p - 1
          <6>1. q \in Nat
            BY <5>1
          <6>2. i + 1 = K + q - 1
            BY <5>3
          <6>3. i = K + (q - 1) - 1
            BY ONLY <5>3, <6>1, <6>2
          <6> QED BY <4>1, <6>3
        <5> QED BY <1>12, <5>2, <5>4
      <4>3. h[i] = g[p] /\ g[q] = IF w[q].op = "open" THEN g[p] ELSE g[p] - 1
        BY <1>2, <1>17, <4>2 DEF DepthsOK
      <4> QED BY <3>1, <3>2, <4>3
    <3> QED BY <3>3, <3>4
  <2> QED BY <2>1, <2>2, <2>3
<1>22. DepthsOK(u, h)
  <2>1. h \in [DOMAIN u -> Nat]
    BY <1>16, <1>20
  <2> QED BY <1>20, <1>21, <2>1 DEF DepthsOK
<1>23. AtDepth(u, d, h)
  <2>1. 1 \in DOMAIN u /\ Head(u) = u[1]
    <3>1. 1 \in 1..K
      BY <1>14
    <3>2. 1 \in DOMAIN u
      BY <1>12, <3>1
    <3> QED BY <1>9, <3>2
  <2>2. CASE n = 0
    <3>1. K = 1
      BY <1>10, <2>2
    <3> QED BY <1>14, <1>17, <2>1, <3>1 DEF AtDepth
  <2>3. CASE n # 0
    <3>1. 1 \in 1..n
      BY <1>10, <2>3
    <3>2. h[1] = d + 1 /\ u[1].op = "open"
      BY <1>13, <1>17, <3>1
    <3>3. d + 1 # 0 /\ (d + 1) - 1 = d
      BY <1>18
    <3> QED BY <2>1, <3>2, <3>3 DEF AtDepth
  <2> QED BY <2>2, <2>3
<1>25. /\ DOMAIN m = DOMAIN ls \union {Len(ls) + 1} /\ m[Len(ls) + 1] = line
       /\ \A i \in DOMAIN ls : m[i] = ls[i]
  OBVIOUS
<1>26. \A x, e : HasLine(m, x, e) <=> HasLine(ls, x, e) \/ (x = a /\ e = d)
  BY <1>25 DEF HasLine
<1>27. ASSUME NEW op, NEW e, NEW x \in HasItem(w, g, op, e)
       PROVE  x \in HasItem(u, h, op, e) \/ (op = "open" /\ x = a /\ e = d)
  <2>1. PICK j \in DOMAIN w : w[j].op = op /\ g[j] = e /\ w[j].node = x
    BY <1>27 DEF HasItem
  <2>2. CASE j = 1
    BY <1>1, <1>5, <2>1, <2>2
  <2>3. CASE j # 1
    <3>1. j > 1
      BY <1>12, <2>3
    <3>2. K + j - 1 \in DOMAIN u /\ u[K + j - 1] = w[j] /\ h[K + j - 1] = g[j]
      BY <1>12, <1>17, <3>1
    <3> QED BY <2>1, <3>2 DEF HasItem
  <2> QED BY <2>2, <2>3
<1>28. \A k \in Items(ast[a].parts) : k \in HasItem(u, h, "open", d + 1)
  <2> TAKE k \in Items(ast[a].parts)
  <2>1. PICK i \in 1..n : c[i].node = k
    BY <1>8, <1>10
  <2> QED BY <1>13, <1>17, <2>1 DEF HasItem
<1>29. HasItem(u, h, "close", d) # {}
  BY <1>14, <1>17 DEF HasItem
<1>30. Covered(u, m, h)
  <2>1. HasLine(m, value[Root], 0) \/ value[Root] \in HasItem(u, h, "open", 0)
    BY <1>2, <1>26, <1>27 DEF Covered
  <2>2. ASSUME NEW i \in DOMAIN m, NEW k \in Items(ast[m[i].node].parts)
        PROVE  HasLine(m, k, m[i].depth + 1) \/ k \in HasItem(u, h, "open", m[i].depth + 1)
    <3>1. CASE i \in DOMAIN ls
      <4>1. HasLine(ls, k, ls[i].depth + 1) \/ k \in HasItem(w, g, "open", ls[i].depth + 1)
        BY <1>2, <1>25, <2>2, <3>1 DEF Covered
      <4> QED BY <1>25, <1>26, <1>27, <3>1, <4>1
    <3>2. CASE i \notin DOMAIN ls
      BY <1>25, <1>28, <2>2, <3>2
    <3> QED BY <3>1, <3>2
  <2>3. ASSUME NEW i \in DOMAIN m
        PROVE  m[i].depth < FlagCount \/ HasItem(u, h, "close", m[i].depth) # {}
    <3>1. CASE i \in DOMAIN ls
      <4>1. ls[i].depth < FlagCount \/ HasItem(w, g, "close", ls[i].depth) # {}
        BY <1>2, <3>1 DEF Covered
      <4> QED BY <1>25, <1>27, <3>1, <4>1
    <3>2. CASE i \notin DOMAIN ls
      BY <1>25, <1>29, <2>3, <3>2
    <3> QED BY <3>1, <3>2
  <2> QED BY <2>1, <2>2, <2>3 DEF Covered
<1>31. IsOpened(w, g, u, h, a, d, n)
  <2>1. n \in Nat /\ DOMAIN Children(a) = 1..n /\ K = n + 1
    BY <1>6, <1>10
  <2>2. n + 1 \in DOMAIN u /\ u[n + 1] = Close(a) /\ h[n + 1] = d
    <3>1. K \in 1..K
      BY <1>14
    <3> QED BY <1>10, <1>12, <1>17, <2>1, <3>1
  <2>3. ASSUME NEW j \in DOMAIN w PROVE j \in Nat /\ K + j - 1 = n + j
    <3>1. j \in Nat
      BY <1>12
    <3> QED BY <2>1, <3>1
  <2>4. \A j \in DOMAIN w : j > 1 => n + j \in DOMAIN u /\ u[n + j] = w[j] /\ h[n + j] = g[j]
    BY <1>12, <1>17, <2>3
  <2>5. \A i \in DOMAIN u : i \in 1..n \/ i = n + 1 \/ \E j \in DOMAIN w : j > 1 /\ i = n + j
    BY <1>15, <2>1, <2>3
  <2>6. \A i \in 1..n : /\ i \in DOMAIN u /\ u[i] = Children(a)[i] /\ h[i] = d + 1
                        /\ u[i].op = "open" /\ u[i].node \in Items(ast[a].parts)
    BY <1>6, <1>13, <1>17
  <2> QED BY ONLY <2>1, <2>2, <2>4, <2>5, <2>6, Zenon DEF IsOpened
<1> QED BY <1>22, <1>23, <1>30, <1>31 DEF Walk

\* Closing leaves the rest of the work at its depths.
IsClosed(w, g, u, h) ==
  /\ \A i \in DOMAIN u : i \in Nat /\ i + 1 \in DOMAIN w /\ u[i] = w[i + 1] /\ h[i] = g[i + 1]
  /\ \A j \in DOMAIN w : j = 1 \/ (j \in Nat /\ j - 1 \in DOMAIN u /\ u[j - 1] = w[j] /\ h[j - 1] = g[j])

LEMMA Closing ==
  ASSUME BuildInv, ProgramInv, build = "built", NEW w \in Seq(WorkItem), w # <<>>, Head(w).op = "close",
         NEW ls \in Seq(Line), NEW dep \in Nat, NEW g, Walk(w, ls, dep, g),
         NEW u, u = Tail(w), NEW e, e = IF dep = 0 THEN 0 ELSE dep - 1
  PROVE  /\ dep \in DOMAIN Levels /\ Levels[dep] # {}
         /\ dep = 0 => u = <<>>
         /\ dep < FlagCount => \E h : Walk(u, ls, e, h) /\ IsClosed(w, g, u, h)
<1>1. 1 \in DOMAIN w /\ Head(w) = w[1]
  OBVIOUS
<1>2. DepthsOK(w, g) /\ Covered(w, ls, g) /\ AtDepth(w, dep, g)
  BY DEF Walk
<1>3. /\ \A i \in DOMAIN w :
           /\ g[i] \in Nat /\ g[i] \in DOMAIN Levels /\ w[i].node \in Levels[g[i]]
           /\ g[i] = 0 <=> w[i].node = value[Root]
           /\ w[i].op = "open" /\ g[i] = 0 => i = 1
      /\ \A i \in DOMAIN w, j \in DOMAIN w :
           j = i + 1 => g[j] = IF w[j].op = "open" THEN g[i] ELSE g[i] - 1
  BY <1>2 DEF DepthsOK
<1>4. dep = g[1]
  BY <1>2 DEF AtDepth
<1>5. dep \in DOMAIN Levels /\ Levels[dep] # {}
  BY <1>1, <1>3, <1>4
<1>6. /\ \A i \in DOMAIN u : i \in Nat /\ i > 0 /\ i + 1 \in DOMAIN w /\ u[i] = w[i + 1]
      /\ \A j \in DOMAIN w : j = 1 \/ (j - 1 \in DOMAIN u /\ (j - 1) + 1 = j)
  <2>1. Len(w) \in Nat /\ DOMAIN w = 1..Len(w) /\ Len(w) > 0
    OBVIOUS
  <2>2. DOMAIN u = 1..(Len(w) - 1) /\ \A i \in 1..(Len(w) - 1) : u[i] = w[i + 1]
    OBVIOUS
  <2>3. PICK N : N = Len(w)
    OBVIOUS
  <2>4. N \in Nat /\ DOMAIN w = 1..N /\ DOMAIN u = 1..(N - 1)
    BY <2>1, <2>2, <2>3
  <2>5. ASSUME NEW i \in 1..(N - 1) PROVE i \in Nat /\ i > 0 /\ i + 1 \in 1..N
    BY <2>4
  <2>6. ASSUME NEW j \in 1..N PROVE j = 1 \/ (j - 1 \in 1..(N - 1) /\ (j - 1) + 1 = j)
    BY <2>4
  <2> QED BY <2>2, <2>3, <2>4, <2>5, <2>6
<1>7. u \in Seq(WorkItem)
  OBVIOUS
<1>8. u # <<>> =>
        /\ 1 \in DOMAIN u /\ Head(u) = u[1] /\ u[1] = w[2]
        /\ g[2] \in Nat /\ g[2] = IF w[2].op = "open" THEN dep ELSE dep - 1
        /\ w[2].op = "open" => dep # 0
  <2> SUFFICES ASSUME u # <<>>
               PROVE  /\ 1 \in DOMAIN u /\ Head(u) = u[1] /\ u[1] = w[2]
                      /\ g[2] \in Nat /\ g[2] = IF w[2].op = "open" THEN dep ELSE dep - 1
                      /\ w[2].op = "open" => dep # 0
    OBVIOUS
  <2>1. 1 \in DOMAIN u /\ Head(u) = u[1]
    BY <1>7
  <2>2. 2 \in DOMAIN w /\ 2 = 1 + 1 /\ 2 # 1 /\ u[1] = w[2]
    BY <1>6, <2>1
  <2>3. g[2] = IF w[2].op = "open" THEN g[1] ELSE g[1] - 1
    BY <1>1, <1>3, <2>2
  <2>4. g[2] \in Nat /\ ~(w[2].op = "open" /\ g[2] = 0)
    BY <1>3, <2>2
  <2> QED BY <1>4, <2>1, <2>2, <2>3, <2>4
<1>9. dep = 0 => u = <<>>
  BY <1>8
<1>11. PICK h : h = [i \in DOMAIN u |-> g[i + 1]]
  OBVIOUS
<1>12. \A i \in DOMAIN u : h[i] = g[i + 1]
  BY <1>11
<1>13. DepthsOK(u, h)
  <2>1. ASSUME NEW i \in DOMAIN u
        PROVE  /\ h[i] \in Nat /\ h[i] \in DOMAIN Levels /\ u[i].node \in Levels[h[i]]
               /\ h[i] = 0 <=> u[i].node = value[Root]
               /\ ~(u[i].op = "open" /\ h[i] = 0)
    <3>1. i + 1 \in DOMAIN w /\ i + 1 # 1 /\ u[i] = w[i + 1] /\ h[i] = g[i + 1]
      BY <1>6, <1>12
    <3> QED BY <1>3, <3>1
  <2>2. ASSUME NEW i \in DOMAIN u, NEW j \in DOMAIN u, j = i + 1
        PROVE  h[j] = IF u[j].op = "open" THEN h[i] ELSE h[i] - 1
    <3>1. /\ i + 1 \in DOMAIN w /\ u[i] = w[i + 1] /\ h[i] = g[i + 1]
          /\ j + 1 \in DOMAIN w /\ u[j] = w[j + 1] /\ h[j] = g[j + 1]
      BY <1>6, <1>12
    <3>2. j + 1 = (i + 1) + 1
      BY <2>2
    <3> QED BY <1>3, <3>1, <3>2
  <2>3. h \in [DOMAIN u -> Nat]
    BY <1>11, <2>1
  <2> QED BY <2>1, <2>2, <2>3 DEF DepthsOK
<1>14. AtDepth(u, e, h)
  <2> SUFFICES ASSUME u # <<>>
               PROVE  e = IF Head(u).op = "close" THEN h[1] ELSE IF h[1] = 0 THEN 0 ELSE h[1] - 1
    BY DEF AtDepth
  <2>1. /\ 1 \in DOMAIN u /\ Head(u) = u[1] /\ u[1] = w[2]
        /\ g[2] \in Nat /\ g[2] = IF w[2].op = "open" THEN dep ELSE dep - 1
        /\ w[2].op = "open" => dep # 0
    BY <1>8
  <2>2. h[1] = g[2]
    BY <1>12, <2>1
  <2>3. CASE w[2].op = "open"
    BY <2>1, <2>2, <2>3
  <2>4. CASE w[2].op # "open"
    <3>1. u[1] \in WorkItem
      BY <1>7, <2>1
    <3>2. w[2].op = "close"
      BY <2>1, <2>4, <3>1 DEF WorkItem
    <3> QED BY <2>1, <2>2, <3>2
  <2> QED BY <2>3, <2>4
<1>15. ASSUME NEW op, NEW d, NEW x \in HasItem(w, g, op, d)
       PROVE  x \in HasItem(u, h, op, d) \/ (op = "close" /\ d = dep)
  <2>1. PICK j \in DOMAIN w : w[j].op = op /\ g[j] = d /\ w[j].node = x
    BY <1>15 DEF HasItem
  <2>2. CASE j = 1
    BY <1>1, <1>4, <2>1, <2>2
  <2>3. CASE j # 1
    <3>1. PICK i : i = j - 1
      OBVIOUS
    <3>2. i \in DOMAIN u /\ i + 1 = j
      BY <1>6, <2>3, <3>1
    <3>3. u[i] = w[j] /\ h[i] = g[j]
      BY <1>6, <1>12, <3>2
    <3> QED BY <2>1, <3>2, <3>3 DEF HasItem
  <2> QED BY <2>2, <2>3
<1>16. ASSUME dep < FlagCount PROVE Covered(u, ls, h)
  <2>1. HasLine(ls, value[Root], 0) \/ value[Root] \in HasItem(u, h, "open", 0)
    BY <1>2, <1>15 DEF Covered
  <2>2. ASSUME NEW i \in DOMAIN ls, NEW k \in Items(ast[ls[i].node].parts)
        PROVE  HasLine(ls, k, ls[i].depth + 1) \/ k \in HasItem(u, h, "open", ls[i].depth + 1)
    <3>1. HasLine(ls, k, ls[i].depth + 1) \/ k \in HasItem(w, g, "open", ls[i].depth + 1)
      BY <1>2, <2>2 DEF Covered
    <3> QED BY <1>15, <3>1
  <2>3. ASSUME NEW i \in DOMAIN ls
        PROVE  ls[i].depth < FlagCount \/ HasItem(u, h, "close", ls[i].depth) # {}
    <3>1. ls[i].depth < FlagCount \/ HasItem(w, g, "close", ls[i].depth) # {}
      BY <1>2 DEF Covered
    <3>2. CASE ls[i].depth = dep
      BY <1>16, <3>2
    <3>3. CASE ls[i].depth # dep
      BY <1>15, <3>1, <3>3
    <3> QED BY <3>2, <3>3
  <2> QED BY <2>1, <2>2, <2>3 DEF Covered
<1>17. IsClosed(w, g, u, h)
  <2>1. \A j \in DOMAIN w : j \in Nat
    <3>1. DOMAIN w = 1..Len(w)
      OBVIOUS
    <3> QED BY <3>1
  <2>2. \A j \in DOMAIN w : j = 1 \/ (j - 1 \in DOMAIN u /\ u[j - 1] = w[j] /\ h[j - 1] = g[j])
    <3> SUFFICES ASSUME NEW j \in DOMAIN w, j # 1 PROVE j - 1 \in DOMAIN u /\ u[j - 1] = w[j] /\ h[j - 1] = g[j]
      OBVIOUS
    <3>1. PICK i : i = j - 1
      OBVIOUS
    <3>2. i \in DOMAIN u /\ i + 1 = j
      BY <1>6, <3>1
    <3> QED BY <1>6, <1>12, <3>1, <3>2
  <2> QED BY <1>6, <1>12, <2>1, <2>2 DEF IsClosed
<1> QED BY <1>5, <1>9, <1>13, <1>14, <1>16, <1>17 DEF Walk

\* When no work is left, every node has its line, within the array.
LEMMA AllDrawn ==
  ASSUME BuildInv, ProgramInv, build = "built", NEW ls \in Seq(Line), NEW dep, NEW g, Walk(<<>>, ls, dep, g),
         NEW d \in DOMAIN Levels, d >= FlagCount
  PROVE  Levels[d] = {}
<1>1. PICK N, L, w : N = Len(ast) /\ L = Levels /\ w = <<>>
  OBVIOUS
<1>2. Covered(w, ls, g) /\ \A op, e : HasItem(w, g, op, e) = {}
  <2>1. DOMAIN w = {}
    BY <1>1
  <2> QED BY <1>1, <2>1 DEF Walk, HasItem
<1>3. /\ HasLine(ls, value[Root], 0)
      /\ \A i \in DOMAIN ls : \A k \in Items(ast[ls[i].node].parts) : HasLine(ls, k, ls[i].depth + 1)
      /\ \A i \in DOMAIN ls : ls[i].depth < FlagCount
  BY <1>2 DEF Covered
<1>4. /\ DOMAIN L = 0..N /\ N \in Nat /\ L[0] = {value[Root]}
      /\ \A e \in 1..N : L[e] = UNION {Items(ast[a].parts) : a \in L[e - 1]}
  BY <1>1, LevelsDefined
<1> DEFINE G == {k \in 0..N : \A x \in L[k] : HasLine(ls, x, k)}
<1>5. 0 \in G
  BY <1>3, <1>4
<1>6. ASSUME NEW k \in 0..N, k \in G, k < N PROVE k + 1 \in G
  <2>1. k + 1 \in 1..N /\ (k + 1) - 1 = k /\ k + 1 \in 0..N
    BY <1>4, <1>6
  <2>2. ASSUME NEW x \in L[k + 1] PROVE HasLine(ls, x, k + 1)
    <3>1. PICK a \in L[k] : x \in Items(ast[a].parts)
      BY <1>4, <2>1, <2>2
    <3>2. PICK i \in DOMAIN ls : ls[i].node = a /\ ls[i].depth = k
      BY <1>6, <3>1 DEF HasLine
    <3> QED BY <1>3, <3>1, <3>2
  <2> QED BY <2>1, <2>2
<1>7. 0..N \subseteq G
  <2> HIDE DEF G
  <2> QED BY <1>4, <1>5, <1>6, CountUp
<1>8. ASSUME NEW x \in L[d] PROVE FALSE
  <2>1. HasLine(ls, x, d) /\ d \in Nat
    BY <1>1, <1>4, <1>7
  <2>2. PICK i \in DOMAIN ls : ls[i].depth = d
    BY <2>1 DEF HasLine
  <2> QED BY <1>3, <2>1, <2>2, FlagAssumption
<1> QED BY <1>1, <1>8

TooDeep == \E d \in DOMAIN Levels : d >= FlagCount /\ Levels[d] # {}

DrawInv ==
  /\ lines \in Seq(Line)
  /\ print = "waiting" => depth = 0 /\ lines = <<>>
  /\ print \in {"printing", "printed"} => IsWalk(work, lines, depth)
  /\ print = "printed" => work = <<>>
  /\ print = "asserted" => TooDeep

LEMMA TreeStays ==
  ASSUME value' = value, ast' = ast
  PROVE  /\ Levels' = Levels /\ Line' = Line /\ TooDeep' = TooDeep
         /\ \A w, ls, dep : IsWalk(w, ls, dep)' <=> IsWalk(w, ls, dep)
<1>1. Levels' = Levels
  BY DEF Levels
<1>2. \A w, ls, dep : IsWalk(w, ls, dep)' <=> IsWalk(w, ls, dep)
  <2> TAKE w, ls, dep
  <2>1. ASSUME NEW g PROVE DepthsOK(w, g)' <=> DepthsOK(w, g)
    BY <1>1 DEF DepthsOK
  <2>2. ASSUME NEW g PROVE Covered(w, ls, g)' <=> Covered(w, ls, g)
    BY DEF Covered, HasLine, HasItem
  <2> QED BY <2>1, <2>2 DEF IsWalk, Walk, AtDepth
<1>3. TooDeep' = TooDeep
  BY <1>1 DEF TooDeep
<1> QED BY <1>1, <1>2, <1>3 DEF Line

LEMMA DrawStays ==
  ASSUME DrawInv, value' = value, ast' = ast, UNCHANGED <<work, depth, lines, print>>
  PROVE  DrawInv'
BY TreeStays DEF DrawInv

LEMMA DrawStart ==
  ASSUME BuildInv, ProgramInv, PrintInv, DrawInv, StartPrint
  PROVE  DrawInv'
<1>1. /\ build = "built" /\ print = "waiting" /\ print' = "printing"
      /\ work' = <<Open(value[Root], FALSE)>>
      /\ value' = value /\ ast' = ast /\ depth' = depth /\ lines' = lines
  BY DEF StartPrint, bvars
<1>2. depth = 0 /\ lines = <<>> /\ lines \in Seq(Line)
  BY <1>1 DEF DrawInv
<1>3. PICK w : w = work'
  OBVIOUS
<1>4. IsWalk(w, <<>>, 0)
  BY <1>1, <1>3, Beginning DEF IsWalk
<1>5. IsWalk(w, <<>>, 0)' /\ Line' = Line
  BY <1>1, <1>4, TreeStays
<1> QED BY <1>1, <1>2, <1>3, <1>5 DEF DrawInv

LEMMA DrawNode ==
  ASSUME BuildInv, ProgramInv, PrintInv, DrawInv, PrintNode
  PROVE  DrawInv'
<1>1. /\ print = "printing" /\ work # <<>> /\ Head(work).op = "open"
      /\ value' = value /\ ast' = ast
  BY DEF PrintNode, AtWork, bvars
<1>2. /\ work \in Seq(WorkItem) /\ depth \in Nat /\ isLast \in Seq(BOOLEAN) /\ Len(isLast) = depth + 1
      /\ depthFlag \in [Flag -> BOOLEAN] /\ build = "built"
      /\ lines \in Seq(Line)
  BY <1>1 DEF PrintInv, DrawInv
<1>3. PICK w, ls, dep, flags : w = work /\ ls = lines /\ dep = depth /\ flags = depthFlag
  OBVIOUS
<1>4. PICK g : Walk(w, ls, dep, g)
  BY <1>1, <1>3 DEF DrawInv, IsWalk
<1>5. PICK a, d, stack : /\ a = Head(work).node /\ d = Entered
                         /\ stack = IF d = depth THEN isLast ELSE Append(isLast, Head(work).last)
  OBVIOUS
<1>6. Head(work).last \in BOOLEAN /\ a \in DOMAIN ast
  BY <1>1, <1>2, <1>5, OpenedWork
<1>7. d = (IF ast[a].kind = "Program" THEN dep ELSE dep + 1) /\ d \in Nat
  BY <1>2, <1>3, <1>5 DEF Entered
<1>8. PICK last : last = Last(stack)
  OBVIOUS
<1>9. last \in BOOLEAN
  <2>1. stack \in Seq(BOOLEAN) /\ Len(stack) > 0
    <3>1. PICK b : b = Head(work).last
      OBVIOUS
    <3>2. Append(isLast, b) \in Seq(BOOLEAN) /\ Len(Append(isLast, b)) = Len(isLast) + 1
      BY <1>2, <1>6, <3>1
    <3>3. stack = isLast \/ stack = Append(isLast, b)
      BY ONLY <1>5, <3>1
    <3>4. depth + 1 > 0 /\ (depth + 1) + 1 > 0
      BY <1>2
    <3> QED BY <1>2, <3>2, <3>3, <3>4
  <2> QED BY <1>8, <2>1 DEF Last
<1>10. PICK line : line = [node |-> a, depth |-> d, last |-> last, bars |-> [i \in 1..(d - 1) |-> flags[i]]]
  OBVIOUS
<1>11. PICK u : u = Children(a) \o <<Close(a)>> \o Tail(w)
  OBVIOUS
<1>12. /\ w \in Seq(WorkItem) /\ w # <<>> /\ Head(w).op = "open" /\ ls \in Seq(Line)
       /\ a = Head(w).node /\ line.node = a /\ line.depth = d
  BY <1>1, <1>2, <1>3, <1>5, <1>10
<1>13. CASE FlagsUsed(d, last) \subseteq Flag
  <2>1. /\ lines' = Append(ls, line) /\ depth' = d /\ work' = u /\ print' = print
    BY <1>3, <1>5, <1>8, <1>10, <1>11, <1>13 DEF PrintNode
  <2>2. line \in Line
    <3>1. \A i \in 1..(d - 1) : flags[i] \in BOOLEAN
      BY <1>2, <1>3, <1>13 DEF FlagsUsed
    <3>2. [i \in 1..(d - 1) |-> flags[i]] \in [1..(d - 1) -> BOOLEAN] /\ d - 1 \in Int
      BY <1>7, <3>1
    <3> QED BY <1>6, <1>7, <1>9, <1>10, <3>2 DEF Line
  <2>3. PICK m : m = Append(ls, line)
    OBVIOUS
  <2>4. IsWalk(u, m, d)
    BY <1>2, <1>4, <1>7, <1>11, <1>12, <2>2, <2>3, Opening DEF IsWalk
  <2>5. IsWalk(u, m, d)' /\ Line' = Line
    BY <1>1, <2>4, TreeStays
  <2>6. m \in Seq(Line)
    BY <1>2, <1>3, <2>2, <2>3
  <2> QED BY <1>1, <2>1, <2>3, <2>5, <2>6 DEF DrawInv
<1>14. CASE ~(FlagsUsed(d, last) \subseteq Flag)
  <2>1. print' = "asserted" /\ UNCHANGED <<lines, depthFlag, depth, isLast, work>>
    BY <1>5, <1>8, <1>14 DEF PrintNode
  <2>2. d >= FlagCount
    BY <1>7, <1>9, <1>14, FlagAssumption DEF FlagsUsed, Flag
  <2>3. d \in DOMAIN Levels /\ a \in Levels[d]
    BY <1>2, <1>4, <1>7, <1>12, NextDepth
  <2>4. TooDeep' /\ Line' = Line
    <3>1. TooDeep
      BY <2>2, <2>3 DEF TooDeep
    <3> QED BY <1>1, <3>1, TreeStays
  <2> QED BY <1>2, <2>1, <2>4 DEF DrawInv
<1> QED BY <1>13, <1>14

LEMMA DrawEnd ==
  ASSUME BuildInv, ProgramInv, PrintInv, DrawInv, CloseNode
  PROVE  DrawInv'
<1>1. /\ print = "printing" /\ work # <<>> /\ Head(work).op = "close"
      /\ value' = value /\ ast' = ast /\ lines' = lines
  BY DEF CloseNode, AtWork, bvars
<1>2. /\ work \in Seq(WorkItem) /\ depth \in Nat /\ build = "built"
      /\ lines \in Seq(Line)
  BY <1>1 DEF PrintInv, DrawInv
<1>3. PICK w, ls, dep, u : w = work /\ ls = lines /\ dep = depth /\ u = Tail(work)
  OBVIOUS
<1>4. PICK g : Walk(w, ls, dep, g)
  BY <1>1, <1>3 DEF DrawInv, IsWalk
<1>5. PICK e : e = IF dep = 0 THEN 0 ELSE dep - 1
  OBVIOUS
<1>8. /\ dep \in DOMAIN Levels /\ Levels[dep] # {}
      /\ dep = 0 => u = <<>>
      /\ dep < FlagCount => IsWalk(u, ls, e)
  <2>1. /\ w \in Seq(WorkItem) /\ w # <<>> /\ Head(w).op = "close" /\ ls \in Seq(Line) /\ dep \in Nat
        /\ u = Tail(w)
    BY <1>1, <1>2, <1>3
  <2>2. /\ dep \in DOMAIN Levels /\ Levels[dep] # {}
        /\ dep = 0 => u = <<>>
    BY <1>2, <1>4, <1>5, <2>1, Closing
  <2>3. dep < FlagCount => IsWalk(u, ls, e)
    BY <1>2, <1>4, <1>5, <2>1, Closing DEF IsWalk
  <2> QED BY <2>2, <2>3
<1>6. CASE depth \in Flag
  <2>1. /\ depth' = IF dep = 0 THEN 0 ELSE dep - 1
        /\ work' = u
        /\ print' = IF dep = 0 THEN "printed" ELSE print
    BY <1>3, <1>6 DEF CloseNode
  <2>2. dep < FlagCount
    BY <1>3, <1>6, FlagAssumption DEF Flag
  <2>4. IsWalk(u, ls, e)' /\ Line' = Line
    BY <1>1, <1>8, <2>2, TreeStays
  <2>5. lines' = ls /\ depth' = e /\ work' = u /\ print' \in {"printing", "printed"}
        /\ (print' = "printed" => u = <<>>)
    BY <1>1, <1>3, <1>5, <1>8, <2>1
  <2> QED BY <1>2, <1>3, <2>4, <2>5 DEF DrawInv
<1>7. CASE depth \notin Flag
  <2>1. print' = "asserted"
    BY <1>7 DEF CloseNode
  <2>2. dep >= FlagCount
    BY <1>2, <1>3, <1>7, FlagAssumption DEF Flag
  <2>3. TooDeep' /\ Line' = Line
    <3>1. TooDeep
      BY <1>8, <2>2 DEF TooDeep
    <3> QED BY <1>1, <3>1, TreeStays
  <2> QED BY <1>1, <1>2, <2>1, <2>3 DEF DrawInv
<1> QED BY <1>6, <1>7

LEMMA DrawInvariance == PSpec => []DrawInv
<1>1. PInit => DrawInv
  BY DEF PInit, DrawInv
<1>2. BuildInv /\ ProgramInv /\ PrintInv /\ DrawInv /\ [PNext]_allvars => DrawInv'
  <2> SUFFICES ASSUME BuildInv, ProgramInv, PrintInv, DrawInv, [PNext]_allvars PROVE DrawInv'
    OBVIOUS
  <2>1. ASSUME Build PROVE DrawInv'
    <3>1. build = "visiting" /\ UNCHANGED pvars
      BY <2>1 DEF Build, BNext, VisitNode, VisitNull, KeepField, DropField, MakeNode, MakeFor, MakeIf,
                  MakeObject, At
    <3>2. print = "waiting" /\ print' = "waiting" /\ depth' = depth /\ lines' = lines
      BY <3>1 DEF PrintInv, pvars
    <3>3. depth = 0 /\ lines = <<>>
      BY <3>2 DEF DrawInv
    <3> QED BY <3>2, <3>3 DEF DrawInv
  <2>2. CASE UNCHANGED allvars
    BY <2>2, DrawStays DEF allvars, bvars, pvars
  <2> QED BY <2>1, <2>2, DrawStart, DrawNode, DrawEnd DEF PNext
<1> QED BY <1>1, <1>2, BuildInvariance, ProgramInvariance, PrintInvariance, PTL DEF PSpec

\* OnlyDeepTreesStop: whatever the shape of the tree, the assertion on the index
\* of DepthFlag fails if there is a node as deep as the array is long, and only
\* then.
THEOREM OnlyDeepStop == PSpec => []OnlyDeepTreesStop
<1>1. BuildInv /\ ProgramInv /\ PrintInv /\ DrawInv => OnlyDeepTreesStop
  <2> SUFFICES ASSUME BuildInv, ProgramInv, PrintInv, DrawInv PROVE OnlyDeepTreesStop
    OBVIOUS
  <2>1. ASSUME print = "printed", NEW d \in DOMAIN Levels, d >= FlagCount PROVE Levels[d] = {}
    <3>1. PICK w, ls, dep : w = work /\ ls = lines /\ dep = depth
      OBVIOUS
    <3>2. build = "built" /\ w = <<>> /\ ls \in Seq(Line) /\ IsWalk(w, ls, dep)
      BY <2>1, <3>1 DEF PrintInv, DrawInv
    <3>3. PICK g : Walk(<<>>, ls, dep, g)
      BY <3>2 DEF IsWalk
    <3> QED BY <2>1, <3>2, <3>3, AllDrawn
  <2>2. print = "asserted" => TooDeep
    BY DEF DrawInv
  <2> QED BY <2>1, <2>2 DEF OnlyDeepTreesStop, TooDeep
<1> QED BY <1>1, BuildInvariance, ProgramInvariance, PrintInvariance, DrawInvariance, PTL

-----------------------------------------------------------------------------
(* The shape of the syntax tree.                                           *)

\* The parts of a syntax node are syntax nodes.
LEMMA PartsInside ==
  ASSUME BuildInv, NEW a \in DOMAIN ast, NEW p \in DOMAIN ast[a].parts, NEW k \in DOMAIN ast[a].parts[p]
  PROVE  ast[a].parts[p][k] \in DOMAIN ast /\ ast[a].parts[p][k] \in Items(ast[a].parts)
<1>1. /\ NodesInv /\ tree \in Trees /\ ast[a] \in SynNode(a - 1) /\ a - 1 \in Nat
      /\ DOMAIN ast = 1..Len(ast) /\ a \in 1..Len(ast) /\ Len(ast) \in Nat
  BY DEF BuildInv, NodesInv
<1>2. ast[a].parts[p][k] \in Items(ast[a].parts)
  BY DEF Items, ToSet
<1>3. ast[a].parts[p][k] \in 1..(a - 1)
  BY <1>1, <1>2, SynNodeType
<1> QED BY <1>1, <1>2, <1>3

LEMMA FitsStays ==
  ASSUME BuildInv, NEW b, \A q \in DOMAIN ast : b[q] = ast[q],
         NEW f, NEW a \in DOMAIN ast, Fits(ast, a, f)
  PROVE  Fits(b, a, f)
<1>1. b[a] = ast[a]
  OBVIOUS
<1>2. \A p \in DOMAIN ast[a].parts : \A k \in DOMAIN ast[a].parts[p] :
        b[ast[a].parts[p][k]] = ast[ast[a].parts[p][k]]
  BY PartsInside
<1>3. PICK x, s, t : x = ast[a] /\ s = x.parts /\ t = tree[x.of].parts
  OBVIOUS
<1>4. CASE x.kind = "Block" /\ tree[x.of].kind # "Block"
  BY <1>1, <1>3, <1>4 DEF Fits
<1>5. CASE ~(x.kind = "Block" /\ tree[x.of].kind # "Block")
  <2>1. /\ x.kind = tree[x.of].kind
        /\ x.kind # "Object" =>
             /\ Len(s) = Len(t)
             /\ \A p \in DOMAIN s : Len(s[p]) = Len(t[p]) /\ \A k \in DOMAIN s[p] : ast[s[p][k]].of = f[t[p][k]]
        /\ x.kind = "If" => \A p \in DOMAIN s : p # 1 => \A k \in DOMAIN s[p] : ast[s[p][k]].kind = "Block"
    BY ONLY <1>3, <1>5, Fits(ast, a, f), Zenon DEF Fits
  <2>2. \A p \in DOMAIN s : \A k \in DOMAIN s[p] : b[s[p][k]] = ast[s[p][k]]
    BY <1>2, <1>3
  <2>3. /\ x.kind = tree[x.of].kind
        /\ x.kind # "Object" =>
             /\ Len(s) = Len(t)
             /\ \A p \in DOMAIN s : Len(s[p]) = Len(t[p]) /\ \A k \in DOMAIN s[p] : b[s[p][k]].of = f[t[p][k]]
        /\ x.kind = "If" => \A p \in DOMAIN s : p # 1 => \A k \in DOMAIN s[p] : b[s[p][k]].kind = "Block"
    BY ONLY <2>1, <2>2
  <2>4. b[a] = x
    BY <1>1, <1>3
  <2> QED BY ONLY <1>3, <2>3, <2>4, SMT DEF Fits
<1> QED BY <1>4, <1>5

\* What a method that creates the given nodes and returns v has to show.
LEMMA ShapeMade ==
  ASSUME BuildInv, ShapeInv, NEW v, NEW nodes, IsMade(v, nodes), IsShaped(v, nodes)
  PROVE  ShapeInv'
<1>1. PICK b : b = ast \o nodes
  OBVIOUS
<1>2. /\ ast' = b /\ tree' = tree
      /\ value' = [n \in DOMAIN value \union {Here} |-> IF n = Here THEN v ELSE value[n]]
      /\ nodes \in Seq(AnyNode)
  BY <1>1 DEF IsMade, Returns
<1>3. ast \in Seq(AnyNode) /\ NodesInv
  BY DEF BuildInv, NodesInv
<1>4. PICK m, c : m = Len(ast) /\ c = Len(nodes)
  BY Zenon
<1>5. /\ DOMAIN ast = 1..m /\ m \in Nat /\ c \in Nat /\ DOMAIN nodes = 1..c /\ DOMAIN b = 1..(m + c)
      /\ \A q \in 1..m : b[q] = ast[q]
  BY <1>1, <1>2, <1>3, <1>4, Joined
<1> SUFFICES ASSUME NEW f, IsStanding(f)'
             PROVE  /\ \A n \in DOMAIN value' : ast'[value'[n]].of = f[n]
                    /\ \A a \in DOMAIN ast' : Fits(ast, a, f)'
  BY DEF ShapeInv, Shapes
<1> IsStanding(f)
  BY <1>2 DEF IsStanding
<1>6. /\ \A n \in DOMAIN value : ast[value[n]].of = f[n]
      /\ \A a \in DOMAIN ast : Fits(ast, a, f)
  BY DEF ShapeInv, Shapes
<1>7. b[v].of = f[Here] /\ \A j \in DOMAIN nodes : Fits(b, m + j, f)
  BY <1>1, <1>4 DEF ShapeInv, IsShaped
<1>8. ASSUME NEW n \in DOMAIN value' PROVE b[value'[n]].of = f[n]
  <2>1. CASE n = Here
    BY <1>2, <1>7, <2>1
  <2>2. CASE n # Here
    <3>1. n \in DOMAIN value /\ value'[n] = value[n]
      BY <1>2, <2>2
    <3>2. value[n] \in 1..m
      BY <1>3, <1>5, <3>1 DEF NodesInv
    <3> QED BY <1>5, <1>6, <3>1, <3>2
  <2> QED BY <2>1, <2>2
<1>9. ASSUME NEW a \in DOMAIN b PROVE Fits(b, a, f)
  <2>1. CASE a \in 1..m
    BY <1>5, <1>6, <2>1, FitsStays
  <2>2. CASE a \notin 1..m
    <3>1. a - m \in 1..c /\ m + (a - m) = a
      BY <1>5, <2>2
    <3> QED BY <1>5, <1>7, <3>1
  <2> QED BY <2>1, <2>2
<1>10. \A a \in DOMAIN ast' : Fits(ast, a, f)'
  <2> SUFFICES ASSUME NEW a \in DOMAIN b PROVE Fits(ast, a, f)'
    BY <1>2
  <2>1. Fits(b, a, f) /\ ast' = b /\ tree' = tree
    BY <1>2, <1>9
  <2> QED BY ONLY <2>1, Zenon DEF Fits
<1> QED BY <1>2, <1>8, <1>10

LEMMA ShapeInvariance == PSpec => []ShapeInv
<1>1. PInit => ShapeInv
  <2>1. ASSUME PInit PROVE DOMAIN value = {} /\ DOMAIN ast = {}
    BY <2>1 DEF PInit, BInit
  <2> QED BY <2>1 DEF ShapeInv, Shapes
<1>2. BuildInv /\ ShapeInv /\ [PNext]_allvars => ShapeInv'
  <2> SUFFICES ASSUME BuildInv, ShapeInv, [PNext]_allvars PROVE ShapeInv'
    OBVIOUS
  <2>1. ASSUME UNCHANGED <<tree, value, ast>> PROVE ShapeInv'
    BY <2>1 DEF ShapeInv, Shapes, IsStanding, Fits
  <2>2. ASSUME MakeNode \/ MakeFor \/ MakeIf \/ MakeObject PROVE ShapeInv'
    <3>1. PICK v, nodes : IsMade(v, nodes) /\ IsShaped(v, nodes)
      BY <2>2, MakeNodeStep, MakeForStep, MakeIfStep, MakeObjectStep
    <3> QED BY <3>1, ShapeMade
  <2>3. ASSUME VisitNode \/ VisitNull \/ KeepField \/ DropField PROVE ShapeInv'
    <3>1. UNCHANGED <<tree, value, ast>>
      BY <2>3 DEF VisitNode, VisitNull, KeepField, DropField
    <3> QED BY <2>1, <3>1
  <2>4. BNext \/ UNCHANGED bvars
    BY DEF PNext, Build, StartPrint, PrintNode, CloseNode, allvars
  <2> QED BY <2>1, <2>2, <2>3, <2>4 DEF BNext, bvars
<1> QED BY <1>1, <1>2, BuildInvariance, PTL DEF PSpec

\* StandsFor has a value: the body of a loop is numbered after the loop.
LEMMA StandsDefined ==
  ASSUME tree \in Trees, ~Incomplete
  PROVE  IsStanding(StandsFor)
<1>1. PICK N : N = Len(tree)
  OBVIOUS
<1>2. N \in Nat /\ DOMAIN tree = 1..N
  <2>1. tree \in Seq(ParseNode)
    BY TreeAssumption
  <2> QED BY <1>1, <2>1
<1>3. ASSUME NEW n \in DOMAIN tree, tree[n].kind = "For"
      PROVE  tree[n].parts[2][1] \in DOMAIN tree /\ tree[n].parts[2][1] > n
  <2>1. PICK s : s = tree[n].parts
    OBVIOUS
  <2>2. Len(s) = 2 /\ Len(s[2]) = 1 /\ s \in Seq(Seq(Nat))
    BY <1>3, <2>1, KidsOf DEF HasParts, ParseNode
  <2>3. 2 \in DOMAIN s
    BY <2>2
  <2>4. 1 \in DOMAIN s[2]
    BY <2>2, <2>3
  <2>5. s[2][1] \in Items(s)
    BY <2>3, <2>4 DEF Items, ToSet
  <2>6. s[2][1] # Null
    BY <2>1, <2>5 DEF Incomplete
  <2> QED BY <2>1, <2>5, <2>6, KidsOf
<1> DEFINE Next(n) == tree[n].parts[2][1]
           Value(f, n) == IF tree[n].kind = "For" THEN f[Next(n)] ELSE n
           Def(f) == f = [n \in DOMAIN tree |-> Value(f, n)]
           Rec(f, k) == \A n \in 1..N : n + k > N => f[n] = Value(f, n)
           G == {k \in 0..N : \E f : Rec(f, k)}
<1>4. 0 \in G
  <2>1. PICK w : w = [n \in 1..N |-> n]
    OBVIOUS
  <2>2. Rec(w, 0)
    BY <1>2
  <2>3. \E f : Rec(f, 0)
    <3> HIDE DEF Rec
    <3> QED BY <2>2
  <2> HIDE DEF Rec
  <2> QED BY <1>2, <2>3
<1>5. ASSUME NEW k \in 0..N, k \in G, k < N PROVE k + 1 \in G
  <2>1. PICK u : Rec(u, k)
    BY <1>5
  <2>2. PICK w : w = [n \in 1..N |-> IF n + k = N THEN Value(u, n) ELSE u[n]]
    OBVIOUS
  <2>3. ASSUME NEW n \in 1..N, n + (k + 1) > N PROVE w[n] = Value(w, n)
    <3>1. tree[n].kind = "For" => Next(n) \in 1..N /\ Next(n) > n /\ Next(n) + k # N
      BY <1>2, <1>3, <2>3
    <3>2. tree[n].kind = "For" => w[Next(n)] = u[Next(n)]
      <4> HIDE DEF Value, Next
      <4> QED BY <2>2, <3>1
    <3>3. Value(w, n) = Value(u, n)
      BY <3>2
    <3>4. CASE n + k = N
      <4> HIDE DEF Value
      <4> QED BY <2>2, <3>3, <3>4
    <3>5. CASE n + k # N
      <4>1. n + k > N
        BY <1>2, <2>3, <3>5
      <4> HIDE DEF Value
      <4> QED BY <2>1, <2>2, <3>3, <3>5, <4>1
    <3> QED BY <3>4, <3>5
  <2>4. Rec(w, k + 1)
    <3> HIDE DEF Value
    <3> QED BY <2>3
  <2>5. \E f : Rec(f, k + 1)
    <3> HIDE DEF Rec
    <3> QED BY <2>4
  <2>6. k + 1 \in 0..N
    BY <1>2, <1>5
  <2> HIDE DEF Rec
  <2> QED BY <2>5, <2>6
<1>6. N \in G
  <2> HIDE DEF G
  <2>1. 0..N \subseteq G
    BY <1>2, <1>4, <1>5, CountUp
  <2> QED BY <1>2, <2>1
<1>7. PICK u : Rec(u, N)
  BY <1>6
<1>8. \E f : Def(f)
  <2>1. PICK w : w = [n \in DOMAIN tree |-> u[n]]
    OBVIOUS
  <2>2. ASSUME NEW n \in DOMAIN tree PROVE w[n] = Value(w, n)
    <3>1. n + N > N /\ n \in 1..N
      BY <1>2
    <3>2. u[n] = Value(u, n)
      <4> HIDE DEF Value
      <4> QED BY <1>7, <3>1
    <3>3. tree[n].kind = "For" => w[Next(n)] = u[Next(n)]
      BY <1>3, <2>1
    <3>4. w[n] = u[n]
      BY <2>1
    <3> QED BY <3>2, <3>3, <3>4
  <2>3. Def(w)
    <3> HIDE DEF Value
    <3> QED BY <2>1, <2>2
  <2> HIDE DEF Def
  <2> QED BY <2>3
<1>9. PICK f : f = CHOOSE h : Def(h)
  OBVIOUS
<1>10. Def(f)
  <2> HIDE DEF Def
  <2> QED BY <1>8, <1>9
<1>11. StandsFor = f
  BY <1>9 DEF StandsFor
<1>12. \A n \in DOMAIN tree : f[n] = Value(f, n)
  <2> HIDE DEF Value
  <2> QED BY <1>10
<1> QED BY <1>11, <1>12 DEF IsStanding

\* What a node leads to: the parts of a node were made before it.
IsReach(r) == \A a \in DOMAIN ast : r[a] = {a} \union UNION {r[b] : b \in Items(ast[a].parts)}

LEMMA LinkedDefined ==
  ASSUME BuildInv
  PROVE  \E r : IsReach(r) /\ Linked = r[value[Root]]
<1>1. PICK N : N = Len(ast)
  OBVIOUS
<1>2. N \in Nat /\ DOMAIN ast = 1..N
  BY <1>1 DEF BuildInv, NodesInv
<1>3. ASSUME NEW a \in 1..N PROVE Items(ast[a].parts) \subseteq 1..(a - 1)
  <2>1. tree \in Trees /\ ast[a] \in SynNode(a - 1) /\ a - 1 \in Nat
    BY <1>2 DEF BuildInv, NodesInv
  <2> QED BY <2>1, SynNodeType
<1> DEFINE Value(r, a) == {a} \union UNION {r[b] : b \in Items(ast[a].parts)}
           Def(r) == r = [a \in DOMAIN ast |-> Value(r, a)]
           Rec(r, k) == \A a \in 1..k : r[a] = Value(r, a)
           G == {k \in 0..N : \E r : Rec(r, k)}
<1>4. 0 \in G
  BY <1>2
<1>5. ASSUME NEW k \in 0..N, k \in G, k < N PROVE k + 1 \in G
  <2>1. PICK u : Rec(u, k)
    BY <1>5
  <2>2. PICK w : w = [a \in 1..(k + 1) |-> IF a = k + 1 THEN Value(u, a) ELSE u[a]]
    OBVIOUS
  <2>3. ASSUME NEW a \in 1..(k + 1) PROVE w[a] = Value(w, a)
    <3>1. \A b \in Items(ast[a].parts) : b \in 1..k
      <4>1. a \in 1..N
        BY <1>2, <1>5
      <4> QED BY <1>3, <1>5, <4>1
    <3>2. \A b \in Items(ast[a].parts) : w[b] = u[b]
      <4> HIDE DEF Value
      <4>1. \A b \in 1..k : b \in 1..(k + 1) /\ b # k + 1
        BY <1>5
      <4> QED BY <2>2, <3>1, <4>1
    <3>3. Value(w, a) = Value(u, a)
      BY <3>2
    <3> HIDE DEF Value
    <3>4. CASE a = k + 1
      BY <2>2, <3>3, <3>4
    <3>5. CASE a # k + 1
      <4>1. a \in 1..k
        BY <1>5, <3>5
      <4> QED BY <2>1, <2>2, <3>3, <3>5, <4>1
    <3> QED BY <3>4, <3>5
  <2>4. Rec(w, k + 1)
    <3> HIDE DEF Value
    <3> QED BY <2>3
  <2>5. \E r : Rec(r, k + 1)
    <3> HIDE DEF Rec
    <3> QED BY <2>4
  <2>6. k + 1 \in 0..N
    BY <1>2, <1>5
  <2> HIDE DEF Rec
  <2> QED BY <2>5, <2>6
<1>6. N \in G
  <2> HIDE DEF G
  <2>1. 0..N \subseteq G
    BY <1>2, <1>4, <1>5, CountUp
  <2> QED BY <1>2, <2>1
<1>7. PICK u : Rec(u, N)
  BY <1>6
<1>8. \E r : Def(r)
  <2>1. PICK w : w = [a \in DOMAIN ast |-> u[a]]
    OBVIOUS
  <2>2. ASSUME NEW a \in DOMAIN ast PROVE w[a] = Value(w, a)
    <3>1. \A b \in Items(ast[a].parts) : b \in DOMAIN ast
      BY <1>2, <1>3
    <3>2. \A b \in Items(ast[a].parts) : w[b] = u[b]
      <4> HIDE DEF Value
      <4> QED BY <2>1, <3>1
    <3>3. Value(w, a) = Value(u, a)
      BY <3>2
    <3> HIDE DEF Value
    <3> QED BY <1>2, <1>7, <2>1, <3>3
  <2>3. Def(w)
    <3> HIDE DEF Value
    <3> QED BY <2>1, <2>2
  <2> HIDE DEF Def
  <2> QED BY <2>3
<1>9. PICK r : r = CHOOSE h : Def(h)
  OBVIOUS
<1>10. Def(r)
  <2> HIDE DEF Def
  <2> QED BY <1>8, <1>9
<1>11. Linked = r[value[Root]]
  BY <1>9 DEF Linked
<1>12. \A a \in DOMAIN ast : r[a] = Value(r, a)
  <2> HIDE DEF Value
  <2> QED BY <1>10
<1>13. IsReach(r)
  BY <1>12 DEF IsReach
<1> QED BY <1>11, <1>13

LEMMA LinkedInside ==
  ASSUME BuildInv, build = "built"
  PROVE  Linked \subseteq DOMAIN ast
<1>1. PICK r, N : IsReach(r) /\ Linked = r[value[Root]] /\ N = Len(ast)
  BY LinkedDefined
<1>2. /\ N \in Nat /\ DOMAIN ast = 1..N /\ value[Root] \in 1..N
      /\ \A a \in DOMAIN ast : Items(ast[a].parts) \subseteq 1..(a - 1)
  <2>1. N \in Nat /\ DOMAIN ast = 1..N /\ value[Root] \in 1..N /\ tree \in Trees
    BY <1>1 DEF BuildInv, NodesInv
  <2>2. ASSUME NEW a \in DOMAIN ast PROVE Items(ast[a].parts) \subseteq 1..(a - 1)
    <3>1. ast[a] \in SynNode(a - 1) /\ a - 1 \in Nat
      BY <2>1 DEF BuildInv, NodesInv
    <3> QED BY <2>1, <3>1, SynNodeType
  <2> QED BY <2>1, <2>2
<1> DEFINE G == {k \in 0..N : \A a \in 1..k : r[a] \subseteq 1..N}
<1>3. 0 \in G
  BY <1>2
<1>4. ASSUME NEW k \in 0..N, k \in G, k < N PROVE k + 1 \in G
  <2>1. ASSUME NEW a \in 1..(k + 1) PROVE r[a] \subseteq 1..N
    <3>1. a \in 1..N /\ r[a] = {a} \union UNION {r[b] : b \in Items(ast[a].parts)}
      BY <1>1, <1>2, <1>4 DEF IsReach
    <3>2. \A b \in Items(ast[a].parts) : b \in 1..k
      BY <1>2, <1>4, <3>1
    <3>3. \A b \in Items(ast[a].parts) : r[b] \subseteq 1..N
      BY <1>4, <3>2
    <3> QED BY <3>1, <3>3
  <2> QED BY <1>2, <1>4, <2>1
<1>5. N \in G
  <2> HIDE DEF G
  <2>1. 0..N \subseteq G
    BY <1>2, <1>3, <1>4, CountUp
  <2> QED BY <1>2, <2>1
<1> QED BY <1>1, <1>2, <1>5

\* The parts of an `if`.
LEMMA IfParts ==
  ASSUME BuildInv, NEW a \in DOMAIN ast, ast[a].kind = "If", NEW f, Fits(ast, a, f),
         NEW b \in ToSet(ast[a].parts[2] \o ast[a].parts[3])
  PROVE  ast[b].kind = "Block"
<1>1. PICK s, n : s = ast[a].parts /\ n = ast[a].of
  OBVIOUS
<1>2. tree \in Trees /\ ast[a] \in AnyNode /\ n \in DOMAIN tree
  <2>1. tree \in Trees /\ ast[a] \in AnyNode /\ ast[a] \in SynNode(a - 1) /\ a - 1 \in Nat
    BY DEF BuildInv, NodesInv
  <2> QED BY <1>1, <2>1, SynNodeType
<1>3. /\ tree[n].kind = "If" /\ Len(s) = Len(tree[n].parts)
      /\ \A p \in DOMAIN s : p # 1 => \A k \in DOMAIN s[p] : ast[s[p][k]].kind = "Block"
  BY <1>1 DEF Fits
<1>4. s \in Seq(Seq(Nat)) /\ Len(s) = 3
  BY <1>1, <1>2, <1>3, KidsOf DEF HasParts, AnyNode
<1>5. PICK x, y : x = s[2] /\ y = s[3]
  OBVIOUS
<1>6. /\ x \in Seq(Nat) /\ y \in Seq(Nat)
      /\ \A k \in DOMAIN x : ast[x[k]].kind = "Block"
      /\ \A k \in DOMAIN y : ast[y[k]].kind = "Block"
  <2>1. 2 \in DOMAIN s /\ 3 \in DOMAIN s /\ 2 # 1 /\ 3 # 1
    BY <1>4
  <2>2. s[2] \in Seq(Nat) /\ s[3] \in Seq(Nat)
    <3>1. \A p \in 1..Len(s) : s[p] \in Seq(Nat)
      BY ONLY <1>4, SeqParts
    <3>2. 2 \in 1..Len(s) /\ 3 \in 1..Len(s)
      BY <1>4
    <3> QED BY ONLY <3>1, <3>2
  <2>3. /\ \A k \in DOMAIN s[2] : ast[s[2][k]].kind = "Block"
        /\ \A k \in DOMAIN s[3] : ast[s[3][k]].kind = "Block"
    BY <1>3, <2>1
  <2> QED BY <1>5, <2>2, <2>3
<1>7. PICK j \in DOMAIN (x \o y) : (x \o y)[j] = b
  BY <1>1, <1>5 DEF ToSet
<1>8. \/ \E i \in DOMAIN x : j = i /\ (x \o y)[j] = x[i]
      \/ \E i \in DOMAIN y : j = Len(x) + i /\ (x \o y)[j] = y[i]
  <2>1. x \in Seq(Nat) /\ y \in Seq(Nat) /\ j \in DOMAIN (x \o y)
    BY <1>6
  <2> QED BY ONLY <2>1, InJoined
<1> QED BY <1>6, <1>7, <1>8

\* ShapeKept: when a node is made, the value of each child is a node that was
\* made for what stands for the child, and stays one: nodes are not changed, and
\* a value gives way to one for the same parse node only.
THEOREM ShapeIsKept == PSpec => []ShapeKept
<1>1. BuildInv /\ ShapeInv /\ CrashesExplained => ShapeKept
  <2> SUFFICES ASSUME BuildInv, ShapeInv, CrashesExplained, build = "built",
                      NEW a \in Linked, ~IsPromoted(a), NEW parts, parts = tree[ast[a].of].parts
               PROVE  /\ ast[a].kind = tree[ast[a].of].kind
                      /\ ast[a].kind # "Object" =>
                           /\ Len(ast[a].parts) = Len(parts)
                           /\ \A p \in DOMAIN parts :
                                /\ Len(ast[a].parts[p]) = Len(parts[p])
                                /\ \A k \in DOMAIN parts[p] :
                                     ast[ast[a].parts[p][k]].of = StandsFor[parts[p][k]]
                      /\ ast[a].kind = "If" =>
                           \A b \in ToSet(ast[a].parts[2] \o ast[a].parts[3]) : ast[b].kind = "Block"
    BY DEF ShapeKept
  <2>1. a \in DOMAIN ast /\ tree \in Trees /\ ~Incomplete
    BY LinkedInside DEF BuildInv, CrashesExplained, Incomplete
  <2>2. Fits(ast, a, StandsFor)
    BY <2>1, StandsDefined DEF ShapeInv, Shapes
  <2>3. PICK s : s = ast[a].parts
    OBVIOUS
  <2>4. /\ ast[a].kind = tree[ast[a].of].kind
        /\ ast[a].kind # "Object" =>
             /\ Len(s) = Len(parts)
             /\ \A p \in DOMAIN s :
                  /\ Len(s[p]) = Len(parts[p])
                  /\ \A k \in DOMAIN s[p] : ast[s[p][k]].of = StandsFor[parts[p][k]]
    <3>1. ~(ast[a].kind = "Block" /\ tree[ast[a].of].kind # "Block")
      BY DEF IsPromoted
    <3> QED BY ONLY <2>2, <2>3, <3>1, parts = tree[ast[a].of].parts, Zenon DEF Fits
  <2>5. s \in Seq(Seq(Nat)) /\ parts \in Seq(Seq(Nat))
    <3>1. ast[a] \in AnyNode /\ ast[a] \in SynNode(a - 1) /\ a - 1 \in Nat
      BY <2>1 DEF BuildInv, NodesInv
    <3>2. ast[a].of \in DOMAIN tree
      BY <2>1, <3>1, SynNodeType
    <3> QED BY <2>1, <2>3, <3>1, <3>2, KidsOf DEF AnyNode, ParseNode
  <2>6. ASSUME ast[a].kind # "Object", NEW p \in DOMAIN parts
        PROVE  /\ Len(s[p]) = Len(parts[p])
               /\ \A k \in DOMAIN parts[p] : ast[s[p][k]].of = StandsFor[parts[p][k]]
    <3>1. p \in DOMAIN s
      BY <2>4, <2>5, <2>6
    <3>2. DOMAIN s[p] = DOMAIN parts[p]
      <4>1. s[p] \in Seq(Nat) /\ parts[p] \in Seq(Nat) /\ Len(s[p]) = Len(parts[p])
        BY <2>4, <2>5, <2>6, <3>1
      <4> QED BY <4>1
    <3> QED BY <2>4, <2>6, <3>1, <3>2
  <2> QED BY <2>1, <2>2, <2>3, <2>4, <2>6, IfParts
<1> QED BY <1>1, BuildInvariance, ShapeInvariance, CrashesAreExplained, PTL

-----------------------------------------------------------------------------
(* The drawing.                                                            *)

\* A node at depth d is among the work that is left.
Waiting(w, g, d) == \E q \in DOMAIN w : w[q].op = "open" /\ g[q] = d

Deeper(ls, i, d) == \A k \in DOMAIN ls : k > i => ls[k].depth > d

Follows(ls, i, d) ==
  \E j \in DOMAIN ls : /\ j > i /\ ls[j].depth = d
                       /\ \A k \in DOMAIN ls : i < k /\ k < j => ls[k].depth > d

\* Line i is followed by one at depth d, or will be, by way of deeper ones.
WillGoOn(ls, w, g, i, d) == Follows(ls, i, d) \/ (Waiting(w, g, d) /\ Deeper(ls, i, d))

Drawn(ls, w, g) ==
  \A i \in DOMAIN ls :
    /\ DOMAIN ls[i].bars = 1..(ls[i].depth - 1)
    /\ \A d \in 1..(ls[i].depth - 1) : ls[i].bars[d] <=> WillGoOn(ls, w, g, i, d)
    /\ ls[i].depth > 0 => (ls[i].last <=> ~WillGoOn(ls, w, g, i, ls[i].depth))

\* Down to the depth of the printer a flag says whether a node is waiting there;
\* all flags below are set.
FlagsSet(flags, dep, w, g) ==
  \A d \in Flag : d > 0 => (flags[d] <=> (d <= dep => Waiting(w, g, d)))

LastOnes(w, g) ==
  \A i \in DOMAIN w :
    w[i].op = "open" /\ g[i] > 0 =>
      (w[i].last <=> \A j \in DOMAIN w : j > i /\ w[j].op = "open" => g[j] # g[i])

Falling(w, g) == \A i \in DOMAIN w, j \in DOMAIN w : i < j => g[j] <= g[i]

Bars(w, ls, dep, flags, g) ==
  Drawn(ls, w, g) /\ FlagsSet(flags, dep, w, g) /\ LastOnes(w, g) /\ Falling(w, g)

\* Node x has a line in the block of line i, or is waiting for one.
LineBelow(ls, i, x) ==
  \E j \in DOMAIN ls : /\ ls[j].node = x /\ j > i
                       /\ \A k \in (i + 1)..j : ls[k].depth > ls[i].depth

ItemBelow(w, ls, g, i, x) ==
  /\ \E q \in DOMAIN w : w[q].op = "open" /\ w[q].node = x /\ g[q] = ls[i].depth + 1
  /\ Deeper(ls, i, ls[i].depth)

Nested(w, ls, g) ==
  \A i \in DOMAIN ls :
    /\ ls[i].depth \in DOMAIN Levels /\ ls[i].node \in Levels[ls[i].depth]
    /\ \A x \in Items(ast[ls[i].node].parts) : LineBelow(ls, i, x) \/ ItemBelow(w, ls, g, i, x)

BarsInv ==
  print \in {"printing", "printed"} =>
    \E g : /\ Walk(work, lines, depth, g) /\ Bars(work, lines, depth, depthFlag, g)
           /\ Nested(work, lines, g)

\* Above depth d, what is waiting in u is what is waiting in w.
SameAbove(u, h, w, g, d) == \A e \in Nat : e < d => (Waiting(u, h, e) <=> Waiting(w, g, e))

\* After a node has been opened, whether one is waiting above it is as before; at
\* its own depth its siblings are.
LEMMA OpenedWaiting ==
  ASSUME NEW w, NEW g, NEW u, NEW h, NEW a, NEW d \in Nat, NEW n, IsOpened(w, g, u, h, a, d, n),
         DOMAIN w \subseteq Nat \ {0}, \A j \in DOMAIN w : g[j] \in Nat,
         1 \in DOMAIN w, w[1].op = "open", g[1] = d, LastOnes(w, g)
  PROVE  /\ SameAbove(u, h, w, g, d)
         /\ d > 0 => (Waiting(u, h, d) <=> ~w[1].last)
<1>1. /\ n \in Nat
      /\ \A i \in 1..n : h[i] = d + 1
      /\ u[n + 1].op = "close"
      /\ \A j \in DOMAIN w : j > 1 => n + j \in DOMAIN u /\ u[n + j] = w[j] /\ h[n + j] = g[j]
      /\ \A i \in DOMAIN u : i \in 1..n \/ i = n + 1 \/ \E j \in DOMAIN w : j > 1 /\ i = n + j
  BY DEF IsOpened, Close
<1>2. ASSUME NEW e \in Nat, e <= d
      PROVE  Waiting(u, h, e) <=> \E j \in DOMAIN w : j > 1 /\ w[j].op = "open" /\ g[j] = e
  <2>1. ASSUME NEW i \in DOMAIN u, u[i].op = "open", h[i] = e
        PROVE  \E j \in DOMAIN w : j > 1 /\ w[j].op = "open" /\ g[j] = e
    <3>1. i \notin 1..n
      <4>1. d + 1 # e
        BY <1>2
      <4> QED BY <1>1, <2>1, <4>1
    <3>2. i # n + 1
      BY <1>1, <2>1
    <3>3. PICK j \in DOMAIN w : j > 1 /\ i = n + j
      BY <1>1, <3>1, <3>2
    <3> QED BY <1>1, <2>1, <3>3
  <2>2. ASSUME NEW j \in DOMAIN w, j > 1, w[j].op = "open", g[j] = e
        PROVE  Waiting(u, h, e)
    <3>1. n + j \in DOMAIN u /\ u[n + j] = w[j] /\ h[n + j] = g[j]
      BY <1>1, <2>2
    <3> QED BY <2>2, <3>1 DEF Waiting
  <2> QED BY <2>1, <2>2 DEF Waiting
<1>3. ASSUME NEW e \in Nat, e < d PROVE Waiting(u, h, e) <=> Waiting(w, g, e)
  <2>1. \A j \in DOMAIN w : j = 1 \/ j > 1
    OBVIOUS
  <2>2. g[1] # e
    BY <1>3
  <2>3. Waiting(w, g, e) <=> \E j \in DOMAIN w : j > 1 /\ w[j].op = "open" /\ g[j] = e
    BY <2>1, <2>2 DEF Waiting
  <2> QED BY <1>2, <1>3, <2>3
<1>4. ASSUME d > 0 PROVE Waiting(u, h, d) <=> ~w[1].last
  <2>1. w[1].last <=> \A j \in DOMAIN w : j > 1 /\ w[j].op = "open" => g[j] # d
    BY <1>4 DEF LastOnes
  <2>2. Waiting(u, h, d) <=> \E j \in DOMAIN w : j > 1 /\ w[j].op = "open" /\ g[j] = d
    BY <1>2
  <2> QED BY <2>1, <2>2
<1> QED BY <1>3, <1>4 DEF SameAbove

LEMMA OpenedOrder ==
  ASSUME NEW w, NEW g, NEW u, NEW h, NEW a, NEW d \in Nat, NEW n, IsOpened(w, g, u, h, a, d, n),
         \A i \in 1..n : u[i].last <=> i = n,
         DOMAIN w \subseteq Nat \ {0}, \A j \in DOMAIN w : g[j] \in Nat,
         1 \in DOMAIN w, g[1] = d, LastOnes(w, g), Falling(w, g)
  PROVE  LastOnes(u, h) /\ Falling(u, h)
<1>1. /\ n \in Nat
      /\ \A i \in 1..n : i \in DOMAIN u /\ u[i].op = "open" /\ h[i] = d + 1
      /\ u[n + 1].op = "close" /\ h[n + 1] = d
      /\ \A j \in DOMAIN w : j > 1 => n + j \in DOMAIN u /\ u[n + j] = w[j] /\ h[n + j] = g[j]
      /\ \A i \in DOMAIN u : i \in 1..n \/ i = n + 1 \/ \E j \in DOMAIN w : j > 1 /\ i = n + j
  BY DEF IsOpened, Close
<1>2. \A j \in DOMAIN w : j \in Nat /\ g[j] \in Nat /\ (j > 1 => g[j] <= d)
  BY DEF Falling
<1>3. ASSUME NEW i \in DOMAIN u, NEW j \in DOMAIN u, i < j PROVE h[j] <= h[i]
  <2>1. CASE j \in 1..n
    <3>1. i \in 1..n
      <4>1. i \in Nat /\ i >= 1
        <5>1. CASE i \in 1..n
          BY <5>1
        <5>2. CASE i = n + 1
          BY <1>1, <5>2
        <5>3. CASE \E q \in DOMAIN w : q > 1 /\ i = n + q
          BY <1>1, <1>2, <5>3
        <5> QED BY <1>1, <5>1, <5>2, <5>3
      <4> QED BY <1>1, <1>3, <2>1, <4>1
    <3> QED BY <1>1, <2>1, <3>1
  <2>2. CASE j = n + 1
    <3>1. i \in 1..n
      <4>1. CASE i = n + 1
        BY <1>1, <1>3, <2>2, <4>1
      <4>2. CASE \E q \in DOMAIN w : q > 1 /\ i = n + q
        BY <1>1, <1>2, <1>3, <2>2, <4>2
      <4> QED BY <1>1, <4>1, <4>2
    <3> QED BY <1>1, <2>2, <3>1
  <2>3. ASSUME NEW r \in DOMAIN w, r > 1, j = n + r PROVE h[j] <= h[i]
    <3>1. h[j] = g[r] /\ g[r] <= d /\ g[r] \in Nat
      BY <1>1, <1>2, <2>3
    <3>2. CASE i \in 1..n
      BY <1>1, <3>1, <3>2
    <3>3. CASE i = n + 1
      BY <1>1, <3>1, <3>3
    <3>4. ASSUME NEW q \in DOMAIN w, q > 1, i = n + q PROVE h[j] <= h[i]
      <4>1. q < r /\ h[i] = g[q]
        BY <1>1, <1>2, <1>3, <2>3, <3>4
      <4> QED BY <3>1, <4>1 DEF Falling
    <3> QED BY <1>1, <3>2, <3>3, <3>4
  <2> QED BY <1>1, <2>1, <2>2, <2>3
<1>4. ASSUME NEW i \in DOMAIN u, u[i].op = "open", h[i] > 0
      PROVE  u[i].last <=> \A j \in DOMAIN u : j > i /\ u[j].op = "open" => h[j] # h[i]
  <2>1. CASE i \in 1..n
    <3>1. ASSUME i = n, NEW j \in DOMAIN u, j > i, u[j].op = "open" PROVE h[j] # h[i]
      <4>1. j \notin 1..n /\ j # n + 1
        BY <1>1, <3>1
      <4>2. PICK r \in DOMAIN w : r > 1 /\ j = n + r
        BY <1>1, <4>1
      <4>3. h[j] = g[r] /\ g[r] <= d /\ g[r] \in Nat
        BY <1>1, <1>2, <4>2
      <4> QED BY <1>1, <2>1, <4>3
    <3>2. ASSUME i # n PROVE \E j \in DOMAIN u : j > i /\ u[j].op = "open" /\ h[j] = h[i]
      <4>1. n \in 1..n /\ n > i
        BY <1>1, <2>1, <3>2
      <4> QED BY <1>1, <2>1, <4>1
    <3> QED BY <2>1, <3>1, <3>2
  <2>2. CASE i = n + 1
    BY <1>1, <1>4, <2>2
  <2>3. ASSUME NEW q \in DOMAIN w, q > 1, i = n + q
        PROVE  u[i].last <=> \A j \in DOMAIN u : j > i /\ u[j].op = "open" => h[j] # h[i]
    <3>1. u[i] = w[q] /\ h[i] = g[q] /\ q \in Nat
      BY <1>1, <1>2, <2>3
    <3>2. u[i].last <=> \A r \in DOMAIN w : r > q /\ w[r].op = "open" => g[r] # g[q]
      BY <1>4, <3>1 DEF LastOnes
    <3>3. ASSUME NEW j \in DOMAIN u, j > i, u[j].op = "open", h[j] = h[i]
          PROVE  \E r \in DOMAIN w : r > q /\ w[r].op = "open" /\ g[r] = g[q]
      <4>1. j \notin 1..n /\ j # n + 1
        BY <1>1, <2>3, <3>1, <3>3
      <4>2. PICK r \in DOMAIN w : r > 1 /\ j = n + r
        BY <1>1, <4>1
      <4>3. r > q
        BY <1>1, <1>2, <2>3, <3>3, <4>2
      <4> QED BY <1>1, <3>1, <3>3, <4>2, <4>3
    <3>4. ASSUME NEW r \in DOMAIN w, r > q, w[r].op = "open", g[r] = g[q]
          PROVE  \E j \in DOMAIN u : j > i /\ u[j].op = "open" /\ h[j] = h[i]
      <4>1. r > 1 /\ n + r > i
        BY <1>1, <1>2, <2>3, <3>4
      <4>2. n + r \in DOMAIN u /\ u[n + r] = w[r] /\ h[n + r] = g[r]
        BY <1>1, <4>1
      <4> QED BY <3>1, <3>4, <4>1, <4>2
    <3> QED BY <3>2, <3>3, <3>4
  <2> QED BY <1>1, <2>1, <2>2, <2>3
<1> QED BY <1>3, <1>4 DEF LastOnes, Falling

\* A new line changes nothing for the lines above it; and what is waiting goes on
\* from it.
LEMMA OpenedGoesOn ==
  ASSUME NEW ls \in Seq(Line), NEW line \in Line, NEW m, m = Append(ls, line), NEW d \in Nat, line.depth = d,
         NEW w, NEW g, NEW u, NEW h,
         \A j \in DOMAIN w : j \in Nat \ {0} /\ g[j] \in Nat,
         1 \in DOMAIN w, w[1].op = "open", g[1] = d, Falling(w, g),
         SameAbove(u, h, w, g, d)
  PROVE  /\ \A i \in DOMAIN ls, e \in Nat : WillGoOn(m, u, h, i, e) <=> WillGoOn(ls, w, g, i, e)
         /\ \A e \in Nat : WillGoOn(m, u, h, Len(ls) + 1, e) <=> Waiting(u, h, e)
<1>1. PICK N : N = Len(ls)
  OBVIOUS
<1>2. /\ N \in Nat /\ DOMAIN ls = 1..N /\ DOMAIN m = 1..(N + 1)
      /\ \A i \in 1..N : m[i] = ls[i]
      /\ m[N + 1] = line
      /\ \A i \in 1..N : ls[i].depth \in Nat
  <2>1. N \in Nat /\ DOMAIN ls = 1..N /\ \A i \in 1..N : ls[i] \in Line
    BY <1>1
  <2>2. DOMAIN m = 1..(N + 1) /\ \A i \in 1..N : m[i] = ls[i]
    BY <1>1
  <2>3. m[N + 1] = line
    BY <1>1
  <2>4. \A i \in 1..N : ls[i].depth \in Nat
    BY <2>1 DEF Line
  <2> QED BY <2>1, <2>2, <2>3, <2>4
<1>3. ASSUME NEW e \in Nat PROVE WillGoOn(m, u, h, N + 1, e) <=> Waiting(u, h, e)
  <2>1. ~Follows(m, N + 1, e)
    BY <1>2 DEF Follows
  <2>2. Deeper(m, N + 1, e)
    BY <1>2 DEF Deeper
  <2> QED BY <2>1, <2>2 DEF WillGoOn
<1>4. ASSUME NEW i \in 1..N, NEW e \in Nat
      PROVE  WillGoOn(m, u, h, i, e) <=> WillGoOn(ls, w, g, i, e)
  <2>1. Follows(ls, i, e) => Follows(m, i, e)
    <3> SUFFICES ASSUME NEW j \in 1..N, j > i, ls[j].depth = e,
                        \A k \in 1..N : i < k /\ k < j => ls[k].depth > e
                 PROVE  Follows(m, i, e)
      BY <1>2 DEF Follows
    <3>1. j \in 1..(N + 1) /\ m[j] = ls[j]
      BY <1>2
    <3>2. \A k \in 1..(N + 1) : k < j => k \in 1..N /\ m[k] = ls[k]
      BY <1>2
    <3> QED BY <1>2, <3>1, <3>2 DEF Follows
  <2>2. Follows(m, i, e) => Follows(ls, i, e) \/ (e = d /\ Deeper(ls, i, e))
    <3> SUFFICES ASSUME NEW j \in 1..(N + 1), j > i, m[j].depth = e,
                        \A k \in 1..(N + 1) : i < k /\ k < j => m[k].depth > e
                 PROVE  Follows(ls, i, e) \/ (e = d /\ Deeper(ls, i, e))
      BY <1>2 DEF Follows
    <3>1. \A k \in 1..N : i < k /\ k < j => ls[k].depth > e
      BY <1>2
    <3>2. CASE j \in 1..N
      <4>1. ls[j].depth = e
        BY <1>2, <3>2
      <4> QED BY <1>2, <3>1, <3>2, <4>1 DEF Follows
    <3>3. CASE j = N + 1
      <4>1. e = d
        BY <1>2, <3>3
      <4>2. \A k \in 1..N : k > i => ls[k].depth > e
        BY <1>2, <3>1, <3>3
      <4> QED BY <1>2, <4>1, <4>2 DEF Deeper
    <3> QED BY <1>2, <3>2, <3>3
  <2>3. Deeper(m, i, e) <=> Deeper(ls, i, e) /\ d > e
    <3>1. N + 1 > i /\ N + 1 \in 1..(N + 1) /\ \A k \in 1..N : k \in 1..(N + 1)
      BY <1>2
    <3>2. \A k \in 1..(N + 1) : k \in 1..N \/ k = N + 1
      BY <1>2
    <3> QED BY <1>2, <3>1, <3>2 DEF Deeper
  <2>4. e = d /\ Deeper(ls, i, e) => Follows(m, i, e) /\ Waiting(w, g, e)
    <3> SUFFICES ASSUME e = d, Deeper(ls, i, e) PROVE Follows(m, i, e) /\ Waiting(w, g, e)
      OBVIOUS
    <3>1. N + 1 > i /\ N + 1 \in 1..(N + 1) /\ m[N + 1].depth = e
      BY <1>2
    <3>2. \A k \in 1..(N + 1) : i < k /\ k < N + 1 => m[k].depth > e
      BY <1>2 DEF Deeper
    <3>3. Waiting(w, g, e)
      BY DEF Waiting
    <3> QED BY <1>2, <3>1, <3>2, <3>3 DEF Follows
  <2>5. Waiting(w, g, e) => e <= d
    <3> SUFFICES ASSUME NEW j \in DOMAIN w, g[j] = e PROVE e <= d
      BY DEF Waiting
    <3>1. j = 1 \/ 1 < j
      OBVIOUS
    <3> QED BY <3>1 DEF Falling
  <2>6. CASE e < d
    <3>1. Waiting(u, h, e) <=> Waiting(w, g, e)
      BY <2>6 DEF SameAbove
    <3> QED BY <2>1, <2>2, <2>3, <2>6, <3>1 DEF WillGoOn
  <2>7. CASE e = d
    BY <2>1, <2>2, <2>3, <2>4, <2>7 DEF WillGoOn
  <2>8. CASE e > d
    BY <2>1, <2>2, <2>3, <2>5, <2>8 DEF WillGoOn
  <2> QED BY <2>6, <2>7, <2>8
<1> QED BY <1>1, <1>2, <1>3, <1>4

\* The flags after a line at depth d, and what the line shows.
Cleared(flags, d, last) == [i \in Flag |-> IF last /\ i = d THEN FALSE ELSE flags[i]]

IsLine(line, a, d, last, flags) ==
  line = [node |-> a, depth |-> d, last |-> last, bars |-> [i \in 1..(d - 1) |-> flags[i]]]

\* The item that is opened, of those at depths g.
IsNext(w, g, dep, d, last) ==
  /\ \A j \in DOMAIN w : j \in Nat \ {0} /\ g[j] \in Nat
  /\ 1 \in DOMAIN w /\ w[1].op = "open" /\ g[1] = d /\ w[1].last \in BOOLEAN
  /\ dep = IF d = 0 THEN 0 ELSE d - 1
  /\ last \in BOOLEAN /\ (d > 0 => last = w[1].last) /\ FlagsUsed(d, last) \subseteq Flag

OneLast(u, n) == \A i \in 1..n : u[i].last <=> i = n

LEMMA OpenedBars ==
  ASSUME NEW ls \in Seq(Line), NEW w, NEW g, NEW dep \in Nat, NEW flags \in [Flag -> BOOLEAN],
         Bars(w, ls, dep, flags, g),
         NEW d \in Nat, NEW line \in Line, NEW m, m = Append(ls, line),
         NEW u, NEW h, NEW a, NEW n, IsOpened(w, g, u, h, a, d, n),
         OneLast(u, n), NEW last, IsNext(w, g, dep, d, last),
         IsLine(line, a, d, last, flags), NEW k, k = Cleared(flags, d, last)
  PROVE  Bars(u, m, d, k, h)
<1>8. /\ \A j \in DOMAIN w : j \in Nat \ {0} /\ g[j] \in Nat
      /\ 1 \in DOMAIN w /\ w[1].op = "open" /\ g[1] = d /\ w[1].last \in BOOLEAN
      /\ dep = IF d = 0 THEN 0 ELSE d - 1
      /\ last \in BOOLEAN /\ (d > 0 => last = w[1].last) /\ FlagsUsed(d, last) \subseteq Flag
  BY DEF IsNext
<1>0. /\ line.depth = d /\ line.last = last /\ DOMAIN line.bars = 1..(d - 1)
      /\ \A i \in 1..(d - 1) : line.bars[i] = flags[i]
      /\ k = [i \in Flag |-> IF last /\ i = d THEN FALSE ELSE flags[i]]
  BY DEF IsLine, Cleared
<1>1. /\ Drawn(ls, w, g) /\ FlagsSet(flags, dep, w, g) /\ LastOnes(w, g) /\ Falling(w, g)
      /\ DOMAIN w \subseteq Nat \ {0}
  BY <1>8 DEF Bars
<1>2. /\ SameAbove(u, h, w, g, d)
      /\ \A e \in Nat : e < d => (Waiting(u, h, e) <=> Waiting(w, g, e))
      /\ d > 0 => (Waiting(u, h, d) <=> ~w[1].last)
  BY <1>1, <1>8, OpenedWaiting DEF SameAbove
<1>3. LastOnes(u, h) /\ Falling(u, h)
  BY <1>1, <1>8, OpenedOrder DEF OneLast
<1>4. /\ \A i \in DOMAIN ls, e \in Nat : WillGoOn(m, u, h, i, e) <=> WillGoOn(ls, w, g, i, e)
      /\ \A e \in Nat : WillGoOn(m, u, h, Len(ls) + 1, e) <=> Waiting(u, h, e)
  <2>1. /\ ls \in Seq(Line) /\ line \in Line /\ m = Append(ls, line) /\ d \in Nat /\ line.depth = d
        /\ \A j \in DOMAIN w : j \in Nat \ {0} /\ g[j] \in Nat
        /\ 1 \in DOMAIN w /\ w[1].op = "open" /\ g[1] = d /\ Falling(w, g)
        /\ SameAbove(u, h, w, g, d)
    BY <1>0, <1>1, <1>2, <1>8
  <2> QED BY ONLY <2>1, OpenedGoesOn
<1>5. Flag \subseteq Nat
  BY FlagAssumption DEF Flag
<1>6. FlagsSet(k, d, u, h)
  <2>2. \A e \in Flag : e # d => k[e] = flags[e]
    BY <1>0, Zenon
  <2>3. \A e \in Flag : e = d => (k[e] <=> ~last /\ flags[e])
    <3> TAKE e \in Flag
    <3>1. flags[e] \in BOOLEAN
      OBVIOUS
    <3>2. k[e] = IF last /\ e = d THEN FALSE ELSE flags[e]
      BY <1>0
    <3> QED BY <3>1, <3>2
  <2>1. ASSUME NEW e \in Flag, e > 0 PROVE k[e] <=> (e <= d => Waiting(u, h, e))
    <3>1. e \in Nat /\ (flags[e] <=> (e <= dep => Waiting(w, g, e)))
      BY <1>1, <1>5, <2>1 DEF FlagsSet
    <3>2. CASE e < d
      <4>1. k[e] = flags[e]
        <5>1. e # d
          BY <3>1, <3>2
        <5> QED BY <2>2, <5>1
      <4>2. e <= dep /\ e <= d
        BY <1>8, <2>1, <3>1, <3>2
      <4> QED BY <1>2, <3>1, <3>2, <4>1, <4>2
    <3>3. CASE e = d
      <4>1. flags[e] /\ d > 0
        BY <1>8, <2>1, <3>1, <3>3
      <4>2. k[e] <=> ~last
        BY <1>8, <2>3, <2>1, <3>3, <4>1
      <4> QED BY <1>2, <1>8, <3>3, <4>1, <4>2
    <3>4. CASE e > d
      <4>1. k[e] = flags[e]
        <5>1. e # d
          BY <3>1, <3>4
        <5> QED BY <2>2, <5>1
      <4>2. ~(e <= dep) /\ ~(e <= d)
        BY <1>8, <2>1, <3>1, <3>4
      <4> QED BY <3>1, <4>1, <4>2
    <3> QED BY <3>1, <3>2, <3>3, <3>4
  <2> QED BY <2>1 DEF FlagsSet
<1>7. Drawn(m, u, h)
  <2>1. PICK N : N = Len(ls)
    OBVIOUS
  <2>2. /\ N \in Nat /\ DOMAIN ls = 1..N /\ DOMAIN m = 1..(N + 1)
        /\ \A i \in 1..N : m[i] = ls[i]
        /\ m[N + 1] = line
        /\ \A i \in 1..N : ls[i].depth \in Nat
    <3>1. N \in Nat /\ DOMAIN ls = 1..N /\ \A i \in 1..N : ls[i] \in Line
      BY <2>1
    <3>2. DOMAIN m = 1..(N + 1) /\ \A i \in 1..N : m[i] = ls[i]
      BY <2>1
    <3>3. m[N + 1] = line
      BY <2>1
    <3>4. \A i \in 1..N : ls[i].depth \in Nat
      BY <3>1 DEF Line
    <3> QED BY <3>1, <3>2, <3>3, <3>4
  <2>3. ASSUME NEW i \in 1..N
        PROVE  /\ DOMAIN m[i].bars = 1..(m[i].depth - 1)
               /\ \A e \in 1..(m[i].depth - 1) : m[i].bars[e] <=> WillGoOn(m, u, h, i, e)
               /\ m[i].depth > 0 => (m[i].last <=> ~WillGoOn(m, u, h, i, m[i].depth))
    <3>1. /\ DOMAIN ls[i].bars = 1..(ls[i].depth - 1)
          /\ \A e \in 1..(ls[i].depth - 1) : ls[i].bars[e] <=> WillGoOn(ls, w, g, i, e)
          /\ ls[i].depth > 0 => (ls[i].last <=> ~WillGoOn(ls, w, g, i, ls[i].depth))
      BY <1>1, <2>2 DEF Drawn
    <3>2. m[i] = ls[i] /\ ls[i].depth \in Nat /\ \A e \in 1..(ls[i].depth - 1) : e \in Nat
      BY <2>2
    <3>3. \A e \in Nat : WillGoOn(m, u, h, i, e) <=> WillGoOn(ls, w, g, i, e)
      BY <1>4, <2>2
    <3> QED BY <3>1, <3>2, <3>3
  <2>4. /\ DOMAIN line.bars = 1..(d - 1)
        /\ \A e \in 1..(d - 1) : line.bars[e] <=> WillGoOn(m, u, h, N + 1, e)
        /\ d > 0 => (line.last <=> ~WillGoOn(m, u, h, N + 1, d))
    <3>1. ASSUME NEW e \in 1..(d - 1) PROVE line.bars[e] <=> Waiting(u, h, e)
      <4>1. e \in Flag /\ e \in Nat /\ e > 0 /\ e <= dep /\ e < d
        BY <1>8 DEF FlagsUsed
      <4>2. line.bars[e] = flags[e]
        BY <1>0
      <4>3. flags[e] <=> Waiting(w, g, e)
        BY <1>1, <4>1 DEF FlagsSet
      <4> QED BY <1>2, <4>1, <4>2, <4>3
    <3>2. \A e \in 1..(d - 1) : e \in Nat
      OBVIOUS
    <3>3. DOMAIN line.bars = 1..(d - 1)
      BY <1>0
    <3>4. \A e \in Nat : WillGoOn(m, u, h, N + 1, e) <=> Waiting(u, h, e)
      BY <1>4, <2>1
    <3>5. d > 0 => (line.last <=> ~Waiting(u, h, d))
      BY <1>0, <1>2, <1>8
    <3> QED BY <3>1, <3>2, <3>3, <3>4, <3>5
  <2>5. \A i \in DOMAIN m : i \in 1..N \/ i = N + 1
    BY <2>2
  <2>6. /\ DOMAIN m[N + 1].bars = 1..(m[N + 1].depth - 1)
        /\ \A e \in 1..(m[N + 1].depth - 1) : m[N + 1].bars[e] <=> WillGoOn(m, u, h, N + 1, e)
        /\ m[N + 1].depth > 0 => (m[N + 1].last <=> ~WillGoOn(m, u, h, N + 1, m[N + 1].depth))
    <3>1. m[N + 1] = line /\ line.depth = d
      BY <1>0, <2>2
    <3> QED BY ONLY <2>4, <3>1
  <2> QED BY ONLY <2>3, <2>5, <2>6, Zenon DEF Drawn
<1> QED BY <1>3, <1>6, <1>7 DEF Bars

LEMMA ClosedBars ==
  ASSUME NEW ls, NEW w, NEW g, NEW dep \in Nat, NEW flags \in [Flag -> BOOLEAN], dep \in Flag,
         Bars(w, ls, dep, flags, g),
         NEW u, NEW h, IsClosed(w, g, u, h), w[1].op # "open",
         NEW e, e = IF dep = 0 THEN 0 ELSE dep - 1,
         NEW k, k = Reset(flags, dep)
  PROVE  Bars(u, ls, e, k, h)
<1>1. /\ Drawn(ls, w, g) /\ FlagsSet(flags, dep, w, g) /\ LastOnes(w, g) /\ Falling(w, g)
      /\ \A i \in DOMAIN u : i \in Nat /\ i + 1 \in DOMAIN w /\ u[i] = w[i + 1] /\ h[i] = g[i + 1]
      /\ \A j \in DOMAIN w : j = 1 \/ (j \in Nat /\ j - 1 \in DOMAIN u /\ u[j - 1] = w[j] /\ h[j - 1] = g[j])
  BY DEF Bars, IsClosed
<1>2. ASSUME NEW d PROVE Waiting(u, h, d) <=> Waiting(w, g, d)
  BY <1>1 DEF Waiting
<1>3. \A i, d : WillGoOn(ls, u, h, i, d) <=> WillGoOn(ls, w, g, i, d)
  BY <1>2 DEF WillGoOn
<1>4. Drawn(ls, u, h)
  BY <1>1, <1>3 DEF Drawn
<1>5. FlagsSet(k, e, u, h)
  <2>1. /\ \A d \in Flag : d # dep => k[d] = flags[d]
        /\ k[dep] = TRUE
    BY DEF Reset
  <2>2. ASSUME NEW d \in Flag, d > 0 PROVE k[d] <=> (d <= e => Waiting(u, h, d))
    <3>1. d \in Nat /\ (flags[d] <=> (d <= dep => Waiting(w, g, d)))
      BY <1>1, <2>2, FlagAssumption DEF FlagsSet, Flag
    <3>2. CASE d = dep
      <4>1. ~(d <= e)
        BY <2>2, <3>2
      <4> QED BY <2>1, <3>2, <4>1
    <3>3. CASE d # dep
      <4>1. d <= e <=> d <= dep
        BY <2>2, <3>1, <3>3
      <4> QED BY <1>2, <2>1, <3>1, <3>3, <4>1
    <3> QED BY <3>2, <3>3
  <2> QED BY <2>2 DEF FlagsSet
<1>6. Falling(u, h)
  <2>1. ASSUME NEW i \in DOMAIN u, NEW j \in DOMAIN u, i < j PROVE h[j] <= h[i]
    <3>1. i + 1 \in DOMAIN w /\ j + 1 \in DOMAIN w /\ i + 1 < j + 1 /\ h[i] = g[i + 1] /\ h[j] = g[j + 1]
      BY <1>1, <2>1
    <3> QED BY <1>1, <3>1 DEF Falling
  <2> QED BY <2>1 DEF Falling
<1>7. ASSUME NEW i \in DOMAIN u, u[i].op = "open", h[i] > 0
      PROVE  u[i].last <=> \A j \in DOMAIN u : j > i /\ u[j].op = "open" => h[j] # h[i]
  <2>1. i \in Nat /\ i + 1 \in DOMAIN w /\ u[i] = w[i + 1] /\ h[i] = g[i + 1]
    BY <1>1
  <2>2. u[i].last <=> \A q \in DOMAIN w : q > i + 1 /\ w[q].op = "open" => g[q] # g[i + 1]
    BY <1>1, <1>7, <2>1 DEF LastOnes
  <2>3. ASSUME NEW j \in DOMAIN u, j > i, u[j].op = "open", h[j] = h[i]
        PROVE  \E q \in DOMAIN w : q > i + 1 /\ w[q].op = "open" /\ g[q] = g[i + 1]
    <3>1. j + 1 \in DOMAIN w /\ j + 1 > i + 1 /\ u[j] = w[j + 1] /\ h[j] = g[j + 1]
      BY <1>1, <2>1, <2>3
    <3> QED BY <2>1, <2>3, <3>1
  <2>4. ASSUME NEW q \in DOMAIN w, q > i + 1, w[q].op = "open", g[q] = g[i + 1]
        PROVE  \E j \in DOMAIN u : j > i /\ u[j].op = "open" /\ h[j] = h[i]
    <3>1. q # 1
      BY <2>1, <2>4
    <3>2. q \in Nat /\ q - 1 \in DOMAIN u /\ u[q - 1] = w[q] /\ h[q - 1] = g[q]
      BY <1>1, <3>1
    <3>3. q - 1 > i
      BY <2>1, <2>4, <3>2
    <3> QED BY <2>1, <2>4, <3>2, <3>3
  <2> QED BY <2>2, <2>3, <2>4
<1> QED BY <1>4, <1>5, <1>6, <1>7 DEF Bars, LastOnes

\* What is printed, unless the assertion fails.
\* The children of a new line are waiting in its block; the line is in the block of
\* any one that still has a child waiting, since this is as high as the next.
LEMMA OpenedNested ==
  ASSUME NEW ls \in Seq(Line), NEW line \in Line, NEW m, m = Append(ls, line), NEW d \in Nat, NEW a,
         line.node = a, line.depth = d, d \in DOMAIN Levels, a \in Levels[d],
         NEW w, NEW g, NEW u, NEW h, NEW n, IsOpened(w, g, u, h, a, d, n),
         \A j \in DOMAIN w : j \in Nat \ {0} /\ g[j] \in Nat,
         1 \in DOMAIN w, w[1].node = a, g[1] = d, Falling(w, g), Nested(w, ls, g),
         \A x \in Items(ast[a].parts) : \E i \in 1..n : u[i].node = x
  PROVE  Nested(u, m, h)
<1>1. PICK N : N = Len(ls)
  OBVIOUS
<1>2. /\ N \in Nat /\ DOMAIN ls = 1..N /\ DOMAIN m = 1..(N + 1)
      /\ \A i \in 1..N : m[i] = ls[i]
      /\ m[N + 1] = line
      /\ \A i \in 1..N : ls[i].depth \in Nat
  <2>1. N \in Nat /\ DOMAIN ls = 1..N /\ \A i \in 1..N : ls[i] \in Line
    BY <1>1
  <2>2. DOMAIN m = 1..(N + 1) /\ \A i \in 1..N : m[i] = ls[i]
    BY <1>1
  <2>3. m[N + 1] = line
    BY <1>1
  <2>4. \A i \in 1..N : ls[i].depth \in Nat
    BY <2>1 DEF Line
  <2> QED BY <2>1, <2>2, <2>3, <2>4
<1>3. /\ n \in Nat
      /\ \A i \in 1..n : i \in DOMAIN u /\ u[i].op = "open" /\ h[i] = d + 1
      /\ \A j \in DOMAIN w : j > 1 => n + j \in DOMAIN u /\ u[n + j] = w[j] /\ h[n + j] = g[j]
  BY DEF IsOpened
<1>4. ASSUME NEW i \in 1..N, NEW x, LineBelow(ls, i, x) PROVE LineBelow(m, i, x)
  <2>1. PICK j \in 1..N : /\ ls[j].node = x /\ j > i
                          /\ \A k \in (i + 1)..j : ls[k].depth > ls[i].depth
    BY <1>2, <1>4 DEF LineBelow
  <2>2. \A k \in (i + 1)..j : k \in 1..N
    BY <1>2
  <2>3. j \in DOMAIN m /\ m[j] = ls[j] /\ m[i] = ls[i] /\ \A k \in (i + 1)..j : m[k] = ls[k]
    BY <1>2, <2>2
  <2> QED BY <2>1, <2>3 DEF LineBelow
<1>5. ASSUME NEW i \in 1..N, NEW x, ItemBelow(w, ls, g, i, x)
      PROVE  LineBelow(m, i, x) \/ ItemBelow(u, m, h, i, x)
  <2>1. PICK q \in DOMAIN w : w[q].op = "open" /\ w[q].node = x /\ g[q] = ls[i].depth + 1
    BY <1>5 DEF ItemBelow
  <2>2. Deeper(ls, i, ls[i].depth)
    BY <1>5 DEF ItemBelow
  <2>3. g[q] <= d
    <3>1. q = 1 \/ 1 < q
      OBVIOUS
    <3> QED BY <3>1 DEF Falling
  <2>4. d > ls[i].depth /\ m[i] = ls[i]
    BY <1>2, <2>1, <2>3
  <2>5. CASE q = 1
    <3>1. N + 1 \in DOMAIN m /\ m[N + 1].node = x /\ N + 1 > i
      BY <1>2, <2>1, <2>5
    <3>2. ASSUME NEW k \in (i + 1)..(N + 1) PROVE m[k].depth > m[i].depth
      <4>1. CASE k = N + 1
        BY <1>2, <2>4, <4>1
      <4>2. CASE k # N + 1
        <5>1. k \in 1..N /\ k > i
          BY <1>2, <4>2
        <5> QED BY <1>2, <2>2, <2>4, <5>1 DEF Deeper
      <4> QED BY <4>1, <4>2
    <3> QED BY <3>1, <3>2 DEF LineBelow
  <2>6. CASE q # 1
    <3>1. n + q \in DOMAIN u /\ u[n + q] = w[q] /\ h[n + q] = g[q]
      BY <1>3, <2>6
    <3>2. Deeper(m, i, m[i].depth)
      <4>1. ASSUME NEW k \in DOMAIN m, k > i PROVE m[k].depth > m[i].depth
        <5>1. CASE k = N + 1
          BY <1>2, <2>4, <5>1
        <5>2. CASE k # N + 1
          <6>1. k \in 1..N
            BY <1>2, <5>2
          <6> QED BY <1>2, <2>2, <2>4, <4>1, <6>1 DEF Deeper
        <5> QED BY <5>1, <5>2
      <4> QED BY <4>1 DEF Deeper
    <3> QED BY <2>1, <2>4, <3>1, <3>2 DEF ItemBelow
  <2> QED BY <2>5, <2>6
<1>6. ASSUME NEW x \in Items(ast[a].parts) PROVE ItemBelow(u, m, h, N + 1, x)
  <2>1. PICK i \in 1..n : u[i].node = x
    OBVIOUS
  <2>2. i \in DOMAIN u /\ u[i].op = "open" /\ h[i] = m[N + 1].depth + 1
    BY <1>2, <1>3
  <2>3. Deeper(m, N + 1, m[N + 1].depth)
    BY <1>2 DEF Deeper
  <2> QED BY <2>1, <2>2, <2>3 DEF ItemBelow
<1>7. ASSUME NEW i \in DOMAIN m
      PROVE  /\ m[i].depth \in DOMAIN Levels /\ m[i].node \in Levels[m[i].depth]
             /\ \A x \in Items(ast[m[i].node].parts) : LineBelow(m, i, x) \/ ItemBelow(u, m, h, i, x)
  <2>1. CASE i = N + 1
    BY <1>2, <1>6, <2>1
  <2>2. CASE i # N + 1
    <3>1. i \in 1..N /\ m[i] = ls[i]
      BY <1>2, <2>2
    <3>2. /\ ls[i].depth \in DOMAIN Levels /\ ls[i].node \in Levels[ls[i].depth]
          /\ \A x \in Items(ast[ls[i].node].parts) : LineBelow(ls, i, x) \/ ItemBelow(w, ls, g, i, x)
      BY <1>2, <3>1 DEF Nested
    <3> QED BY <1>4, <1>5, <3>1, <3>2
  <2> QED BY <2>1, <2>2
<1> QED BY <1>7 DEF Nested

LEMMA ClosedNested ==
  ASSUME NEW ls, NEW w, NEW g, NEW u, NEW h, IsClosed(w, g, u, h), w[1].op # "open", Nested(w, ls, g)
  PROVE  Nested(u, ls, h)
<1>1. \A j \in DOMAIN w : j = 1 \/ (j \in Nat /\ j - 1 \in DOMAIN u /\ u[j - 1] = w[j] /\ h[j - 1] = g[j])
  BY DEF IsClosed
<1>2. ASSUME NEW i, NEW x, ItemBelow(w, ls, g, i, x) PROVE ItemBelow(u, ls, h, i, x)
  BY <1>1, <1>2 DEF ItemBelow
<1> QED BY <1>2 DEF Nested

LEMMA NestedStays ==
  ASSUME value' = value, ast' = ast
  PROVE  \A w, ls, g : Nested(w, ls, g)' <=> Nested(w, ls, g)
<1>1. Levels' = Levels
  BY DEF Levels
<1> QED BY <1>1 DEF Nested, LineBelow, ItemBelow, Deeper

LEMMA NodePrinted ==
  ASSUME BuildInv, PrintInv, PrintNode, print' # "asserted",
         NEW a, a = Head(work).node, NEW d, d = Entered
  PROVE  /\ print = "printing" /\ print' = "printing"
         /\ a \in DOMAIN ast /\ d \in Nat /\ d = (IF ast[a].kind = "Program" THEN depth ELSE depth + 1)
         /\ \E last \in BOOLEAN, line \in Line :
              /\ d # depth => last = Head(work).last
              /\ FlagsUsed(d, last) \subseteq Flag
              /\ IsLine(line, a, d, last, depthFlag)
              /\ lines' = Append(lines, line)
              /\ depthFlag' = Cleared(depthFlag, d, last)
              /\ depth' = d
              /\ work' = Children(a) \o <<Close(a)>> \o Tail(work)
<1>1. print = "printing" /\ work # <<>> /\ Head(work).op = "open"
  BY DEF PrintNode, AtWork
<1>2. /\ work \in Seq(WorkItem) /\ depth \in Nat /\ isLast \in Seq(BOOLEAN) /\ Len(isLast) = depth + 1
      /\ depthFlag \in [Flag -> BOOLEAN] /\ build = "built"
  BY <1>1 DEF PrintInv
<1>3. PICK stack : stack = IF d = depth THEN isLast ELSE Append(isLast, Head(work).last)
  OBVIOUS
<1>4. Head(work).last \in BOOLEAN /\ a \in DOMAIN ast
  BY <1>1, <1>2, OpenedWork
<1>5. d = (IF ast[a].kind = "Program" THEN depth ELSE depth + 1) /\ d \in Nat
  BY <1>2 DEF Entered
<1>6. PICK last : last = Last(stack)
  OBVIOUS
<1>7. last \in BOOLEAN /\ (d # depth => last = Head(work).last)
  <2>1. PICK b : b = Head(work).last
    OBVIOUS
  <2>2. Append(isLast, b) \in Seq(BOOLEAN) /\ Len(Append(isLast, b)) = Len(isLast) + 1
        /\ Append(isLast, b)[Len(isLast) + 1] = b
    BY <1>2, <1>4, <2>1
  <2>3. isLast # <<>> /\ Append(isLast, b) # <<>>
    BY <1>2, <2>2
  <2>4. Last(isLast) \in BOOLEAN
    BY <1>2, <2>3, LastOf
  <2>5. Last(Append(isLast, b)) = b
    BY <2>2 DEF Last
  <2>6. stack = IF d = depth THEN isLast ELSE Append(isLast, b)
    BY <1>3, <2>1
  <2> QED BY <1>4, <1>6, <2>1, <2>4, <2>5, <2>6
<1>8. PICK line : line = [node |-> a, depth |-> d, last |-> last, bars |-> [i \in 1..(d - 1) |-> depthFlag[i]]]
  OBVIOUS
<1>9. FlagsUsed(d, last) \subseteq Flag
  BY <1>3, <1>6 DEF PrintNode
<1>10. /\ lines' = Append(lines, line) /\ depth' = d /\ print' = print
       /\ depthFlag' = [i \in Flag |-> IF last /\ i = d THEN FALSE ELSE depthFlag[i]]
       /\ work' = Children(a) \o <<Close(a)>> \o Tail(work)
  BY <1>3, <1>6, <1>8, <1>9 DEF PrintNode
<1>11. line \in Line
  <2>1. \A i \in 1..(d - 1) : depthFlag[i] \in BOOLEAN
    BY <1>2, <1>9 DEF FlagsUsed
  <2>2. [i \in 1..(d - 1) |-> depthFlag[i]] \in [1..(d - 1) -> BOOLEAN] /\ d - 1 \in Int
    BY <1>5, <2>1
  <2> QED BY <1>4, <1>5, <1>7, <1>8, <2>2 DEF Line
<1> QED BY <1>1, <1>4, <1>5, <1>7, <1>8, <1>9, <1>10, <1>11 DEF IsLine, Cleared

LEMMA WalkStays ==
  ASSUME value' = value, ast' = ast
  PROVE  \A w, ls, dep, g : Walk(w, ls, dep, g)' <=> Walk(w, ls, dep, g)
<1> TAKE w, ls, dep, g
<1>1. Levels' = Levels
  BY DEF Levels
<1>2. DepthsOK(w, g)' <=> DepthsOK(w, g)
  BY <1>1 DEF DepthsOK
<1>3. Covered(w, ls, g)' <=> Covered(w, ls, g)
  BY DEF Covered, HasLine, HasItem
<1> QED BY <1>2, <1>3 DEF Walk, AtDepth

LEMMA BarsStart ==
  ASSUME BuildInv, ProgramInv, PrintInv, DrawInv, StartPrint, depthFlag = [i \in Flag |-> TRUE]
  PROVE  BarsInv'
<1>1. /\ build = "built" /\ print = "waiting" /\ print' = "printing"
      /\ work' = <<Open(value[Root], FALSE)>>
      /\ value' = value /\ ast' = ast /\ depth' = depth /\ lines' = lines /\ depthFlag' = depthFlag
  BY DEF StartPrint, bvars
<1>2. depth = 0 /\ lines = <<>>
  BY <1>1 DEF DrawInv
<1>3. PICK w, ls, x, flags : /\ w = work' /\ ls = <<>> /\ x = Open(value[Root], FALSE)
                             /\ flags = depthFlag
  OBVIOUS
<1>4. PICK g : Walk(w, <<>>, 0, g)
  BY <1>1, <1>3, Beginning
<1>5. DOMAIN w = {1} /\ w[1].op = "open" /\ w[1].node = value[Root]
  <2>1. DOMAIN w = {1} /\ w[1] = x
    BY <1>1, <1>3
  <2> QED BY <1>3, <2>1 DEF Open
<1>6. g[1] = 0 \/ g[1] > 0
  BY <1>4, <1>5 DEF Walk, DepthsOK
<1>7. g[1] = 0 /\ g[1] \in Nat
  BY <1>4, <1>5 DEF Walk, DepthsOK
<1>8. Drawn(ls, w, g)
  <2>1. DOMAIN ls = {}
    BY <1>3
  <2> QED BY <2>1 DEF Drawn
<1>9. FlagsSet(flags, 0, w, g)
  <2>1. ASSUME NEW d \in Flag, d > 0 PROVE flags[d] /\ ~(d <= 0)
    BY <1>3, <2>1, FlagAssumption DEF Flag
  <2> QED BY <2>1 DEF FlagsSet
<1>10. LastOnes(w, g) /\ Falling(w, g)
  BY <1>5, <1>7 DEF LastOnes, Falling
<1>11. Walk(w, ls, 0, g) /\ Bars(w, ls, 0, flags, g)
  BY <1>3, <1>4, <1>8, <1>9, <1>10 DEF Bars
<1>12. Walk(w, ls, 0, g)'
  BY <1>1, <1>11, WalkStays
<1>13. Nested(w, ls, g)'
  <2>1. DOMAIN ls = {}
    BY <1>3
  <2>2. Nested(w, ls, g)
    BY <2>1 DEF Nested
  <2> QED BY <1>1, <2>2, NestedStays
<1> QED BY <1>1, <1>2, <1>3, <1>11, <1>12, <1>13 DEF BarsInv

LEMMA BarsNode ==
  ASSUME BuildInv, ProgramInv, PrintInv, DrawInv, BarsInv, PrintNode
  PROVE  BarsInv'
<1> SUFFICES ASSUME print' # "asserted" PROVE BarsInv'
  BY DEF BarsInv
<1>1. /\ print = "printing" /\ work # <<>> /\ Head(work).op = "open"
      /\ value' = value /\ ast' = ast
  BY DEF PrintNode, AtWork, bvars
<1>2. /\ work \in Seq(WorkItem) /\ depth \in Nat /\ depthFlag \in [Flag -> BOOLEAN] /\ build = "built"
      /\ lines \in Seq(Line)
  BY <1>1 DEF PrintInv, DrawInv
<1>3. PICK w, ls, dep, flags, a, d :
        /\ w = work /\ ls = lines /\ dep = depth /\ flags = depthFlag
        /\ a = Head(work).node /\ d = Entered
  OBVIOUS
<1>4. PICK g : Walk(w, ls, dep, g) /\ Bars(w, ls, dep, flags, g) /\ Nested(w, ls, g)
  BY <1>1, <1>3 DEF BarsInv
<1>5. /\ print' = "printing" /\ a \in DOMAIN ast /\ d \in Nat
      /\ d = (IF ast[a].kind = "Program" THEN dep ELSE dep + 1)
  <2>1. a = Head(work).node /\ d = Entered /\ dep = depth
    BY <1>3
  <2>2. /\ print' = "printing" /\ a \in DOMAIN ast /\ d \in Nat
        /\ d = (IF ast[a].kind = "Program" THEN depth ELSE depth + 1)
    BY ONLY BuildInv, PrintInv, PrintNode, print' # "asserted", <2>1, NodePrinted
  <2> QED BY ONLY <2>1, <2>2
<1>6. PICK last \in BOOLEAN, line \in Line :
              /\ d # depth => last = Head(work).last
              /\ FlagsUsed(d, last) \subseteq Flag
              /\ IsLine(line, a, d, last, depthFlag)
              /\ lines' = Append(lines, line)
              /\ depthFlag' = Cleared(depthFlag, d, last)
              /\ depth' = d
              /\ work' = Children(a) \o <<Close(a)>> \o Tail(work)
  <2>1. a = Head(work).node /\ d = Entered
    BY <1>3
  <2> QED BY ONLY BuildInv, PrintInv, PrintNode, print' # "asserted", <2>1, NodePrinted
<1>7. PICK u, m, k : u = work' /\ m = lines' /\ k = depthFlag'
  OBVIOUS
<1>8. /\ w \in Seq(WorkItem) /\ w # <<>> /\ Head(w).op = "open" /\ ls \in Seq(Line)
      /\ a = Head(w).node /\ line.node = a /\ line.depth = d /\ m = Append(ls, line)
      /\ u = Children(a) \o <<Close(a)>> \o Tail(w) /\ dep \in Nat /\ flags \in [Flag -> BOOLEAN]
  BY <1>1, <1>2, <1>3, <1>6, <1>7 DEF IsLine
<1>9. \E h, n : Walk(u, m, d, h) /\ IsOpened(w, g, u, h, a, d, n)
  BY <1>2, <1>4, <1>5, <1>8, Opening
<1>10. PICK h, n : Walk(u, m, d, h) /\ IsOpened(w, g, u, h, a, d, n)
  BY <1>9
<1>11. \A i \in 1..n : u[i].last <=> i = n
  <2>1. PICK c : c = Children(a)
    OBVIOUS
  <2>2. \A i \in DOMAIN c : c[i].last <=> i = Len(c)
    BY <1>5, <2>1, ChildrenType
  <2>3. n \in Nat /\ DOMAIN c = 1..n /\ \A i \in 1..n : u[i] = c[i]
    BY <1>10, <2>1 DEF IsOpened
  <2>4. c \in Seq([op : {"open"}, node : Items(ast[a].parts), last : BOOLEAN])
    BY <1>5, <2>1, ChildrenType
  <2>5. Len(c) = n
    BY <2>3, <2>4
  <2> QED BY <2>2, <2>3, <2>5
<1>12. /\ 1 \in DOMAIN w /\ Head(w) = w[1] /\ w[1].last \in BOOLEAN
       /\ d = g[1] /\ dep = IF d = 0 THEN 0 ELSE d - 1
       /\ \A j \in DOMAIN w : j \in Nat \ {0} /\ g[j] \in Nat
  <2>1. 1 \in DOMAIN w /\ Head(w) = w[1] /\ Head(w) \in WorkItem /\ DOMAIN w \subseteq Nat \ {0}
    BY <1>8
  <2>2. w[1].last \in BOOLEAN
    BY <2>1 DEF WorkItem
  <2>3. d = g[1]
    <3>1. /\ BuildInv /\ ProgramInv /\ build = "built" /\ w \in Seq(WorkItem) /\ w # <<>> /\ Head(w).op = "open"
          /\ Walk(w, ls, dep, g) /\ a = Head(w).node /\ d = IF ast[a].kind = "Program" THEN dep ELSE dep + 1
      BY <1>2, <1>4, <1>5, <1>8
    <3> QED BY ONLY <3>1, NextDepth
  <2>4. \A j \in DOMAIN w : g[j] \in Nat
    BY <1>4 DEF Walk, DepthsOK
  <2>5. dep = IF d = 0 THEN 0 ELSE d - 1
    BY <1>4, <1>8, <2>3 DEF Walk, AtDepth
  <2> QED BY <2>1, <2>2, <2>3, <2>4, <2>5
<1>13. d > 0 => last = w[1].last
  BY <1>3, <1>5, <1>6, <1>12
<1>14. Bars(u, m, d, k, h)
  <2>1. IsLine(line, a, d, last, flags)
    BY <1>3, <1>6
  <2>2. k = Cleared(flags, d, last)
    BY <1>3, <1>6, <1>7
  <2>3. w[1].op = "open" /\ g[1] = d
    BY <1>8, <1>12
  <2>4. /\ ls \in Seq(Line) /\ dep \in Nat /\ flags \in [Flag -> BOOLEAN] /\ Bars(w, ls, dep, flags, g)
        /\ d \in Nat /\ line \in Line /\ m = Append(ls, line)
        /\ IsOpened(w, g, u, h, a, d, n) /\ OneLast(u, n)
    BY <1>4, <1>5, <1>6, <1>8, <1>10, <1>11 DEF OneLast
  <2>5. IsNext(w, g, dep, d, last)
    BY <1>6, <1>12, <1>13, <2>3 DEF IsNext
  <2> QED BY ONLY <2>1, <2>2, <2>4, <2>5, OpenedBars
<1>15. Walk(u, m, d, h)'
  BY <1>1, <1>10, WalkStays
<1>16. Nested(u, m, h)
  <2>1. d \in DOMAIN Levels /\ a \in Levels[d]
    <3>1. /\ BuildInv /\ ProgramInv /\ build = "built" /\ w \in Seq(WorkItem) /\ w # <<>> /\ Head(w).op = "open"
          /\ Walk(w, ls, dep, g) /\ a = Head(w).node /\ d = IF ast[a].kind = "Program" THEN dep ELSE dep + 1
      BY <1>2, <1>4, <1>5, <1>8
    <3> QED BY ONLY <3>1, NextDepth
  <2>2. \A x \in Items(ast[a].parts) : \E i \in 1..n : u[i].node = x
    <3>1. PICK c : c = Children(a)
      OBVIOUS
    <3>2. \A x \in Items(ast[a].parts) : \E i \in DOMAIN c : c[i].node = x
      BY <1>5, <3>1, ChildrenType
    <3>3. DOMAIN c = 1..n /\ \A i \in 1..n : u[i] = c[i]
      BY <1>10, <3>1 DEF IsOpened
    <3> QED BY <3>2, <3>3
  <2>3. /\ ls \in Seq(Line) /\ line \in Line /\ m = Append(ls, line) /\ d \in Nat
        /\ line.node = a /\ line.depth = d /\ IsOpened(w, g, u, h, a, d, n)
        /\ \A j \in DOMAIN w : j \in Nat \ {0} /\ g[j] \in Nat
        /\ 1 \in DOMAIN w /\ w[1].node = a /\ g[1] = d /\ Falling(w, g) /\ Nested(w, ls, g)
    BY <1>4, <1>5, <1>8, <1>10, <1>12 DEF Bars
  <2> QED BY ONLY <2>1, <2>2, <2>3, OpenedNested
<1>17. Nested(u, m, h)'
  BY <1>1, <1>16, NestedStays
<1> QED BY <1>5, <1>6, <1>7, <1>14, <1>15, <1>17 DEF BarsInv

LEMMA BarsEnd ==
  ASSUME BuildInv, ProgramInv, PrintInv, DrawInv, BarsInv, CloseNode
  PROVE  BarsInv'
<1>1. /\ print = "printing" /\ work # <<>> /\ Head(work).op = "close"
      /\ value' = value /\ ast' = ast /\ lines' = lines
  BY DEF CloseNode, AtWork, bvars
<1>2. /\ work \in Seq(WorkItem) /\ depth \in Nat /\ build = "built" /\ depthFlag \in [Flag -> BOOLEAN]
      /\ lines \in Seq(Line)
  BY <1>1 DEF PrintInv, DrawInv
<1>3. PICK w, ls, dep, u, flags :
        w = work /\ ls = lines /\ dep = depth /\ u = Tail(work) /\ flags = depthFlag
  OBVIOUS
<1>4. PICK g : Walk(w, ls, dep, g) /\ Bars(w, ls, dep, flags, g) /\ Nested(w, ls, g)
  BY <1>1, <1>3 DEF BarsInv
<1>5. PICK e, k : e = (IF dep = 0 THEN 0 ELSE dep - 1) /\ k = Reset(flags, dep)
  OBVIOUS
<1>6. CASE depth \in Flag
  <2>1. /\ depth' = e /\ work' = u /\ depthFlag' = k
    BY <1>3, <1>5, <1>6 DEF CloseNode
  <2>2. dep < FlagCount /\ dep \in Flag
    BY <1>3, <1>6, FlagAssumption DEF Flag
  <2>3. /\ w \in Seq(WorkItem) /\ w # <<>> /\ Head(w).op = "close" /\ ls \in Seq(Line) /\ dep \in Nat
        /\ u = Tail(w)
    BY <1>1, <1>2, <1>3
  <2>4. PICK h : Walk(u, ls, e, h) /\ IsClosed(w, g, u, h)
    BY <1>2, <1>4, <1>5, <2>2, <2>3, Closing
  <2>5. w[1].op # "open" /\ flags \in [Flag -> BOOLEAN]
    BY <1>2, <1>3, <2>3
  <2>6. Bars(u, ls, e, k, h)
    BY <1>4, <1>5, <2>2, <2>3, <2>4, <2>5, ClosedBars
  <2>7. Walk(u, ls, e, h)'
    BY <1>1, <2>4, WalkStays
  <2>8. lines' = ls
    BY <1>1, <1>3
  <2>9. Nested(u, ls, h)
    BY <1>4, <2>4, <2>5, ClosedNested
  <2>10. Nested(u, ls, h)'
    BY <1>1, <2>9, NestedStays
  <2> QED BY <2>1, <2>6, <2>7, <2>8, <2>10 DEF BarsInv
<1>7. CASE depth \notin Flag
  BY <1>7 DEF CloseNode, BarsInv
<1> QED BY <1>6, <1>7

\* Until the printing begins no flag is cleared.
FlagsInv == print = "waiting" => depthFlag = [i \in Flag |-> TRUE]

LEMMA FlagsInvariance == PSpec => []FlagsInv
<1>1. PInit => FlagsInv
  BY DEF PInit, FlagsInv
<1>2. FlagsInv /\ [PNext]_allvars => FlagsInv'
  <2> SUFFICES ASSUME FlagsInv, [PNext]_allvars PROVE FlagsInv'
    OBVIOUS
  <2>1. ASSUME Build \/ UNCHANGED allvars PROVE FlagsInv'
    BY <2>1 DEF Build, allvars, pvars, FlagsInv
  <2>2. ASSUME StartPrint \/ PrintNode \/ CloseNode PROVE FlagsInv'
    <3>1. print' # "waiting"
      BY <2>2 DEF StartPrint, PrintNode, CloseNode, AtWork
    <3> QED BY <3>1 DEF FlagsInv
  <2> QED BY <2>1, <2>2 DEF PNext
<1> QED BY <1>1, <1>2, PTL DEF PSpec

LEMMA BarsInvariance == PSpec => []BarsInv
<1>1. PInit => BarsInv
  BY DEF PInit, BarsInv
<1>2. BuildInv /\ ProgramInv /\ PrintInv /\ DrawInv /\ FlagsInv /\ BarsInv /\ [PNext]_allvars => BarsInv'
  <2> SUFFICES ASSUME BuildInv, ProgramInv, PrintInv, DrawInv, FlagsInv, BarsInv, [PNext]_allvars
               PROVE  BarsInv'
    OBVIOUS
  <2>1. ASSUME Build PROVE BarsInv'
    <3>1. build = "visiting" /\ UNCHANGED pvars
      BY <2>1 DEF Build, BNext, VisitNode, VisitNull, KeepField, DropField, MakeNode, MakeFor, MakeIf,
                  MakeObject, At
    <3>2. print' = "waiting"
      BY <3>1 DEF PrintInv, pvars
    <3> QED BY <3>2 DEF BarsInv
  <2>2. ASSUME UNCHANGED allvars PROVE BarsInv'
    <3>1. /\ print' = print /\ work' = work /\ lines' = lines /\ depth' = depth /\ depthFlag' = depthFlag
          /\ value' = value /\ ast' = ast
      BY <2>2 DEF allvars, bvars, pvars
    <3> SUFFICES ASSUME print \in {"printing", "printed"}
                 PROVE  \E g : /\ Walk(work, lines, depth, g)' /\ Bars(work, lines, depth, depthFlag, g)'
                               /\ Nested(work, lines, g)'
      BY <3>1 DEF BarsInv
    <3>2. PICK w, ls, dep, flags : w = work /\ ls = lines /\ dep = depth /\ flags = depthFlag
      OBVIOUS
    <3>3. PICK g : Walk(w, ls, dep, g) /\ Bars(w, ls, dep, flags, g) /\ Nested(w, ls, g)
      BY <3>2 DEF BarsInv
    <3>4. Walk(w, ls, dep, g)' /\ Nested(w, ls, g)'
      BY <3>1, <3>3, WalkStays, NestedStays
    <3> QED BY <3>1, <3>2, <3>3, <3>4
  <2>3. ASSUME StartPrint PROVE BarsInv'
    <3>1. print = "waiting"
      BY <2>3 DEF StartPrint
    <3> QED BY <2>3, <3>1, BarsStart DEF FlagsInv
  <2> QED BY <2>1, <2>2, <2>3, BarsNode, BarsEnd DEF PNext
<1> QED BY <1>1, <1>2, BuildInvariance, ProgramInvariance, PrintInvariance, DrawInvariance, FlagsInvariance,
           PTL DEF PSpec

\* Of the lines that one looks for there is a first one.
LEMMA FirstLine ==
  ASSUME NEW N \in Nat, NEW S \in SUBSET (1..N), S # {}
  PROVE  \E j \in S : \A k \in S : j <= k
<1> SUFFICES ASSUME \A j \in S : \E k \in S : ~(j <= k) PROVE FALSE
  OBVIOUS
<1> DEFINE G == {t \in 0..N : \A k \in S : k > t}
<1>1. 0 \in G
  OBVIOUS
<1>2. ASSUME NEW t \in 0..N, t \in G, t < N PROVE t + 1 \in G
  <2>1. ASSUME NEW k \in S PROVE k > t + 1
    <3>1. k > t /\ k \in Nat
      BY <1>2
    <3>2. k # t + 1
      BY <1>2
    <3> QED BY <3>1, <3>2
  <2> QED BY <1>2, <2>1
<1>3. 0..N \subseteq G
  <2> HIDE DEF G
  <2> QED BY <1>1, <1>2, CountUp
<1>4. \A k \in S : k > N
  <2>1. N \in G
    BY <1>3
  <2> QED BY <2>1
<1>5. PICK k \in S : k \in 1..N
  OBVIOUS
<1> QED BY <1>4, <1>5

LEMMA GoesOnFollows ==
  ASSUME lines \in Seq(Line), NEW i \in DOMAIN lines, NEW d \in Nat
  PROVE  GoesOn(i, d) <=> Follows(lines, i, d)
<1>1. PICK ls, N : ls = lines /\ N = Len(lines)
  OBVIOUS
<1>2. N \in Nat /\ DOMAIN ls = 1..N /\ i \in 1..N /\ \A k \in 1..N : ls[k].depth \in Nat
  <2>1. N \in Nat /\ DOMAIN ls = 1..N /\ \A k \in 1..N : ls[k] \in Line
    BY <1>1
  <2> QED BY <1>1, <2>1 DEF Line
<1>3. PICK after : after = {j \in DOMAIN ls : j > i /\ ls[j].depth <= d}
  OBVIOUS
<1>4. after \in SUBSET (1..N)
  BY <1>2, <1>3
<1>5. PICK x : x = NextAtOrAbove(i, d)
  OBVIOUS
<1>6. x = IF after = {} THEN 0 ELSE CHOOSE j \in after : \A k \in after : j <= k
  BY <1>1, <1>3, <1>5 DEF NextAtOrAbove
<1>7. GoesOn(i, d) <=> x # 0 /\ ls[x].depth = d
  BY <1>1, <1>5 DEF GoesOn
<1>8. CASE after = {}
  <2>1. ~Follows(ls, i, d)
    BY <1>2, <1>3, <1>8 DEF Follows
  <2> QED BY <1>1, <1>6, <1>7, <1>8, <2>1
<1>9. CASE after # {}
  <2>1. x \in after /\ \A k \in after : x <= k
    <3>1. \E j \in after : \A k \in after : j <= k
      BY <1>2, <1>4, <1>9, FirstLine
    <3> QED BY <1>6, <1>9, <3>1
  <2>2. x \in 1..N /\ x > i /\ x # 0
    BY <1>2, <1>3, <2>1
  <2>3. ASSUME ls[x].depth = d PROVE Follows(ls, i, d)
    <3>1. \A k \in 1..N : i < k /\ k < x => ls[k].depth > d
      BY <1>2, <1>3, <2>1, <2>2
    <3> QED BY <1>2, <2>2, <2>3, <3>1 DEF Follows
  <2>4. ASSUME Follows(ls, i, d) PROVE ls[x].depth = d
    <3>1. PICK j \in 1..N : /\ j > i /\ ls[j].depth = d
                            /\ \A k \in 1..N : i < k /\ k < j => ls[k].depth > d
      BY <1>2, <2>4 DEF Follows
    <3>2. j \in after
      BY <1>2, <1>3, <3>1
    <3>3. x <= j /\ ls[x].depth <= d
      BY <1>3, <2>1, <3>2
    <3>4. ~(x < j)
      BY <1>2, <2>2, <3>1, <3>3
    <3>5. x = j
      BY <1>2, <2>2, <3>3, <3>4
    <3> QED BY <3>1, <3>5
  <2> QED BY <1>1, <1>7, <2>2, <2>3, <2>4
<1> QED BY <1>8, <1>9

\* BarsConnect: although each line is drawn before those below it, there is a bar
\* in front of it for each ancestor that has a sibling further down, and only for
\* those, and a closing branch if it has none itself.  While it is drawn, a flag
\* is set exactly if a node is waiting at its depth.
THEOREM DrawingConnects == PSpec => []BarsConnect
<1>1. PrintInv /\ DrawInv /\ BarsInv => BarsConnect
  <2> SUFFICES ASSUME PrintInv, DrawInv, BarsInv, print = "printed",
                      NEW i \in DOMAIN lines
               PROVE  /\ \A d \in DOMAIN lines[i].bars : lines[i].bars[d] <=> GoesOn(i, d)
                      /\ lines[i].depth > 0 => (lines[i].last <=> ~GoesOn(i, lines[i].depth))
    BY DEF BarsConnect
  <2>1. work = <<>> /\ lines \in Seq(Line)
    BY DEF DrawInv
  <2>2. PICK g : Bars(work, lines, depth, depthFlag, g)
    BY DEF BarsInv
  <2>3. DOMAIN work = {}
    BY <2>1
  <2>4. \A d : ~Waiting(work, g, d)
    BY <2>3 DEF Waiting
  <2>5. lines[i].depth \in Nat
    <3>1. lines[i] \in Line
      BY <2>1
    <3> QED BY <3>1 DEF Line
  <2>6. \A d \in Nat : WillGoOn(lines, work, g, i, d) <=> GoesOn(i, d)
    BY <2>1, <2>4, GoesOnFollows DEF WillGoOn
  <2>7. /\ DOMAIN lines[i].bars = 1..(lines[i].depth - 1)
        /\ \A d \in 1..(lines[i].depth - 1) : lines[i].bars[d] <=> WillGoOn(lines, work, g, i, d)
        /\ lines[i].depth > 0 => (lines[i].last <=> ~WillGoOn(lines, work, g, i, lines[i].depth))
    BY <2>2 DEF Bars, Drawn
  <2>8. \A d \in 1..(lines[i].depth - 1) : d \in Nat
    BY <2>5
  <2> QED BY <2>5, <2>6, <2>7, <2>8
<1> QED BY <1>1, PrintInvariance, DrawInvariance, BarsInvariance, PTL

-----------------------------------------------------------------------------
(* Nothing is lost: what leads where in a tree.                            *)

\* r has, of each element of D, the element itself and all that e leads to.
IsClosure(r, D, e) == \A d \in D : r[d] = {d} \union UNION {r[x] : x \in e[d]}

\* What r has of d: it is closed, everything else in it is led to by something
\* in it, and it is the least set with d that is closed.
Leads(r, D, e, rank, d) ==
  /\ d \in r[d] /\ r[d] \subseteq D
  /\ \A x \in r[d] : e[x] \subseteq r[d] /\ rank[x] <= rank[d]
  /\ \A x \in r[d] \ {d} : \E y \in r[d] : x \in e[y]
  /\ \A X : d \in X /\ (\A y \in X \intersect D : e[y] \subseteq X) => r[d] \subseteq X

LEMMA Closure ==
  ASSUME NEW D, NEW e, NEW r, NEW rank, NEW N \in Nat, IsClosure(r, D, e),
         \A d \in D : rank[d] \in 0..N /\ e[d] \subseteq D /\ \A x \in e[d] : rank[x] < rank[d]
  PROVE  \A d \in D : Leads(r, D, e, rank, d)
<1> DEFINE G == {k \in 0..(N + 1) : \A d \in D : rank[d] < k => Leads(r, D, e, rank, d)}
<1>1. 0 \in G
  OBVIOUS
<1>2. ASSUME NEW k \in 0..(N + 1), k \in G, k < N + 1 PROVE k + 1 \in G
  <2>1. ASSUME NEW d \in D, rank[d] < k + 1 PROVE Leads(r, D, e, rank, d)
    <3>1. ASSUME NEW y \in e[d] PROVE y \in D /\ Leads(r, D, e, rank, y) /\ rank[y] < rank[d]
      <4>1. y \in D /\ rank[y] < rank[d] /\ rank[y] \in 0..N /\ rank[d] \in 0..N
        OBVIOUS
      <4>2. rank[y] < k
        BY <2>1, <4>1
      <4> QED BY <1>2, <4>1, <4>2
    <3>2. r[d] = {d} \union UNION {r[y] : y \in e[d]}
      BY DEF IsClosure
    <3>3. ASSUME NEW x \in r[d], x # d PROVE \E y \in e[d] : x \in r[y]
      BY <3>2, <3>3
    <3>4. \A y \in e[d] : r[y] \subseteq r[d] /\ y \in r[d]
      BY <3>1, <3>2 DEF Leads
    <3>5. r[d] \subseteq D
      BY <3>1, <3>3 DEF Leads
    <3>6. ASSUME NEW x \in r[d] PROVE e[x] \subseteq r[d] /\ rank[x] <= rank[d]
      <4>1. CASE x = d
        BY <3>4, <4>1
      <4>2. CASE x # d
        <5>1. PICK y \in e[d] : x \in r[y]
          BY <3>3, <4>2
        <5>2. e[x] \subseteq r[y] /\ rank[x] <= rank[y] /\ rank[y] < rank[d]
          BY <3>1, <5>1 DEF Leads
        <5>3. rank[x] \in 0..N /\ rank[y] \in 0..N /\ rank[d] \in 0..N
          BY <3>1, <3>5
        <5> QED BY <3>4, <5>2, <5>3
      <4> QED BY <4>1, <4>2
    <3>7. ASSUME NEW x \in r[d] \ {d} PROVE \E y \in r[d] : x \in e[y]
      <4>1. PICK y \in e[d] : x \in r[y]
        BY <3>3
      <4>2. CASE x = y
        BY <3>2, <4>2
      <4>3. CASE x # y
        BY <3>1, <3>4, <4>1, <4>3 DEF Leads
      <4> QED BY <4>2, <4>3
    <3>8. ASSUME NEW X, d \in X, \A y \in X \intersect D : e[y] \subseteq X PROVE r[d] \subseteq X
      <4>1. \A y \in e[d] : y \in X
        BY <3>8
      <4>2. \A y \in e[d] : r[y] \subseteq X
        BY <3>1, <3>8, <4>1 DEF Leads
      <4> QED BY <3>2, <3>8, <4>2
    <3>9. d \in r[d]
      BY <3>2
    <3> QED BY <3>5, <3>6, <3>7, <3>8, <3>9 DEF Leads
  <2>2. k + 1 \in 0..(N + 1)
    BY <1>2
  <2> QED BY <2>1, <2>2
<1>3. N + 1 \in G
  <2> HIDE DEF G
  <2>1. N + 1 \in Nat
    OBVIOUS
  <2>2. 0..(N + 1) \subseteq G
    BY <1>1, <1>2, <2>1, CountUp
  <2> QED BY <2>2
<1> QED BY <1>3


-----------------------------------------------------------------------------
(* Each method is run once: what a step does to the steps still to come.   *)

\* Still to be visited or made; still to be made.
Doing(u, k) == \E i \in DOMAIN u : u[i].op # "field" /\ u[i].node = k
Making(u, k) == \E i \in DOMAIN u : u[i].op = "make" /\ u[i].node = k

\* A node is visited or made once and then has its value; and it is, or was,
\* visited by its parent.
OnceOK(u, d) ==
  /\ \A i \in DOMAIN u : u[i].op # "field" /\ u[i].node # Null => u[i].node \notin d
  /\ \A i \in DOMAIN u, j \in DOMAIN u :
       i # j /\ u[i].op # "field" /\ u[j].op # "field" /\ u[i].node = u[j].node => u[i].node = Null
  /\ \A m \in DOMAIN tree : \A k \in Items(tree[m].parts) \ {Null} :
       k \in d \/ Doing(u, k) => m \in d \/ Making(u, m)

\* Only object literals have fields; and of a literal whose node is still to be
\* made, each repeated field is in g or still to be dropped before.
WillDrop(u, g) ==
  /\ \A i \in DOMAIN u : u[i].op = "field" => tree[u[i].node].kind = "Object"
  /\ \A i \in DOMAIN u : u[i].op = "make" /\ tree[u[i].node].kind = "Object" =>
       \A k \in DOMAIN Kids(u[i].node) : IsRepeated(u[i].node, k) =>
         \/ Kids(u[i].node)[k] \in g
         \/ \E q \in DOMAIN u : q < i /\ u[q] = Field(u[i].node, k)

\* The repeated fields of a literal are reported when its node has been made,
\* and nothing else is.
DiagsOK(u, d, g) ==
  /\ WillDrop(u, g)
  /\ \A n \in d : tree[n].kind = "Object" =>
       \A k \in DOMAIN Kids(n) : IsRepeated(n, k) => Kids(n)[k] \in g
  /\ \A x \in g : \E n \in DOMAIN tree : \E k \in DOMAIN Kids(n) :
       tree[n].kind = "Object" /\ IsRepeated(n, k) /\ x = Kids(n)[k]

\* The tail of the steps.
LEMMA TailShape ==
  ASSUME NEW u \in Seq(Step), u # <<>>, NEW w, w = Tail(u)
  PROVE  /\ Head(u) = u[1] /\ 1 \in DOMAIN u
         /\ \A i \in DOMAIN u : i \in Nat /\ (i # 1 => i > 1 /\ i - 1 \in DOMAIN w /\ w[i - 1] = u[i])
         /\ \A i \in DOMAIN w : i \in Nat /\ i + 1 \in DOMAIN u /\ i + 1 > 1 /\ w[i] = u[i + 1]
<1>1. PICK m : m = Len(u)
  OBVIOUS
<1>2. /\ m \in Nat /\ m >= 1 /\ DOMAIN u = 1..m /\ Head(u) = u[1]
      /\ w \in Seq(Step) /\ Len(w) = m - 1 /\ \A i \in 1..(m - 1) : w[i] = u[i + 1]
  BY <1>1
<1>3. DOMAIN w = 1..(m - 1)
  BY <1>2
<1>4. ASSUME NEW i \in 1..m, i # 1 PROVE i > 1 /\ i - 1 \in 1..(m - 1) /\ (i - 1) + 1 = i
  BY <1>2, <1>4
<1>5. \A i \in 1..(m - 1) : i \in Nat /\ i + 1 \in 1..m /\ i + 1 > 1
  BY <1>2
<1> QED BY <1>2, <1>3, <1>4, <1>5

\* A step that is not the first of its list is still to come.
LEMMA OnceMade ==
  ASSUME NEW u \in Seq(Step), u # <<>>, NEW d, OnceOK(u, d), NEW w, w = Tail(u),
         NEW n, n = Head(u).node, n # Null, Head(u).op = "make", NEW e, e = d \union {n}
  PROVE  OnceOK(w, e) /\ n \notin d
<1>1. /\ Head(u) = u[1] /\ 1 \in DOMAIN u
      /\ \A i \in DOMAIN u : i \in Nat /\ (i # 1 => i > 1 /\ i - 1 \in DOMAIN w /\ w[i - 1] = u[i])
      /\ \A i \in DOMAIN w : i \in Nat /\ i + 1 \in DOMAIN u /\ i + 1 > 1 /\ w[i] = u[i + 1]
  BY TailShape
<1>2. n \notin d
  BY <1>1 DEF OnceOK
<1>3. ASSUME NEW i \in DOMAIN w, w[i].op # "field", w[i].node # Null PROVE w[i].node \notin e
  <2>1. i + 1 \in DOMAIN u /\ i + 1 # 1 /\ w[i] = u[i + 1]
    BY <1>1
  <2>2. u[i + 1].node \notin d
    BY <1>3, <2>1 DEF OnceOK
  <2>3. u[i + 1].node # u[1].node
    BY <1>1, <1>3, <2>1 DEF OnceOK
  <2> QED BY <1>1, <2>1, <2>2, <2>3
<1>4. ASSUME NEW i \in DOMAIN w, NEW j \in DOMAIN w, i # j, w[i].op # "field", w[j].op # "field",
             w[i].node = w[j].node
      PROVE  w[i].node = Null
  <2>1. i + 1 \in DOMAIN u /\ j + 1 \in DOMAIN u /\ w[i] = u[i + 1] /\ w[j] = u[j + 1] /\ i + 1 # j + 1
    BY <1>1, <1>4
  <2> QED BY <1>4, <2>1 DEF OnceOK
<1>5. ASSUME NEW m \in DOMAIN tree, NEW k \in Items(tree[m].parts) \ {Null}, k \in e \/ Doing(w, k)
      PROVE  m \in e \/ Making(w, m)
  <2>1. k \in d \/ Doing(u, k)
    <3>1. CASE k \in d
      BY <3>1
    <3>2. CASE k = n
      BY <1>1, <3>2 DEF Doing
    <3>3. CASE Doing(w, k)
      BY <1>1, <3>3 DEF Doing
    <3> QED BY <1>5, <3>1, <3>2, <3>3
  <2>2. CASE m \in d
    BY <2>2
  <2>3. CASE Making(u, m)
    <3>1. PICK i \in DOMAIN u : u[i].op = "make" /\ u[i].node = m
      BY <2>3 DEF Making
    <3>2. CASE i = 1
      BY <1>1, <3>1, <3>2
    <3>3. CASE i # 1
      BY <1>1, <3>1, <3>3 DEF Making
    <3> QED BY <3>2, <3>3
  <2> QED BY <2>1, <2>2, <2>3 DEF OnceOK
<1> QED BY <1>2, <1>3, <1>4, <1>5 DEF OnceOK

\* A field is no visit and makes no node.
LEMMA OnceField ==
  ASSUME NEW u \in Seq(Step), u # <<>>, NEW d, OnceOK(u, d), NEW w, w = Tail(u), Head(u).op = "field"
  PROVE  OnceOK(w, d)
<1>1. /\ Head(u) = u[1] /\ 1 \in DOMAIN u
      /\ \A i \in DOMAIN u : i \in Nat /\ (i # 1 => i > 1 /\ i - 1 \in DOMAIN w /\ w[i - 1] = u[i])
      /\ \A i \in DOMAIN w : i \in Nat /\ i + 1 \in DOMAIN u /\ i + 1 > 1 /\ w[i] = u[i + 1]
  BY TailShape
<1>2. ASSUME NEW i \in DOMAIN w, NEW j \in DOMAIN w, i # j, w[i].op # "field", w[j].op # "field",
             w[i].node = w[j].node
      PROVE  w[i].node = Null
  <2>1. i + 1 \in DOMAIN u /\ j + 1 \in DOMAIN u /\ w[i] = u[i + 1] /\ w[j] = u[j + 1] /\ i + 1 # j + 1
    BY <1>1, <1>2
  <2> QED BY <1>2, <2>1 DEF OnceOK
<1>3. \A k : Doing(w, k) => Doing(u, k)
  BY <1>1 DEF Doing
<1>4. ASSUME NEW k, Making(u, k) PROVE Making(w, k)
  <2>1. PICK i \in DOMAIN u : u[i].op = "make" /\ u[i].node = k
    BY <1>4 DEF Making
  <2>2. i # 1
    BY <1>1, <2>1
  <2> QED BY <1>1, <2>1, <2>2 DEF Making
<1>5. \A i \in DOMAIN w : w[i].op # "field" /\ w[i].node # Null => w[i].node \notin d
  BY <1>1 DEF OnceOK
<1>6. ASSUME NEW m \in DOMAIN tree, NEW k \in Items(tree[m].parts) \ {Null}, k \in d \/ Doing(w, k)
      PROVE  m \in d \/ Making(w, m)
  <2>1. m \in d \/ Making(u, m)
    BY <1>3, <1>6 DEF OnceOK
  <2> QED BY <1>4, <2>1
<1> QED BY <1>2, <1>5, <1>6 DEF OnceOK

\* The visit of n, the first of the steps u, has given way to the visits v and,
\* at the place K, the making of the node.
IsExpanded(u, w, v, K, n) ==
  /\ Head(u) = u[1] /\ 1 \in DOMAIN u /\ K \in DOMAIN w /\ w[K] = Make(n)
  /\ \A i \in DOMAIN v : i \in DOMAIN w /\ i < K /\ w[i] = v[i]
  /\ \A j \in DOMAIN u : j \in Nat /\ (j # 1 => j > 1 /\ K + j - 1 \in DOMAIN w /\ w[K + j - 1] = u[j])
  /\ \A i \in DOMAIN w : i \in Nat
  /\ \A i \in DOMAIN w : i \in DOMAIN v \/ i = K \/ \E j \in DOMAIN u : j > 1 /\ i = K + j - 1 /\ w[i] = u[j]

LEMMA ExpandedShape ==
  ASSUME tree \in Trees, NEW u \in Seq(Step), u # <<>>, NEW n \in DOMAIN tree, NEW w, w = Steps(n) \o Tail(u)
  PROVE  \E v, K : IsExpanded(u, w, v, K, n) /\ IsVisits(v, n) /\ IsOnce(v, n)
<1>1. PICK v : Steps(n) = v \o <<Make(n)>> /\ IsVisits(v, n) /\ IsOnce(v, n)
  BY StepsShape
<1>2. PICK f, K, L : f = Steps(n) /\ K = Len(f) /\ L = Len(v)
  OBVIOUS
<1>3. v \in Seq(Step) /\ Make(n) \in Step
  BY <1>1, KidsOf, StepType DEF IsVisits
<1>4. /\ f \in Seq(Step) /\ L \in Nat /\ K = L + 1 /\ DOMAIN v = 1..L /\ DOMAIN f = 1..K
      /\ \A q \in 1..L : f[q] = v[q]
      /\ f[K] = Make(n)
  BY <1>1, <1>2, <1>3
<1>5. w \in Seq(Step) /\ IsReplaced(u, f, w, K)
  <2>1. u # <<>> /\ K = Len(f) /\ w = f \o Tail(u) /\ f \in Seq(Step) /\ u \in Seq(Step)
    BY <1>2, <1>4
  <2> QED BY <2>1, Replaced
<1>6. \A q \in 1..L : q \in 1..K /\ q < K
  BY <1>4
<1>7. \A q \in 1..K : q \in 1..L \/ q = K
  BY <1>4
<1>8. K \in 1..K
  BY <1>4
<1>9. \A j \in DOMAIN u : j \in Nat /\ (j # 1 => j > 1)
  OBVIOUS
<1>10. IsExpanded(u, w, v, K, n)
  BY <1>4, <1>5, <1>6, <1>7, <1>8, <1>9 DEF IsReplaced, IsExpanded
<1> QED BY <1>1, <1>10

LEMMA OnceVisit ==
  ASSUME tree \in Trees, NEW u \in Seq(Step), u # <<>>, NEW d, OnceOK(u, d), Head(u).op = "visit",
         NEW n \in DOMAIN tree, n = Head(u).node, NEW w, w = Steps(n) \o Tail(u)
  PROVE  OnceOK(w, d)
<1>1. PICK v, K : IsExpanded(u, w, v, K, n) /\ IsVisits(v, n) /\ IsOnce(v, n)
  BY ExpandedShape
<1>2. n # Null /\ n \in Nat
  <2>1. tree \in Seq(ParseNode)
    BY TreeAssumption
  <2> QED BY <2>1 DEF Null
<1>3. u[1].op = "visit" /\ u[1].node = n /\ 1 \in DOMAIN u
  BY <1>1 DEF IsExpanded
<1>4. n \notin d /\ ~Making(u, n)
  <2>1. n \notin d
    BY <1>2, <1>3 DEF OnceOK
  <2>2. ASSUME NEW i \in DOMAIN u, u[i].op = "make", u[i].node = n PROVE FALSE
    BY <1>2, <1>3, <2>2 DEF OnceOK
  <2> QED BY <2>1, <2>2 DEF Making
<1>5. \A k \in Items(tree[n].parts) \ {Null} : k \notin d /\ ~Doing(u, k)
  BY <1>4 DEF OnceOK
<1>6. ASSUME NEW i \in DOMAIN v, v[i].op # "field"
      PROVE  v[i].op = "visit" /\ v[i].node \in Items(tree[n].parts)
  <2>1. ASSUME NEW k \in Items(tree[n].parts), v[i] = Visit(k) PROVE v[i].op = "visit" /\ v[i].node = k
    <3>1. k \in Nat
      BY KidsOf
    <3> QED BY <2>1, <3>1, StepType
  <2>2. ASSUME NEW k, v[i] = Field(n, k) PROVE FALSE
    BY <1>6, <2>2 DEF Field
  <2> QED BY <1>1, <2>1, <2>2 DEF IsVisits
<1>7. Make(n).op = "make" /\ Make(n).node = n
  BY DEF Make
<1>8. ASSUME NEW i \in DOMAIN w, w[i].op # "field"
      PROVE  \/ /\ i \in DOMAIN v /\ i < K /\ w[i] = v[i] /\ v[i].op = "visit"
                /\ w[i].node \in Items(tree[n].parts)
             \/ i = K /\ w[i].node = n
             \/ \E j \in DOMAIN u : j > 1 /\ i = K + j - 1 /\ w[i] = u[j]
  BY <1>1, <1>6, <1>7, <1>8 DEF IsExpanded
<1>9. ASSUME NEW i \in DOMAIN w, w[i].op # "field", w[i].node # Null PROVE w[i].node \notin d
  <2>1. CASE w[i].node \in Items(tree[n].parts)
    BY <1>5, <1>9, <2>1
  <2>2. CASE w[i].node = n
    BY <1>4, <2>2
  <2>3. ASSUME NEW j \in DOMAIN u, w[i] = u[j] PROVE w[i].node \notin d
    BY <1>9, <2>3 DEF OnceOK
  <2> QED BY <1>8, <1>9, <2>1, <2>2, <2>3
<1>10. ASSUME NEW j \in DOMAIN u, u[j].op # "field" PROVE Doing(u, u[j].node)
  BY <1>10 DEF Doing
<1>11. \A j \in DOMAIN u : j \in Nat /\ K \in Nat
  BY <1>1 DEF IsExpanded
<1>12. ASSUME NEW i \in DOMAIN w, NEW j \in DOMAIN w, i < j, w[i].op # "field", w[j].op # "field",
              w[i].node = w[j].node
       PROVE  w[i].node = Null
  <2>1. CASE i \in DOMAIN v /\ i < K /\ w[i] = v[i] /\ v[i].op = "visit" /\ w[i].node \in Items(tree[n].parts)
    <3>1. CASE j \in DOMAIN v /\ w[j] = v[j] /\ v[j].op = "visit"
      <4>1. i # j
        BY <1>1, <1>12 DEF IsExpanded
      <4> QED BY <1>1, <1>12, <2>1, <3>1, <4>1 DEF IsOnce
    <3>2. CASE w[j].node = n
      <4>1. n = Null \/ n > n
        BY <1>12, <2>1, <3>2, KidsOf
      <4> QED BY <1>2, <4>1
    <3>3. ASSUME NEW q \in DOMAIN u, w[j] = u[q] PROVE w[i].node = Null
      BY <1>5, <1>10, <1>12, <2>1, <3>3
    <3> QED BY <1>8, <1>12, <3>1, <3>2, <3>3
  <2>2. CASE i = K /\ w[i].node = n
    <3>1. ~(j < K) /\ j # K
      BY <1>1, <1>12, <2>2 DEF IsExpanded
    <3>2. PICK q \in DOMAIN u : q > 1 /\ w[j] = u[q]
      BY <1>8, <1>12, <3>1
    <3>3. q # 1
      BY <1>11, <3>2
    <3> QED BY <1>2, <1>3, <1>12, <2>2, <3>2, <3>3 DEF OnceOK
  <2>3. ASSUME NEW p \in DOMAIN u, p > 1, i = K + p - 1, w[i] = u[p] PROVE w[i].node = Null
    <3>1. ~(j < K) /\ j # K
      <4>1. j \in Nat /\ K \in Nat /\ p \in Nat
        BY <1>1, <1>11 DEF IsExpanded
      <4>2. i < j /\ p > 1 /\ i = K + p - 1
        BY <1>12, <2>3
      <4> QED BY ONLY <4>1, <4>2
    <3>2. PICK q \in DOMAIN u : q > 1 /\ j = K + q - 1 /\ w[j] = u[q]
      BY <1>8, <1>12, <3>1
    <3>3. p # q
      BY <1>11, <1>12, <2>3, <3>2
    <3> QED BY <1>12, <2>3, <3>2, <3>3 DEF OnceOK
  <2> QED BY <1>8, <1>12, <2>1, <2>2, <2>3
<1>13. ASSUME NEW i \in DOMAIN w, NEW j \in DOMAIN w, i # j, w[i].op # "field", w[j].op # "field",
              w[i].node = w[j].node
       PROVE  w[i].node = Null
  <2>1. i < j \/ j < i
    BY <1>1, <1>13 DEF IsExpanded
  <2> QED BY <1>12, <1>13, <2>1
<1>14. ASSUME NEW k, Making(u, k) PROVE Making(w, k)
  <2>1. PICK i \in DOMAIN u : u[i].op = "make" /\ u[i].node = k
    BY <1>14 DEF Making
  <2>2. i # 1
    BY <1>3, <2>1
  <2>3. K + i - 1 \in DOMAIN w /\ w[K + i - 1] = u[i]
    BY <1>1, <2>2 DEF IsExpanded
  <2> QED BY <2>1, <2>3 DEF Making
<1>15. ASSUME NEW m \in DOMAIN tree, NEW k \in Items(tree[m].parts) \ {Null}, k \in d \/ Doing(w, k)
       PROVE  m \in d \/ Making(w, m)
  <2>1. CASE k \in Items(tree[n].parts)
    <3>1. m = n
      BY <2>1, OneParent
    <3> QED BY <1>1, <1>7, <3>1 DEF Making, IsExpanded
  <2>2. CASE k \notin Items(tree[n].parts)
    <3>1. k \in d \/ Doing(u, k)
      <4>1. ASSUME NEW i \in DOMAIN w, w[i].op # "field", w[i].node = k PROVE Doing(u, k)
        BY <1>3, <1>8, <1>10, <2>2, <4>1
      <4> QED BY <1>15, <4>1 DEF Doing
    <3>2. m \in d \/ Making(u, m)
      BY <3>1 DEF OnceOK
    <3> QED BY <1>14, <3>2
  <2> QED BY <2>1, <2>2
<1> QED BY <1>9, <1>13, <1>15 DEF OnceOK

\* The same for the reports of repeated fields.
LEMMA DiagsVisit ==
  ASSUME tree \in Trees, NEW u \in Seq(Step), u # <<>>, NEW d, NEW g, DiagsOK(u, d, g), Head(u).op = "visit",
         NEW n \in DOMAIN tree, n = Head(u).node, NEW w, w = Steps(n) \o Tail(u)
  PROVE  DiagsOK(w, d, g)
<1>1. PICK v, K : IsExpanded(u, w, v, K, n) /\ IsVisits(v, n) /\ IsOnce(v, n)
  BY ExpandedShape
<1>2. n \in Nat
  BY KidsOf
<1>3. K \in Nat /\ u[1].op = "visit"
  BY <1>1 DEF IsExpanded
<1>4. Make(n).op = "make" /\ Make(n).node = n
  BY DEF Make
<1>5. ASSUME NEW i \in DOMAIN v, v[i].op # "visit" PROVE v[i].op = "field" /\ v[i].node = n /\ tree[n].kind = "Object"
  <2>1. ASSUME NEW k \in Items(tree[n].parts), v[i] = Visit(k) PROVE FALSE
    BY <1>5, <2>1 DEF Visit
  <2>2. ASSUME NEW k, v[i] = Field(n, k) PROVE v[i].op = "field" /\ v[i].node = n
    BY <2>2 DEF Field
  <2> QED BY <1>1, <1>5, <2>1, <2>2 DEF IsVisits, IsOnce
<1>6. ASSUME NEW i \in DOMAIN w, w[i].op = "field" PROVE tree[w[i].node].kind = "Object"
  <2>1. CASE i \in DOMAIN v
    BY <1>1, <1>5, <1>6, <2>1 DEF IsExpanded
  <2>2. CASE i = K
    BY <1>1, <1>4, <1>6, <2>2 DEF IsExpanded
  <2>3. ASSUME NEW j \in DOMAIN u, w[i] = u[j] PROVE tree[w[i].node].kind = "Object"
    BY <1>6, <2>3 DEF DiagsOK, WillDrop
  <2> QED BY <1>1, <2>1, <2>2, <2>3 DEF IsExpanded
<1>7. ASSUME NEW i \in DOMAIN w, w[i].op = "make", tree[w[i].node].kind = "Object",
             NEW k \in DOMAIN Kids(w[i].node), IsRepeated(w[i].node, k)
      PROVE  \/ Kids(w[i].node)[k] \in g
             \/ \E q \in DOMAIN w : q < i /\ w[q] = Field(w[i].node, k)
  <2>1. i \notin DOMAIN v
    <3>1. ASSUME i \in DOMAIN v PROVE w[i] = v[i]
      BY <1>1, <3>1 DEF IsExpanded
    <3> QED BY <1>5, <1>7, <3>1
  <2>2. CASE i = K
    <3>1. w[i].node = n
      BY <1>1, <1>4, <2>2 DEF IsExpanded
    <3>2. PICK q \in DOMAIN v : v[q] = Field(n, k)
      BY <1>1, <1>7, <3>1 DEF IsOnce
    <3> QED BY <1>1, <2>2, <3>1, <3>2 DEF IsExpanded
  <2>3. ASSUME NEW j \in DOMAIN u, j > 1, i = K + j - 1, w[i] = u[j], Kids(w[i].node)[k] \notin g
        PROVE  \E q \in DOMAIN w : q < i /\ w[q] = Field(w[i].node, k)
    <3>1. PICK q \in DOMAIN u : q < j /\ u[q] = Field(u[j].node, k)
      BY <1>7, <2>3 DEF DiagsOK, WillDrop
    <3>2. q # 1
      BY <1>3, <3>1 DEF Field
    <3>3. K + q - 1 \in DOMAIN w /\ w[K + q - 1] = u[q] /\ q \in Nat /\ j \in Nat
      BY <1>1, <3>2 DEF IsExpanded
    <3>4. K + q - 1 < i
      <4>1. K \in Nat /\ i = K + j - 1 /\ q < j
        BY <1>3, <2>3, <3>1
      <4> QED BY ONLY <3>3, <4>1
    <3> QED BY <2>3, <3>1, <3>3, <3>4
  <2> QED BY <1>1, <2>1, <2>2, <2>3 DEF IsExpanded
<1> QED BY <1>6, <1>7 DEF DiagsOK, WillDrop

\* The field that the step x stands for is in h, if it is repeated.
IsReported(x, h) == \A n, k : x = Field(n, k) /\ IsRepeated(n, k) => Kids(n)[k] \in h

LEMMA DiagsTail ==
  ASSUME NEW u \in Seq(Step), u # <<>>, NEW d, NEW g, DiagsOK(u, d, g), NEW w, w = Tail(u),
         NEW h, g \subseteq h, IsReported(Head(u), h)
  PROVE  WillDrop(w, h)
<1>1. /\ Head(u) = u[1] /\ 1 \in DOMAIN u
      /\ \A i \in DOMAIN u : i \in Nat /\ (i # 1 => i > 1 /\ i - 1 \in DOMAIN w /\ w[i - 1] = u[i])
      /\ \A i \in DOMAIN w : i \in Nat /\ i + 1 \in DOMAIN u /\ i + 1 > 1 /\ w[i] = u[i + 1]
  BY TailShape
<1>2. \A i \in DOMAIN w : w[i].op = "field" => tree[w[i].node].kind = "Object"
  BY <1>1 DEF DiagsOK, WillDrop
<1>3. ASSUME NEW i \in DOMAIN w, w[i].op = "make", tree[w[i].node].kind = "Object",
             NEW k \in DOMAIN Kids(w[i].node), IsRepeated(w[i].node, k), Kids(w[i].node)[k] \notin h
      PROVE  \E q \in DOMAIN w : q < i /\ w[q] = Field(w[i].node, k)
  <2>1. i + 1 \in DOMAIN u /\ w[i] = u[i + 1] /\ i \in Nat
    BY <1>1
  <2>2. PICK q \in DOMAIN u : q < i + 1 /\ u[q] = Field(w[i].node, k)
    <3>1. PICK j : j = i + 1
      OBVIOUS
    <3>2. /\ j \in DOMAIN u /\ u[j].op = "make" /\ tree[u[j].node].kind = "Object"
          /\ k \in DOMAIN Kids(u[j].node) /\ IsRepeated(u[j].node, k) /\ Kids(u[j].node)[k] \notin g
      BY <1>3, <2>1, <3>1
    <3>3. \E q \in DOMAIN u : q < j /\ u[q] = Field(u[j].node, k)
      <4>1. WillDrop(u, g)
        BY DEF DiagsOK
      <4> QED BY ONLY <3>2, <4>1 DEF WillDrop
    <3> QED BY <2>1, <3>1, <3>3
  <2>3. q # 1
    BY <1>1, <1>3, <2>2 DEF IsReported
  <2>4. q - 1 \in DOMAIN w /\ w[q - 1] = u[q] /\ q \in Nat
    BY <1>1, <2>3
  <2>5. q - 1 < i
    BY <2>1, <2>2, <2>4
  <2> QED BY <2>2, <2>4, <2>5
<1> QED BY <1>2, <1>3 DEF WillDrop

LEMMA DiagsMade ==
  ASSUME NEW u \in Seq(Step), u # <<>>, NEW d, NEW g, DiagsOK(u, d, g), NEW w, w = Tail(u),
         NEW n, n = Head(u).node, Head(u).op = "make", NEW e, e = d \union {n}
  PROVE  DiagsOK(w, e, g)
<1>1. u[1] = Head(u) /\ 1 \in DOMAIN u /\ \A q \in DOMAIN u : ~(q < 1)
  OBVIOUS
<1>2. ASSUME NEW m, NEW k, Head(u) = Field(m, k) PROVE FALSE
  BY <1>2 DEF Field
<1>3. ASSUME tree[n].kind = "Object", NEW k \in DOMAIN Kids(n), IsRepeated(n, k) PROVE Kids(n)[k] \in g
  BY <1>1, <1>3 DEF DiagsOK, WillDrop
<1>4. \A m \in e : tree[m].kind = "Object" =>
        \A k \in DOMAIN Kids(m) : IsRepeated(m, k) => Kids(m)[k] \in g
  BY <1>3 DEF DiagsOK, WillDrop
<1>5. WillDrop(w, g)
  <2>1. g \subseteq g /\ IsReported(Head(u), g)
    BY <1>2 DEF IsReported
  <2> QED BY <2>1, DiagsTail
<1>6. \A x \in g : \E m \in DOMAIN tree : \E k \in DOMAIN Kids(m) :
        tree[m].kind = "Object" /\ IsRepeated(m, k) /\ x = Kids(m)[k]
  BY DEF DiagsOK, WillDrop
<1> QED BY <1>4, <1>5, <1>6 DEF DiagsOK, WillDrop

\* A field is dropped and reported, or it is not repeated.
LEMMA DiagsField ==
  ASSUME NEW u \in Seq(Step), u # <<>>, NEW d, NEW g, DiagsOK(u, d, g), NEW w, w = Tail(u),
         NEW n \in DOMAIN tree, n = Head(u).node, Head(u).op = "field",
         NEW k \in DOMAIN Kids(n), k = Head(u).field,
         NEW h, h = IF IsRepeated(n, k) THEN g \union {Kids(n)[k]} ELSE g
  PROVE  DiagsOK(w, d, h)
<1>1. u[1] = Head(u) /\ 1 \in DOMAIN u
  OBVIOUS
<1>2. tree[n].kind = "Object"
  BY <1>1 DEF DiagsOK, WillDrop
<1>3. g \subseteq h
  OBVIOUS
<1>4. ASSUME NEW m, NEW j, Head(u) = Field(m, j), IsRepeated(m, j) PROVE Kids(m)[j] \in h
  <2>1. m = n /\ j = k
    BY <1>4 DEF Field
  <2> QED BY <1>4, <2>1
<1>5. WillDrop(w, h)
  <2>1. IsReported(Head(u), h)
    BY <1>4 DEF IsReported
  <2> QED BY <1>3, <2>1, DiagsTail
<1>6. \A x \in h : \E m \in DOMAIN tree : \E j \in DOMAIN Kids(m) :
        tree[m].kind = "Object" /\ IsRepeated(m, j) /\ x = Kids(m)[j]
  BY <1>2 DEF DiagsOK, WillDrop
<1>7. \A m \in d : tree[m].kind = "Object" =>
        \A j \in DOMAIN Kids(m) : IsRepeated(m, j) => Kids(m)[j] \in h
  BY <1>3 DEF DiagsOK, WillDrop
<1> QED BY <1>5, <1>6, <1>7 DEF DiagsOK, WillDrop

OnceInv == OnceOK(todo, DOMAIN value) /\ DiagsOK(todo, DOMAIN value, diags)

LEMMA OnceStays ==
  ASSUME tree' = tree, NEW w, NEW e, NEW h, OnceOK(w, e), DiagsOK(w, e, h),
         todo' = w, DOMAIN value' = e, diags' = h
  PROVE  OnceInv'
<1>1. OnceOK(todo, DOMAIN value)'
  BY DEF OnceOK, Doing, Making
<1>2. DiagsOK(todo, DOMAIN value, diags)'
  BY DEF DiagsOK, WillDrop, Kids, IsRepeated
<1> QED BY <1>1, <1>2 DEF OnceInv

LEMMA OnceInit == BInit => OnceInv
<1> SUFFICES ASSUME BInit PROVE OnceInv
  OBVIOUS
<1>1. /\ tree \in Trees /\ todo = <<Visit(Root)>> /\ DOMAIN value = {} /\ diags = {}
  BY DEF BInit
<1>2. Visit(Root).op = "visit" /\ Visit(Root).node = Root
  BY DEF Visit
<1>3. DOMAIN todo = {1} /\ todo[1] = Visit(Root)
  <2>1. Len(todo) = 1 /\ todo[1] = Visit(Root) /\ DOMAIN todo = 1..1
    BY <1>1
  <2>2. 1..1 = {1}
    OBVIOUS
  <2> QED BY <2>1, <2>2
<1>4. ASSUME NEW m \in DOMAIN tree, NEW k \in Items(tree[m].parts) \ {Null}, Doing(todo, k) PROVE FALSE
  <2>1. k = Root
    BY <1>2, <1>3, <1>4 DEF Doing
  <2>2. k > m /\ m \in Nat /\ m # 0
    <3>1. tree \in Seq(ParseNode)
      BY <1>1, TreeAssumption
    <3>2. m \in Nat /\ m # 0
      BY <3>1
    <3> QED BY <1>1, <3>2, KidsOf
  <2> QED BY <2>1, <2>2 DEF Root
<1>5. OnceOK(todo, DOMAIN value)
  BY <1>1, <1>3, <1>4 DEF OnceOK
<1>6. DiagsOK(todo, DOMAIN value, diags)
  BY <1>1, <1>2, <1>3 DEF DiagsOK, WillDrop
<1> QED BY <1>5, <1>6 DEF OnceInv

\* What a method that makes a node, or returns a value for it, finds and leaves.
LEMMA OnceReturned ==
  ASSUME BuildInv, OnceInv, NEW v, NEW nodes, Returns(v, nodes)
  PROVE  OnceInv' /\ Here \notin DOMAIN value
<1>1. PICK u, d, n, w, e : /\ u = todo /\ d = DOMAIN value /\ n = Here /\ w = Tail(u) /\ e = d \union {n}
  OBVIOUS
<1>2. /\ At("make") /\ tree' = tree /\ diags' = diags /\ todo' = w
      /\ value' = [x \in DOMAIN value \union {Here} |-> IF x = Here THEN v ELSE value[x]]
  BY <1>1 DEF Returns
<1>3. DOMAIN value' = e
  BY <1>1, <1>2
<1>4. n \in DOMAIN tree /\ u # <<>> /\ u \in Seq(Step) /\ tree \in Trees
  BY <1>1, <1>2, ChildrenDone DEF BuildInv
<1>5. n # Null
  <2>1. tree \in Seq(ParseNode)
    BY <1>4, TreeAssumption
  <2> QED BY <1>4, <2>1 DEF Null
<1>6. Head(u).op = "make" /\ n = Head(u).node
  BY <1>1, <1>2 DEF At, Here
<1>7. OnceOK(u, d) /\ DiagsOK(u, d, diags)
  BY <1>1 DEF OnceInv
<1>8. OnceOK(w, e) /\ n \notin d
  BY <1>1, <1>4, <1>5, <1>6, <1>7, OnceMade
<1>9. DiagsOK(w, e, diags)
  BY <1>1, <1>4, <1>6, <1>7, DiagsMade
<1> QED BY <1>1, <1>2, <1>3, <1>8, <1>9, OnceStays

LEMMA OnceStep ==
  ASSUME BuildInv, OnceInv, VisitNode \/ VisitNull \/ KeepField \/ DropField
  PROVE  OnceInv'
<1>1. PICK u, d, n, g, w : /\ u = todo /\ d = DOMAIN value /\ n = Head(u).node /\ g = diags
                           /\ w = todo'
  OBVIOUS
<1>2. TodoOK(u, d) /\ tree \in Trees /\ OnceOK(u, d) /\ DiagsOK(u, d, g)
  BY <1>1 DEF BuildInv, TodoInv, OnceInv
<1>3. At("visit") \/ At("field")
  BY DEF VisitNode, VisitNull, KeepField, DropField
<1>4. u # <<>> /\ n = Here
  BY <1>1, <1>3 DEF At, Here
<1>5. u \in Seq(Step) /\ StepOK(u, d, 1) /\ Head(u) = u[1]
  <2>1. u \in Seq(Step)
    BY <1>2 DEF TodoOK
  <2>2. 1 \in DOMAIN u /\ Head(u) = u[1]
    BY <1>4, <2>1
  <2> QED BY <1>2, <2>1, <2>2 DEF TodoOK
<1>6. ASSUME VisitNode PROVE OnceInv'
  <2>1. Head(u).op = "visit" /\ n # Null /\ w = Steps(n) \o Tail(u) /\ UNCHANGED <<tree, value, diags>>
    BY <1>1, <1>4, <1>6 DEF VisitNode, At
  <2>2. n \in DOMAIN tree
    BY <1>1, <1>5, <2>1 DEF StepOK
  <2>3. OnceOK(w, d)
    BY <1>1, <1>2, <1>4, <1>5, <2>1, <2>2, OnceVisit
  <2>4. DiagsOK(w, d, g)
    BY <1>1, <1>2, <1>4, <1>5, <2>1, <2>2, DiagsVisit
  <2> QED BY <1>1, <2>1, <2>3, <2>4, OnceStays
<1>7. ASSUME VisitNull PROVE OnceInv'
  <2>1. UNCHANGED <<tree, todo, value, diags>>
    BY <1>7 DEF VisitNull
  <2> QED BY <1>1, <1>2, <2>1, OnceStays
<1>8. ASSUME KeepField \/ DropField PROVE OnceInv'
  <2>1. PICK k : k = Head(u).field
    OBVIOUS
  <2>2. Head(u).op = "field" /\ w = Tail(u) /\ UNCHANGED <<tree, value>>
    BY <1>1, <1>4, <1>8 DEF KeepField, DropField, At
  <2>3. n \in DOMAIN tree /\ k \in DOMAIN Kids(n)
    BY <1>1, <1>5, <2>1, <2>2 DEF StepOK
  <2>4. PICK h : h = IF IsRepeated(n, k) THEN g \union {Kids(n)[k]} ELSE g
    OBVIOUS
  <2>5. diags' = h
    BY <1>1, <1>4, <1>8, <2>1, <2>4 DEF KeepField, DropField
  <2>6. OnceOK(w, d)
    BY <1>2, <1>4, <1>5, <2>2, OnceField
  <2>7. DiagsOK(w, d, h)
    BY <1>1, <1>2, <1>4, <1>5, <2>1, <2>2, <2>3, <2>4, DiagsField
  <2> QED BY <1>1, <2>2, <2>5, <2>6, <2>7, OnceStays
<1> QED BY <1>6, <1>7, <1>8

LEMMA OnceInvariance == PSpec => []OnceInv
<1>1. PInit => OnceInv
  BY OnceInit DEF PInit
<1>2. BuildInv /\ OnceInv /\ [PNext]_allvars => OnceInv'
  <2> SUFFICES ASSUME BuildInv, OnceInv, [PNext]_allvars PROVE OnceInv'
    OBVIOUS
  <2>1. ASSUME UNCHANGED bvars PROVE OnceInv'
    <3>1. UNCHANGED <<tree, todo, value, diags>>
      BY <2>1 DEF bvars
    <3> QED BY <3>1, OnceStays DEF OnceInv
  <2>2. ASSUME MakeNode \/ MakeFor \/ MakeIf \/ MakeObject PROVE OnceInv'
    <3>1. PICK v, nodes : IsMade(v, nodes)
      BY <2>2, MakeNodeStep, MakeForStep, MakeIfStep, MakeObjectStep
    <3> QED BY <3>1, OnceReturned DEF IsMade
  <2>3. BNext \/ UNCHANGED bvars
    BY DEF PNext, Build, StartPrint, PrintNode, CloseNode, allvars
  <2> QED BY <2>1, <2>2, <2>3, OnceStep DEF BNext
<1> QED BY <1>1, <1>2, BuildInvariance, PTL DEF PSpec

-----------------------------------------------------------------------------
(* Each syntax node is the value of its parse node, or a block around one. *)

IsProper(a) ==
  /\ ast[a].of \in DOMAIN value /\ value[ast[a].of] = a
  /\ ast[a].kind = tree[ast[a].of].kind /\ ast[a].kind # "For"
  /\ ast[a].kind = "Object" =>
       Items(ast[a].parts) = KeptValues(ast[a].of) /\ \E order : IsInOrder(ast[a].parts, ast[a].of, order)

IsWrapped(a) ==
  /\ ast[a].kind = "Block"
  /\ \E s \in DOMAIN ast : IsProper(s) /\ ast[s].kind # "Block" /\ Around(ast[a], s)

GrowInv ==
  /\ \A a \in DOMAIN ast : IsProper(a) \/ IsWrapped(a)
  /\ \A n \in DOMAIN value : IsProper(value[n])

LEMMA OrderStays ==
  ASSUME tree' = tree, \A n \in DOMAIN value : value'[n] = value[n],
         NEW n, \A k \in DOMAIN Kids(n) : Kids(n)[k] \in DOMAIN value,
         NEW parts, NEW order, IsInOrder(parts, n, order)
  PROVE  IsInOrder(parts, n, order)'
<1>1. Kids(n)' = Kids(n)
  BY DEF Kids
<1>2. ASSUME NEW k \in DOMAIN order PROVE order[k] \in DOMAIN Kids(n) /\ parts[1][k] = value'[Kids(n)[order[k]]]
  BY <1>2 DEF IsInOrder
<1> QED BY <1>1, <1>2 DEF IsInOrder

\* What a node is it stays: no value is replaced, nor those of its children.
LEMMA ProperStays ==
  ASSUME BuildInv, tree' = tree, NEW d, d \notin DOMAIN value, DOMAIN value' = DOMAIN value \union {d},
         \A n \in DOMAIN value : value'[n] = value[n],
         DOMAIN ast \subseteq DOMAIN ast', \A q \in DOMAIN ast : ast'[q] = ast[q],
         NEW a \in DOMAIN ast, IsProper(a)
  PROVE  IsProper(a)'
<1>1. PICK n : n = ast[a].of
  OBVIOUS
<1>2. n \in DOMAIN value /\ value[n] = a /\ ast'[a] = ast[a] /\ value'[n] = a /\ n \in DOMAIN value'
  BY <1>1 DEF IsProper
<1>3. n \in DOMAIN tree /\ Items(tree[n].parts) \subseteq DOMAIN value /\ tree \in Trees
  BY <1>2 DEF BuildInv, NodesInv
<1>4. \A k \in DOMAIN Kids(n) : Kids(n)[k] \in DOMAIN value
  BY <1>3, KidsOf
<1>5. KeptValues(n)' = KeptValues(n)
  BY <1>4 DEF KeptValues, Kids, IsRepeated
<1>6. PICK parts : parts = ast[a].parts
  OBVIOUS
<1>7. ASSUME ast[a].kind = "Object"
      PROVE  Items(parts) = KeptValues(n) /\ \E order : IsInOrder(parts, n, order)'
  <2>1. Items(parts) = KeptValues(n) /\ \E order : IsInOrder(parts, n, order)
    BY <1>1, <1>6, <1>7 DEF IsProper
  <2>2. PICK order : IsInOrder(parts, n, order)
    BY <2>1
  <2>3. IsInOrder(parts, n, order)'
    BY <1>4, <2>2, OrderStays
  <2> QED BY <2>1, <2>3
<1>8. /\ n \in DOMAIN value' /\ value'[n] = a /\ ast'[a].of = n /\ ast'[a].parts = parts
      /\ ast'[a].kind = tree'[n].kind /\ ast'[a].kind # "For" /\ ast'[a].kind = ast[a].kind
  BY <1>1, <1>2, <1>6 DEF IsProper
<1> QED BY <1>5, <1>7, <1>8 DEF IsProper

LEMMA GrowMade ==
  ASSUME BuildInv, OnceInv, GrowInv, NEW v, NEW nodes, IsMade(v, nodes), IsGrown(v, nodes)
  PROVE  GrowInv'
<1>1. PICK b, h, m, c : b = ast \o nodes /\ h = Here /\ m = Len(ast) /\ c = Len(nodes)
  OBVIOUS
<1>2. /\ ast' = b /\ tree' = tree /\ Returns(v, nodes) /\ nodes \in Seq(AnyNode)
      /\ value' = [n \in DOMAIN value \union {h} |-> IF n = h THEN v ELSE value[n]]
  BY <1>1 DEF IsMade, Returns
<1>3. h \notin DOMAIN value
  BY <1>1, <1>2, OnceReturned
<1>4. ast \in Seq(AnyNode) /\ NodesInv /\ tree \in Trees
  BY DEF BuildInv, NodesInv
<1>5. /\ DOMAIN ast = 1..m /\ m \in Nat /\ c \in Nat /\ DOMAIN nodes = 1..c /\ DOMAIN b = 1..(m + c)
      /\ \A q \in 1..m : b[q] = ast[q]
      /\ \A q \in 1..c : b[m + q] = nodes[q]
  BY <1>1, <1>2, <1>4, Joined
<1>6. /\ DOMAIN value' = DOMAIN value \union {h} /\ value'[h] = v
      /\ \A n \in DOMAIN value : value'[n] = value[n]
  BY <1>2, <1>3
<1>7. DOMAIN ast \subseteq DOMAIN ast' /\ \A q \in DOMAIN ast : ast'[q] = ast[q]
  BY <1>2, <1>5
<1>8. ASSUME NEW a \in DOMAIN ast, IsProper(a) PROVE IsProper(a)'
  BY <1>2, <1>3, <1>6, <1>7, <1>8, ProperStays
<1>9. ASSUME NEW x, NEW s \in DOMAIN ast, IsProper(s), ast[s].kind # "Block", Around(x, s), x.kind = "Block",
             NEW a \in DOMAIN ast', ast'[a] = x
      PROVE  IsWrapped(a)'
  <2>1. s \in DOMAIN ast' /\ IsProper(s)' /\ ast'[s] = ast[s]
    BY <1>7, <1>8, <1>9
  <2>2. (Around(ast[a], s))'
    BY <1>9, <2>1 DEF Around
  <2> QED BY <1>9, <2>1, <2>2 DEF IsWrapped
<1>10. ASSUME NEW a \in DOMAIN ast PROVE IsProper(a)' \/ IsWrapped(a)'
  <2>1. CASE IsProper(a)
    BY <1>8, <2>1
  <2>2. CASE IsWrapped(a)
    <3>1. PICK s \in DOMAIN ast : IsProper(s) /\ ast[s].kind # "Block" /\ Around(ast[a], s)
      BY <2>2 DEF IsWrapped
    <3>2. ast[a].kind = "Block" /\ a \in DOMAIN ast' /\ ast'[a] = ast[a]
      BY <1>7, <2>2 DEF IsWrapped
    <3> QED BY <1>9, <3>1, <3>2
  <2> QED BY <2>1, <2>2 DEF GrowInv
<1>11. ASSUME nodes = <<>>, NEW k \in DOMAIN value, v = value[k] PROVE GrowInv'
  <2>1. DOMAIN ast' = DOMAIN ast
    BY <1>1, <1>2, <1>4, <1>11
  <2>2. v \in DOMAIN ast /\ IsProper(v)
    BY <1>4, <1>11 DEF GrowInv, NodesInv
  <2>3. \A n \in DOMAIN value : value[n] \in DOMAIN ast /\ IsProper(value[n])
    BY <1>4 DEF GrowInv, NodesInv
  <2>4. \A n \in DOMAIN value' : IsProper(value[n])'
    <3> SUFFICES ASSUME NEW n \in DOMAIN value', NEW x, x = value'[n] PROVE IsProper(x)'
      BY DEF IsProper
    <3>1. x \in DOMAIN ast /\ IsProper(x)
      BY <1>6, <1>11, <2>2, <2>3
    <3> QED BY <1>8, <3>1
  <2> QED BY <1>10, <2>1, <2>4 DEF GrowInv
<1>12. ASSUME c # 0, v = m + c, IsOwn(nodes[c]),
              \A j \in DOMAIN nodes : j # c =>
                /\ nodes[j].kind = "Block"
                /\ \E k \in DOMAIN value : ast[value[k]].kind # "Block" /\ Around(nodes[j], value[k])
       PROVE  GrowInv'
  <2>1. c \in 1..c /\ v \in DOMAIN ast' /\ ast'[v] = nodes[c]
    BY <1>2, <1>5, <1>12
  <2>2. h \in DOMAIN tree /\ Items(tree[h].parts) \subseteq DOMAIN value
    <3>1. At("make")
      BY <1>2 DEF Returns
    <3> QED BY <1>1, <3>1, ChildrenDone
  <2>3. \A k \in DOMAIN Kids(h) : Kids(h)[k] \in DOMAIN value
    BY <1>4, <2>2, KidsOf
  <2>4. KeptValues(h)' = KeptValues(h)
    BY <1>2, <1>6, <2>3 DEF KeptValues, Kids, IsRepeated
  <2>5. IsProper(v)'
    <3>1. /\ ast'[v].of = h /\ ast'[v].kind = tree[h].kind /\ ast'[v].kind # "For"
          /\ ast'[v].kind = "Object" =>
               Items(ast'[v].parts) = KeptValues(h) /\ \E order : IsInOrder(ast'[v].parts, h, order)
      BY <1>1, <1>12, <2>1 DEF IsOwn
    <3>2. PICK parts : parts = ast'[v].parts
      OBVIOUS
    <3>3. ASSUME NEW order, IsInOrder(parts, h, order) PROVE IsInOrder(parts, h, order)'
      BY <1>2, <1>6, <2>3, <3>3, OrderStays
    <3> QED BY <1>2, <1>6, <2>4, <3>1, <3>2, <3>3 DEF IsProper
  <2>6. ASSUME NEW a \in DOMAIN ast' PROVE IsProper(a)' \/ IsWrapped(a)'
    <3>1. CASE a \in DOMAIN ast
      BY <1>10, <3>1
    <3>2. CASE a = v
      BY <2>5, <3>2
    <3>3. CASE a \notin DOMAIN ast /\ a # v
      <4>1. PICK j : j = a - m
        OBVIOUS
      <4>2. j \in 1..c /\ j # c /\ a = m + j
        BY <1>2, <1>5, <1>12, <3>3, <4>1
      <4>3. ast'[a] = nodes[j] /\ j \in DOMAIN nodes
        BY <1>2, <1>5, <4>2
      <4>4. PICK k \in DOMAIN value : ast[value[k]].kind # "Block" /\ Around(nodes[j], value[k])
        BY <1>12, <4>2, <4>3
      <4>5. value[k] \in DOMAIN ast /\ IsProper(value[k]) /\ nodes[j].kind = "Block"
        BY <1>4, <1>12, <4>2, <4>3 DEF GrowInv, NodesInv
      <4> QED BY <1>9, <4>3, <4>4, <4>5
    <3> QED BY <3>1, <3>2, <3>3
  <2>7. \A n \in DOMAIN value' : IsProper(value[n])'
    <3> SUFFICES ASSUME NEW n \in DOMAIN value', NEW x, x = value'[n] PROVE IsProper(x)'
      BY DEF IsProper
    <3>1. CASE n = h
      BY <1>6, <2>5, <3>1
    <3>2. CASE n # h
      <4>1. n \in DOMAIN value /\ x = value[n]
        BY <1>6, <3>2
      <4>2. x \in DOMAIN ast /\ IsProper(x)
        BY <1>4, <4>1 DEF GrowInv, NodesInv
      <4> QED BY <1>8, <4>2
    <3> QED BY <3>1, <3>2
  <2> QED BY <2>6, <2>7 DEF GrowInv
<1> QED BY <1>1, <1>11, <1>12 DEF IsGrown

LEMMA GrowInvariance == PSpec => []GrowInv
<1>1. PInit => GrowInv
  <2>1. ASSUME PInit PROVE DOMAIN value = {} /\ DOMAIN ast = {}
    BY <2>1 DEF PInit, BInit
  <2> QED BY <2>1 DEF GrowInv
<1>2. BuildInv /\ OnceInv /\ GrowInv /\ [PNext]_allvars => GrowInv'
  <2> SUFFICES ASSUME BuildInv, OnceInv, GrowInv, [PNext]_allvars PROVE GrowInv'
    OBVIOUS
  <2>1. ASSUME UNCHANGED <<tree, value, ast>> PROVE GrowInv'
    <3>1. \A a : IsProper(a)' <=> IsProper(a)
      BY <2>1 DEF IsProper, IsInOrder, KeptValues, Kids, IsRepeated
    <3>2. \A a : IsWrapped(a)' <=> IsWrapped(a)
      BY <2>1, <3>1 DEF IsWrapped, Around
    <3> QED BY <2>1, <3>1, <3>2 DEF GrowInv
  <2>2. ASSUME MakeNode \/ MakeFor \/ MakeIf \/ MakeObject PROVE GrowInv'
    <3>1. PICK v, nodes : IsMade(v, nodes) /\ IsGrown(v, nodes)
      BY <2>2, MakeNodeStep, MakeForStep, MakeIfStep, MakeObjectStep
    <3> QED BY <3>1, GrowMade
  <2>3. ASSUME VisitNode \/ VisitNull \/ KeepField \/ DropField PROVE GrowInv'
    <3>1. UNCHANGED <<tree, value, ast>>
      BY <2>3 DEF VisitNode, VisitNull, KeepField, DropField
    <3> QED BY <2>1, <3>1
  <2>4. BNext \/ UNCHANGED bvars
    BY DEF PNext, Build, StartPrint, PrintNode, CloseNode, allvars
  <2> QED BY <2>1, <2>2, <2>3, <2>4 DEF BNext, bvars
<1> QED BY <1>1, <1>2, BuildInvariance, OnceInvariance, PTL DEF PSpec

-----------------------------------------------------------------------------
(* The tree that has been built, and what stands for what in it.           *)

\* All nodes have their values, and f is what stands for them.
Whole(f) ==
  /\ BuildInv /\ OnceInv /\ GrowInv /\ build = "built"
  /\ IsStanding(f) /\ Shapes(f)
  /\ ~Incomplete /\ DOMAIN value = DOMAIN tree

Parts(n) == Items(tree[n].parts)

Body(n) == tree[n].parts[2][1]

LEMMA WholeTree ==
  ASSUME NEW f, Whole(f)
  PROVE  /\ tree \in Trees /\ Len(tree) \in Nat /\ DOMAIN tree = 1..Len(tree) /\ Root \in DOMAIN tree
         /\ \A n \in DOMAIN tree : \A k \in Parts(n) : k \in DOMAIN tree /\ k > n /\ k # Null
         /\ \A n \in DOMAIN tree \ {Root} : \E m \in DOMAIN tree : n \in Parts(m)
<1>1. tree \in Trees /\ Root \in DOMAIN tree
  BY DEF Whole, BuildInv
<1>2. /\ tree \in Seq(ParseNode)
      /\ \A n \in DOMAIN tree \ {Root} : \E m \in DOMAIN tree : n \in Parts(m)
  BY <1>1, TreeAssumption DEF Parts
<1>3. ASSUME NEW n \in DOMAIN tree, NEW k \in Parts(n) PROVE k \in DOMAIN tree /\ k > n /\ k # Null
  <2>1. k # Null
    BY <1>3 DEF Whole, Incomplete, Parts
  <2> QED BY <1>1, <1>3, <2>1, KidsOf DEF Parts
<1> QED BY <1>1, <1>2, <1>3

\* A loop has headers and one body, which stands for it.
LEMMA ForParts ==
  ASSUME NEW f, Whole(f), NEW n \in DOMAIN tree, tree[n].kind = "For"
  PROVE  /\ Body(n) \in Parts(n) /\ f[n] = f[Body(n)]
         /\ \A k \in Parts(n) : k = Body(n) \/ k \in ToSet(tree[n].parts[1])
         /\ Body(n) \notin ToSet(tree[n].parts[1]) /\ ToSet(tree[n].parts[1]) \subseteq Parts(n)
<1>1. PICK s : s = tree[n].parts
  OBVIOUS
<1>2. tree \in Trees /\ Body(n) = s[2][1]
  BY <1>1, WholeTree DEF Body
<1>3. Len(s) = 2 /\ Len(s[2]) = 1 /\ s \in Seq(Seq(Nat))
  BY <1>1, <1>2, KidsOf DEF HasParts, ParseNode
<1>4. DOMAIN s = {1, 2} /\ DOMAIN s[2] = {1}
  <2>1. DOMAIN s = 1..2 /\ 2 \in DOMAIN s
    BY <1>3
  <2>2. s[2] \in Seq(Nat)
    BY <1>3, <2>1
  <2>3. DOMAIN s[2] = 1..1
    BY <1>3, <2>2
  <2> QED BY <2>1, <2>3
<1>5. s[2][1] \in Items(s)
  BY <1>4 DEF Items, ToSet
<1>6. ASSUME NEW k \in Items(s) PROVE k = s[2][1] \/ k \in ToSet(s[1])
  BY <1>4 DEF Items, ToSet
<1>7. ASSUME s[2][1] \in ToSet(s[1]) PROVE FALSE
  <2>1. PICK i \in DOMAIN s[1] : s[1][i] = s[2][1]
    BY <1>7 DEF ToSet
  <2>2. s[2][1] # Null
    BY <1>1, <1>5, WholeTree DEF Parts
  <2> QED BY <1>1, <1>2, <1>4, <2>1, <2>2, OnePlace
<1>8. f[n] = f[Body(n)]
  BY DEF Whole, IsStanding, Body
<1>9. ToSet(s[1]) \subseteq Items(s)
  BY <1>4 DEF Items
<1> QED BY <1>1, <1>2, <1>5, <1>6, <1>7, <1>8, <1>9 DEF Parts

\* Downwards from the last node, to all of them.
LEMMA CountDown ==
  ASSUME NEW f, Whole(f), NEW G,
         \A n \in DOMAIN tree : (\A k \in DOMAIN tree : k > n => k \in G) => n \in G
  PROVE  DOMAIN tree \subseteq G
<1>1. PICK N : N = Len(tree)
  OBVIOUS
<1>2. N \in Nat /\ DOMAIN tree = 1..N
  BY <1>1, WholeTree
<1> DEFINE H == {j \in 0..N : \A k \in 1..N : k + j > N => k \in G}
<1>3. 0 \in H
  BY <1>2
<1>4. ASSUME NEW j \in 0..N, j \in H, j < N PROVE j + 1 \in H
  <2>1. ASSUME NEW n \in 1..N, n + (j + 1) > N PROVE n \in G
    <3>1. \A k \in 1..N : k > n => k + j > N
      BY <1>2, <2>1
    <3> QED BY <1>2, <1>4, <3>1
  <2> QED BY <1>2, <1>4, <2>1
<1>5. N \in H
  <2> HIDE DEF H
  <2>1. 0..N \subseteq H
    BY <1>2, <1>3, <1>4, CountUp
  <2> QED BY <1>2, <2>1
<1>6. \A k \in 1..N : k + N > N
  BY <1>2
<1> QED BY <1>2, <1>5, <1>6

\* What stands for a node is no loop, and does not come before it.
LEMMA StandsType ==
  ASSUME NEW f, Whole(f)
  PROVE  \A n \in DOMAIN tree :
           /\ f[n] \in DOMAIN tree /\ f[n] >= n /\ tree[f[n]].kind # "For"
           /\ tree[n].kind # "For" => f[n] = n
<1> DEFINE G == {n \in DOMAIN tree : f[n] \in DOMAIN tree /\ f[n] >= n /\ tree[f[n]].kind # "For"}
<1>1. DOMAIN tree \subseteq Nat
  BY WholeTree
<1>2. \A n \in DOMAIN tree : tree[n].kind # "For" => f[n] = n
  BY DEF Whole, IsStanding
<1>3. ASSUME NEW n \in DOMAIN tree, \A k \in DOMAIN tree : k > n => k \in G PROVE n \in G
  <2>1. CASE tree[n].kind = "For"
    <3>1. Body(n) \in Parts(n) /\ f[n] = f[Body(n)]
      BY <2>1, ForParts
    <3>2. Body(n) \in DOMAIN tree /\ Body(n) > n
      BY <3>1, WholeTree
    <3>3. f[n] \in DOMAIN tree /\ f[n] >= Body(n) /\ tree[f[n]].kind # "For"
      BY <1>3, <3>1, <3>2
    <3> QED BY <1>1, <3>2, <3>3
  <2>2. CASE tree[n].kind # "For"
    BY <1>1, <1>2, <2>2
  <2> QED BY <2>1, <2>2
<1>4. DOMAIN tree \subseteq G
  <2> HIDE DEF G
  <2> QED BY <1>3, CountDown
<1> QED BY <1>2, <1>4

\* The later one of two nodes with the same is the body of a loop.
LEMMA LaterIsBody ==
  ASSUME NEW f, Whole(f), NEW n \in DOMAIN tree, NEW j \in DOMAIN tree, n < j, f[n] = f[j]
  PROVE  \E p \in DOMAIN tree : tree[p].kind = "For" /\ j = Body(p)
<1> DEFINE IsBody(i, m) == \E p \in DOMAIN tree : tree[p].kind = "For" /\ p >= m /\ i = Body(p)
           G == {m \in DOMAIN tree : \A i \in DOMAIN tree : m < i /\ f[m] = f[i] => IsBody(i, m)}
<1>1. DOMAIN tree \subseteq Nat /\ tree \in Trees
  BY WholeTree
<1>2. ASSUME NEW m \in DOMAIN tree, \A k \in DOMAIN tree : k > m => k \in G,
             NEW i \in DOMAIN tree, m < i, f[m] = f[i]
      PROVE  IsBody(i, m)
  <2>1. tree[m].kind = "For"
    <3>1. f[i] >= i /\ f[i] \in DOMAIN tree
      BY StandsType
    <3>2. tree[m].kind # "For" => f[m] = m
      BY StandsType
    <3> QED BY <1>1, <1>2, <3>1, <3>2
  <2>2. PICK b : b = Body(m)
    OBVIOUS
  <2>3. b \in DOMAIN tree /\ b > m /\ f[b] = f[i] /\ b \in Parts(m) /\ b # Null
    BY <1>2, <2>1, <2>2, ForParts, WholeTree
  <2>4. CASE b = i
    <3>1. tree[m].kind = "For" /\ m >= m /\ i = Body(m)
      BY <1>1, <2>1, <2>2, <2>4
    <3> QED BY <3>1
  <2>5. CASE b < i
    <3>1. PICK p \in DOMAIN tree : tree[p].kind = "For" /\ p >= b /\ i = Body(p)
      BY <1>2, <2>3, <2>5
    <3>2. p >= m
      BY <1>1, <2>3, <3>1
    <3> QED BY <3>1, <3>2
  <2>6. CASE i < b
    <3>1. PICK p \in DOMAIN tree : tree[p].kind = "For" /\ p >= i /\ b = Body(p)
      BY <1>2, <2>3, <2>6
    <3>2. b \in Parts(p)
      BY <3>1, ForParts
    <3>3. p = m
      BY <1>1, <2>3, <3>2, OneParent DEF Parts
    <3> QED BY <1>1, <1>2, <3>1, <3>3
  <2> QED BY <1>1, <2>3, <2>4, <2>5, <2>6
<1>3. DOMAIN tree \subseteq G
  <2>1. \A m \in DOMAIN tree : (\A k \in DOMAIN tree : k > m => k \in G) => m \in G
    <3> HIDE DEF IsBody
    <3> QED BY <1>2
  <2> HIDE DEF G
  <2> QED BY <2>1, CountDown
<1> QED BY <1>3

\* Children that are no parts of loops do not share what stands for them.
LEMMA OneStand ==
  ASSUME NEW f, Whole(f), NEW m \in DOMAIN tree, NEW n \in DOMAIN tree,
         tree[m].kind # "For", tree[n].kind # "For",
         NEW i \in Parts(m), NEW j \in Parts(n), f[i] = f[j]
  PROVE  i = j /\ m = n
<1>1. tree \in Trees /\ i \in DOMAIN tree /\ j \in DOMAIN tree /\ i # Null /\ j # Null /\ DOMAIN tree \subseteq Nat
  BY WholeTree
<1>2. ASSUME NEW p \in DOMAIN tree, tree[p].kind = "For" PROVE Body(p) # i /\ Body(p) # j
  <2>1. Body(p) \in Parts(p)
    BY <1>2, ForParts
  <2> QED BY <1>1, <1>2, <2>1, OneParent DEF Parts
<1>3. ~(i < j) /\ ~(j < i)
  BY <1>1, <1>2, LaterIsBody
<1>4. i = j
  BY <1>1, <1>3
<1> QED BY <1>1, <1>4, OneParent DEF Parts

\* There is such an r when nothing leads to itself.
IsLeast(r, D, e) == r = [d \in D |-> {d} \union UNION {r[x] : x \in e[d]}]

LEMMA ClosureDefined ==
  ASSUME NEW D, NEW e, NEW rank, NEW N \in Nat,
         \A d \in D : rank[d] \in 0..N /\ e[d] \subseteq D /\ \A x \in e[d] : rank[x] < rank[d]
  PROVE  \E r : IsLeast(r, D, e)
<1> DEFINE Value(r, d) == {d} \union UNION {r[x] : x \in e[d]}
           Rec(r, k) == \A d \in D : rank[d] < k => r[d] = Value(r, d)
           G == {k \in 0..(N + 1) : \E r : Rec(r, k)}
<1>1. 0 \in G
  OBVIOUS
<1>2. ASSUME NEW k \in 0..(N + 1), k \in G, k < N + 1 PROVE k + 1 \in G
  <2>1. PICK u : Rec(u, k)
    BY <1>2
  <2>2. PICK w : w = [d \in D |-> IF rank[d] = k THEN Value(u, d) ELSE u[d]]
    OBVIOUS
  <2>3. ASSUME NEW d \in D, rank[d] < k + 1 PROVE w[d] = Value(w, d)
    <3>1. \A x \in e[d] : x \in D /\ rank[x] # k
      <4>1. rank[d] \in 0..N /\ \A x \in e[d] : x \in D /\ rank[x] \in 0..N /\ rank[x] < rank[d]
        OBVIOUS
      <4> QED BY <2>3, <4>1
    <3>2. \A x \in e[d] : w[x] = u[x]
      <4> HIDE DEF Value
      <4> QED BY <2>2, <3>1
    <3>3. Value(w, d) = Value(u, d)
      BY <3>2
    <3>4. rank[d] \in 0..N
      OBVIOUS
    <3> HIDE DEF Value
    <3>5. CASE rank[d] = k
      BY <2>2, <3>3, <3>5
    <3>6. CASE rank[d] # k
      <4>1. rank[d] < k
        BY <2>3, <3>4, <3>6
      <4> QED BY <2>1, <2>2, <3>3, <3>6, <4>1
    <3> QED BY <3>5, <3>6
  <2>4. Rec(w, k + 1)
    <3> HIDE DEF Value
    <3> QED BY <2>3
  <2>5. k + 1 \in 0..(N + 1)
    BY <1>2
  <2> HIDE DEF Rec
  <2> QED BY <2>4, <2>5
<1>3. N + 1 \in G
  <2> HIDE DEF G
  <2>1. N + 1 \in Nat
    OBVIOUS
  <2>2. 0..(N + 1) \subseteq G
    BY <1>1, <1>2, <2>1, CountUp
  <2> QED BY <2>2
<1>4. PICK u : Rec(u, N + 1)
  BY <1>3
<1>5. PICK w : w = [d \in D |-> u[d]]
  OBVIOUS
<1>6. ASSUME NEW d \in D PROVE w[d] = Value(w, d)
  <2>1. rank[d] < N + 1
    <3>1. rank[d] \in 0..N
      OBVIOUS
    <3> QED BY <3>1
  <2>2. u[d] = Value(u, d)
    <3> HIDE DEF Value
    <3> QED BY <1>4, <2>1
  <2>3. \A x \in e[d] : w[x] = u[x]
    <3> HIDE DEF Value
    <3> QED BY <1>5
  <2>4. Value(w, d) = Value(u, d)
    BY <2>3
  <2> HIDE DEF Value
  <2> QED BY <1>5, <2>2, <2>4
<1>7. w = [d \in D |-> Value(w, d)]
  <2> HIDE DEF Value
  <2> QED BY <1>5, <1>6
<1>8. IsLeast(w, D, e)
  BY <1>7 DEF IsLeast
<1> QED BY <1>8

\* What is below a node: what the parts lead to, all of them later ones.
LEMMA BelowLeads ==
  ASSUME NEW f, Whole(f)
  PROVE  \A n \in DOMAIN tree :
           /\ n \in Below[n] /\ Below[n] \subseteq DOMAIN tree
           /\ \A x \in Below[n] : Parts(x) \subseteq Below[n] /\ x >= n
           /\ \A x \in Below[n] \ {n} : \E y \in Below[n] : x \in Parts(y)
<1>1. PICK N, D, e, rank : /\ N = Len(tree) /\ D = DOMAIN tree
                           /\ e = [n \in DOMAIN tree |-> Parts(n)]
                           /\ rank = [n \in DOMAIN tree |-> N - n]
  OBVIOUS
<1>2. N \in Nat /\ D = 1..N /\ \A n \in D : \A k \in Parts(n) : k \in D /\ k > n /\ k # Null
  BY <1>1, WholeTree
<1>3. ASSUME NEW d \in D PROVE rank[d] \in 0..N /\ e[d] \subseteq D /\ \A x \in e[d] : rank[x] < rank[d]
  BY <1>1, <1>2
<1>4. \E r : IsLeast(r, D, e)
  BY <1>2, <1>3, ClosureDefined
<1>5. PICK r : r = CHOOSE h : IsLeast(h, D, e)
  OBVIOUS
<1>6. IsLeast(r, D, e)
  BY <1>4, <1>5
<1>7. Below = r
  <2> DEFINE Tree(h) == h = [n \in DOMAIN tree |-> {n} \union UNION {h[k] : k \in Items(tree[n].parts) \ {Null}}]
  <2>1. \A n \in DOMAIN tree : Items(tree[n].parts) \ {Null} = e[n]
    BY <1>1, <1>2 DEF Parts
  <2>2. \A h : [n \in DOMAIN tree |-> {n} \union UNION {h[k] : k \in Items(tree[n].parts) \ {Null}}]
             = [d \in D |-> {d} \union UNION {h[x] : x \in e[d]}]
    BY <1>1, <2>1
  <2>3. ASSUME NEW h PROVE Tree(h) <=> IsLeast(h, D, e)
    <3>1. PICK v, w : /\ v = [n \in DOMAIN tree |-> {n} \union UNION {h[k] : k \in Items(tree[n].parts) \ {Null}}]
                      /\ w = [d \in D |-> {d} \union UNION {h[x] : x \in e[d]}]
      OBVIOUS
    <3>2. v = w
      BY ONLY <2>2, <3>1
    <3>3. (Tree(h) <=> h = v) /\ (IsLeast(h, D, e) <=> h = w)
      BY ONLY <3>1 DEF IsLeast
    <3> QED BY ONLY <3>2, <3>3
  <2>4. Below = CHOOSE h : Tree(h)
    BY DEF Below
  <2> HIDE DEF Tree
  <2> QED BY <1>5, <2>3, <2>4
<1>8. \A d \in D : Leads(r, D, e, rank, d)
  <2>1. IsClosure(r, D, e)
    BY <1>6 DEF IsClosure, IsLeast
  <2> QED BY <1>2, <1>3, <2>1, Closure
<1>9. ASSUME NEW n \in D
      PROVE  /\ n \in r[n] /\ r[n] \subseteq D
             /\ \A x \in r[n] : Parts(x) \subseteq r[n] /\ x >= n
             /\ \A x \in r[n] \ {n} : \E y \in r[n] : x \in Parts(y)
  <2>1. /\ n \in r[n] /\ r[n] \subseteq D
        /\ \A x \in r[n] : e[x] \subseteq r[n] /\ rank[x] <= rank[n]
        /\ \A x \in r[n] \ {n} : \E y \in r[n] : x \in e[y]
    BY <1>8 DEF Leads
  <2>2. \A x \in D : e[x] = Parts(x) /\ rank[x] = N - x /\ x \in Nat
    BY <1>1, <1>2
  <2>3. ASSUME NEW x \in r[n] PROVE Parts(x) \subseteq r[n] /\ x >= n
    <3>1. x \in D /\ rank[x] <= rank[n]
      BY <2>1
    <3> QED BY <1>2, <2>1, <2>2, <3>1
  <2> QED BY <2>1, <2>2, <2>3
<1> QED BY <1>1, <1>7, <1>9

-----------------------------------------------------------------------------
(* What is lost of a tree.                                                 *)

Lost == UNION {Below[n] : n \in RepeatedValues \union ForHeaders}

\* The children whose values are in the node that is made.
KeptKids(n) ==
  IF tree[n].kind = "Object" THEN {Kids(n)[j] : j \in {i \in DOMAIN Kids(n) : ~IsRepeated(n, i)}}
  ELSE Parts(n)

LEMMA KeptInside ==
  ASSUME NEW f, Whole(f), NEW n \in DOMAIN tree
  PROVE  KeptKids(n) \subseteq Parts(n)
<1>1. tree \in Trees
  BY WholeTree
<1>2. ASSUME tree[n].kind = "Object", NEW k \in KeptKids(n) PROVE k \in Parts(n)
  <2>1. PICK i \in DOMAIN Kids(n) : k = Kids(n)[i]
    BY <1>2 DEF KeptKids
  <2> QED BY <1>1, <2>1, KidsOf DEF Parts
<1> QED BY <1>2 DEF KeptKids

LEMMA ObjectKids ==
  ASSUME NEW f, Whole(f), NEW n \in DOMAIN tree, tree[n].kind = "Object", NEW k \in DOMAIN Kids(n)
  PROVE  IsRepeated(n, k) <=> tree[n].names[k] \in ToSet(SubSeq(tree[n].names, 1, k - 1))
<1>1. PICK s, x, c : s = tree[n].parts /\ x = tree[n].names /\ c = Len(x)
  OBVIOUS
<1>2. tree \in Trees
  BY WholeTree
<1>3. s \in Seq(Seq(Nat)) /\ Len(s) = 1 /\ x \in Seq(Name) /\ c = Len(s[1])
  BY <1>1, <1>2, KidsOf DEF HasParts, ParseNode
<1>4. s[1] \in Seq(Nat) /\ s = <<s[1]>> /\ c \in Nat
  BY <1>1, <1>3
<1>5. Kids(n) = s[1]
  BY <1>1, <1>4, FlattenOne DEF Kids
<1>6. k \in 1..c
  BY <1>3, <1>4, <1>5
<1>7. PICK y : y = SubSeq(x, 1, k - 1)
  OBVIOUS
<1>8. DOMAIN y = 1..(k - 1) /\ \A i \in 1..(k - 1) : y[i] = x[i]
  BY <1>1, <1>3, <1>4, <1>6, <1>7
<1>9. x[k] \in ToSet(y) <=> \E i \in 1..(k - 1) : x[i] = x[k]
  BY <1>8 DEF ToSet
<1> QED BY <1>1, <1>7, <1>9 DEF IsRepeated

\* The values of repeated fields, and the headers of loops.
LEMMA RepeatedOnes ==
  ASSUME NEW f, Whole(f)
  PROVE  \A x : x \in RepeatedValues <=>
                  \E n \in DOMAIN tree : \E k \in DOMAIN Kids(n) :
                    tree[n].kind = "Object" /\ IsRepeated(n, k) /\ x = Kids(n)[k]
BY ObjectKids DEF RepeatedValues

LEMMA HeaderOnes ==
  \A x : x \in ForHeaders <=> \E n \in DOMAIN tree : tree[n].kind = "For" /\ x \in ToSet(tree[n].parts[1])
BY DEF ForHeaders

\* Both are children, so that none of them is the root.
LEMMA LostKids ==
  ASSUME NEW f, Whole(f), NEW x, x \in RepeatedValues \union ForHeaders
  PROVE  x \in DOMAIN tree /\ x # Root /\ x # Null /\ \E n \in DOMAIN tree : x \in Parts(n)
<1>1. tree \in Trees /\ DOMAIN tree \subseteq Nat /\ Root \in DOMAIN tree /\ \A n \in DOMAIN tree : n >= 1
  BY WholeTree
<1>2. \E n \in DOMAIN tree : x \in Parts(n)
  <2>1. CASE x \in RepeatedValues
    <3>1. PICK n \in DOMAIN tree : \E k \in DOMAIN Kids(n) : x = Kids(n)[k]
      BY <2>1, RepeatedOnes
    <3> QED BY <1>1, <3>1, KidsOf DEF Parts
  <2>2. CASE x \in ForHeaders
    <3>1. PICK n \in DOMAIN tree : tree[n].kind = "For" /\ x \in ToSet(tree[n].parts[1])
      BY <2>2, HeaderOnes
    <3> QED BY <3>1, ForParts
  <2> QED BY <2>1, <2>2
<1>3. PICK n \in DOMAIN tree : x \in Parts(n)
  BY <1>2
<1>4. x \in DOMAIN tree /\ x > n /\ x # Null
  BY <1>3, WholeTree
<1>5. x # 1
  BY <1>1, <1>4
<1> QED BY <1>2, <1>4, <1>5 DEF Root

LEMMA LostClosed ==
  ASSUME NEW f, Whole(f)
  PROVE  /\ RepeatedValues \union ForHeaders \subseteq Lost /\ Lost \subseteq DOMAIN tree /\ Root \notin Lost
         /\ \A n \in Lost : Parts(n) \subseteq Lost
         /\ \A n \in DOMAIN tree \ Lost : \A k \in Parts(n) \intersect Lost : k \in RepeatedValues \union ForHeaders
<1>1. PICK X : X = RepeatedValues \union ForHeaders
  OBVIOUS
<1>2. Lost = UNION {Below[n] : n \in X}
  BY <1>1 DEF Lost
<1>3. ASSUME NEW x \in X
      PROVE  /\ x \in Below[x] /\ Below[x] \subseteq DOMAIN tree /\ Root \notin Below[x]
             /\ \A n \in Below[x] : Parts(n) \subseteq Below[x]
             /\ \A n \in Below[x] \ {x} : \E y \in Below[x] : n \in Parts(y)
  <2>1. x \in DOMAIN tree /\ x # Root
    BY <1>1, LostKids
  <2>2. /\ x \in Below[x] /\ Below[x] \subseteq DOMAIN tree
        /\ \A n \in Below[x] : Parts(n) \subseteq Below[x] /\ n >= x
        /\ \A n \in Below[x] \ {x} : \E y \in Below[x] : n \in Parts(y)
    BY <2>1, BelowLeads
  <2>3. Root \notin Below[x]
    <3>1. x \in Nat /\ x # 0
      BY <2>1, WholeTree
    <3> QED BY <2>1, <2>2, <3>1 DEF Root
  <2> QED BY <2>2, <2>3
<1>4. ASSUME NEW n \in DOMAIN tree \ Lost, NEW k \in Parts(n) \intersect Lost PROVE k \in X
  <2>1. PICK x \in X : k \in Below[x]
    BY <1>2, <1>4
  <2>2. ASSUME k # x PROVE FALSE
    <3>1. PICK y \in Below[x] : k \in Parts(y)
      BY <1>3, <2>1, <2>2
    <3>2. tree \in Trees /\ k # Null /\ y \in DOMAIN tree
      BY <1>3, <1>4, <3>1, WholeTree
    <3>3. y = n
      BY <1>4, <3>1, <3>2, OneParent DEF Parts
    <3> QED BY <1>2, <1>4, <3>1, <3>3
  <2> QED BY <2>1, <2>2
<1> QED BY <1>1, <1>2, <1>3, <1>4

\* Of the children of what is not lost, those that are kept are not lost.
LEMMA KeptOrLost ==
  ASSUME NEW f, Whole(f), NEW n \in DOMAIN tree \ Lost
  PROVE  /\ tree[n].kind # "For" => \A k \in Parts(n) : k \in Lost <=> k \notin KeptKids(n)
         /\ tree[n].kind = "For" => \A k \in Parts(n) : k \in Lost <=> k # Body(n)
<1>1. tree \in Trees
  BY WholeTree
<1>2. ASSUME NEW k \in Parts(n)
      PROVE  /\ k \in Lost <=> k \in RepeatedValues \union ForHeaders
             /\ k # Null /\ k \in DOMAIN tree
  BY LostClosed, WholeTree
<1>3. ASSUME NEW k \in Parts(n)
      PROVE  k \in RepeatedValues <=>
               tree[n].kind = "Object" /\ \E j \in DOMAIN Kids(n) : IsRepeated(n, j) /\ k = Kids(n)[j]
  <2>1. ASSUME NEW m \in DOMAIN tree, NEW j \in DOMAIN Kids(m), k = Kids(m)[j] PROVE m = n
    <3>1. k \in Parts(m)
      BY <1>1, <2>1, KidsOf DEF Parts
    <3> QED BY <1>1, <1>2, <1>3, <3>1, OneParent DEF Parts
  <2> QED BY <2>1, RepeatedOnes
<1>4. ASSUME NEW k \in Parts(n)
      PROVE  k \in ForHeaders <=> tree[n].kind = "For" /\ k \in ToSet(tree[n].parts[1])
  <2>1. ASSUME NEW m \in DOMAIN tree, tree[m].kind = "For", k \in ToSet(tree[m].parts[1]) PROVE m = n
    <3>1. k \in Parts(m)
      BY <2>1, ForParts
    <3> QED BY <1>1, <1>2, <1>4, <3>1, OneParent DEF Parts
  <2> QED BY <2>1, HeaderOnes
<1>5. ASSUME tree[n].kind = "For", NEW k \in Parts(n) PROVE k \in Lost <=> k # Body(n)
  BY <1>2, <1>3, <1>4, <1>5, ForParts
<1>6. ASSUME tree[n].kind # "For", NEW k \in Parts(n) PROVE k \in Lost <=> k \notin KeptKids(n)
  <2>1. k \in Lost <=> k \in RepeatedValues
    BY <1>2, <1>4, <1>6
  <2>2. CASE tree[n].kind # "Object"
    BY <1>3, <1>6, <2>1, <2>2 DEF KeptKids
  <2>3. CASE tree[n].kind = "Object"
    <3>1. PICK j \in DOMAIN Kids(n) : k = Kids(n)[j]
      BY <1>1, <1>6, KidsOf DEF Parts
    <3>2. \A i \in DOMAIN Kids(n) : k = Kids(n)[i] => i = j
      BY <1>1, <1>2, <1>6, <3>1, OneKid
    <3>3. k \in Lost <=> IsRepeated(n, j)
      BY <1>3, <1>6, <2>1, <2>3, <3>1, <3>2
    <3>4. k \in KeptKids(n) <=> ~IsRepeated(n, j)
      BY <2>3, <3>1, <3>2 DEF KeptKids
    <3> QED BY <3>3, <3>4
  <2> QED BY <2>2, <2>3
<1> QED BY <1>5, <1>6

\* What stands for a node is not lost if the node is not.
LEMMA StandsKept ==
  ASSUME NEW f, Whole(f)
  PROVE  \A n \in DOMAIN tree : n \notin Lost => f[n] \notin Lost
<1> DEFINE G == {n \in DOMAIN tree : n \notin Lost => f[n] \notin Lost}
<1>1. ASSUME NEW n \in DOMAIN tree, \A k \in DOMAIN tree : k > n => k \in G, n \notin Lost PROVE f[n] \notin Lost
  <2>1. CASE tree[n].kind = "For"
    <3>1. Body(n) \in Parts(n) /\ f[n] = f[Body(n)]
      BY <2>1, ForParts
    <3>2. Body(n) \in DOMAIN tree /\ Body(n) > n
      BY <3>1, WholeTree
    <3>3. Body(n) \notin Lost
      BY <1>1, <2>1, <3>1, KeptOrLost
    <3> QED BY <1>1, <3>1, <3>2, <3>3
  <2>2. CASE tree[n].kind # "For"
    BY <1>1, <2>2, StandsType
  <2> QED BY <2>1, <2>2
<1>2. DOMAIN tree \subseteq G
  <2>1. \A n \in DOMAIN tree : (\A k \in DOMAIN tree : k > n => k \in G) => n \in G
    BY <1>1
  <2> HIDE DEF G
  <2> QED BY <2>1, CountDown
<1> QED BY <1>2

-----------------------------------------------------------------------------
(* What is made of a tree.                                                 *)

LEMMA WholeAst ==
  ASSUME NEW f, Whole(f)
  PROVE  /\ DOMAIN ast = 1..Len(ast) /\ Len(ast) \in Nat
         /\ \A a \in DOMAIN ast : /\ ast[a] \in AnyNode /\ ast[a].of \in DOMAIN tree
                                  /\ \A x \in Items(ast[a].parts) : x \in DOMAIN ast /\ x < a
                                  /\ Fits(ast, a, f) /\ (IsProper(a) \/ IsWrapped(a))
         /\ \A n \in DOMAIN tree : value[n] \in DOMAIN ast /\ IsProper(value[n]) /\ ast[value[n]].of = f[n]
         /\ \A n \in DOMAIN tree : value[f[n]] = value[n]
<1>1. tree \in Trees /\ NodesInv /\ DOMAIN value = DOMAIN tree /\ GrowInv /\ Shapes(f)
  BY DEF Whole, BuildInv
<1>2. ast \in Seq(AnyNode) /\ DOMAIN ast = 1..Len(ast) /\ Len(ast) \in Nat
  BY <1>1 DEF NodesInv
<1>3. ASSUME NEW a \in DOMAIN ast
      PROVE  ast[a] \in AnyNode /\ ast[a].of \in DOMAIN tree /\ \A x \in Items(ast[a].parts) : x \in DOMAIN ast /\ x < a
  <2>1. ast[a] \in SynNode(a - 1) /\ a - 1 \in Nat /\ ast[a] \in AnyNode
    BY <1>1, <1>2 DEF NodesInv
  <2>2. ast[a].of \in DOMAIN tree /\ Items(ast[a].parts) \subseteq 1..(a - 1)
    BY <1>1, <2>1, SynNodeType
  <2> QED BY <1>2, <2>1, <2>2
<1>4. \A n \in DOMAIN tree : value[n] \in DOMAIN ast /\ IsProper(value[n]) /\ ast[value[n]].of = f[n]
  BY <1>1 DEF NodesInv, GrowInv, Shapes
<1>5. \A n \in DOMAIN tree : value[f[n]] = value[n]
  BY <1>4 DEF IsProper
<1> QED BY <1>1, <1>2, <1>3, <1>4, <1>5 DEF GrowInv, Shapes

LEMMA ProperOf ==
  ASSUME NEW f, Whole(f), NEW a \in DOMAIN ast, IsProper(a), NEW n, n = ast[a].of
  PROVE  n \in DOMAIN tree /\ tree[n].kind # "For" /\ f[n] = n /\ value[n] = a /\ ~IsPromoted(a)
<1>1. n \in DOMAIN tree /\ value[n] = a /\ ast[a].kind = tree[n].kind /\ tree[n].kind # "For"
  BY DEF IsProper, Whole
<1>2. f[n] = n
  BY <1>1, StandsType
<1>3. ~IsPromoted(a)
  BY <1>1 DEF IsPromoted
<1> QED BY <1>1, <1>2, <1>3

LEMMA WrappedOf ==
  ASSUME NEW f, Whole(f), NEW a \in DOMAIN ast, IsWrapped(a)
  PROVE  /\ IsPromoted(a) /\ ~IsProper(a)
         /\ \E s \in DOMAIN ast : IsProper(s) /\ ast[s].of = ast[a].of /\ Items(ast[a].parts) = {s}
<1>1. PICK s \in DOMAIN ast : IsProper(s) /\ ast[s].kind # "Block" /\ Around(ast[a], s)
  BY DEF IsWrapped
<1>2. ast[a].kind = "Block" /\ ast[s].of = ast[a].of /\ ast[a].parts = <<<<s>>>>
  BY <1>1 DEF IsWrapped, Around
<1>3. tree[ast[a].of].kind # "Block"
  BY <1>1, <1>2 DEF IsProper
<1>4. Items(<<<<s>>>>) = {s}
  <2>1. DOMAIN <<<<s>>>> = {1} /\ DOMAIN <<s>> = {1} /\ <<<<s>>>>[1] = <<s>> /\ <<s>>[1] = s
    OBVIOUS
  <2> QED BY ONLY <2>1 DEF Items, ToSet
<1> QED BY <1>1, <1>2, <1>3, <1>4 DEF IsPromoted, IsProper

\* The nodes that a node has are for the children that are kept, one for each.
IsForKids(a, n, f) ==
  /\ \A x \in Items(ast[a].parts) : \E k \in KeptKids(n) : ast[x].of = f[k]
  /\ \A k \in KeptKids(n) : \E x \in Items(ast[a].parts) : ast[x].of = f[k]
  /\ \A x \in Items(ast[a].parts), y \in Items(ast[a].parts) : ast[x].of = ast[y].of => x = y

\* But for an object literal, part by part.
LEMMA PartsMatch ==
  ASSUME NEW f, Whole(f), NEW a \in DOMAIN ast, IsProper(a), NEW n, n = ast[a].of, tree[n].kind # "Object",
         NEW s, s = ast[a].parts, NEW t, t = tree[n].parts
  PROVE  /\ DOMAIN s = DOMAIN t
         /\ \A p \in DOMAIN s : /\ DOMAIN s[p] = DOMAIN t[p]
                                /\ \A k \in DOMAIN s[p] : ast[s[p][k]].of = f[t[p][k]]
<1>1. n \in DOMAIN tree /\ ast[a].kind = tree[n].kind /\ tree \in Trees
  BY ProperOf, WholeTree DEF IsProper
<1>2. /\ Len(s) = Len(t)
      /\ \A p \in DOMAIN s :
           /\ Len(s[p]) = Len(t[p])
           /\ \A k \in DOMAIN s[p] : ast[s[p][k]].of = f[t[p][k]]
  <2>1. Fits(ast, a, f) /\ ~(ast[a].kind = "Block" /\ tree[n].kind # "Block") /\ ast[a].kind # "Object"
    BY <1>1, WholeAst
  <2> QED BY ONLY s = ast[a].parts, t = tree[n].parts, <2>1, n = ast[a].of, Zenon DEF Fits
<1>3. s \in Seq(Seq(Nat)) /\ t \in Seq(Seq(Nat))
  <2>1. ast[a] \in AnyNode
    BY WholeAst
  <2> QED BY <1>1, <2>1, KidsOf DEF AnyNode, ParseNode
<1>4. DOMAIN s = DOMAIN t
  BY <1>2, <1>3
<1>5. ASSUME NEW p \in DOMAIN s PROVE DOMAIN s[p] = DOMAIN t[p]
  <2>1. s[p] \in Seq(Nat) /\ t[p] \in Seq(Nat) /\ Len(s[p]) = Len(t[p])
    BY <1>2, <1>3, <1>4
  <2> QED BY <2>1
<1> QED BY <1>2, <1>4, <1>5

LEMMA ItemsOf ==
  ASSUME NEW f, Whole(f), NEW a \in DOMAIN ast, IsProper(a), NEW n, n = ast[a].of
  PROVE  IsForKids(a, n, f)
<1>1. n \in DOMAIN tree /\ tree[n].kind # "For" /\ ast[a].kind = tree[n].kind /\ tree \in Trees
  BY ProperOf, WholeTree DEF IsProper
<1>2. CASE tree[n].kind = "Object"
  <2>1. Items(ast[a].parts) = KeptValues(n)
    BY <1>1, <1>2 DEF IsProper
  <2>2. KeptValues(n) = {value[k] : k \in KeptKids(n)}
    BY <1>2 DEF KeptValues, KeptKids
  <2>3. KeptKids(n) \subseteq DOMAIN tree
    <3>1. KeptKids(n) \subseteq Parts(n)
      BY <1>1, KeptInside
    <3> QED BY <1>1, <3>1, WholeTree
  <2>4. \A k \in KeptKids(n) : ast[value[k]].of = f[k] /\ value[f[k]] = value[k]
    BY <2>3, WholeAst
  <2> QED BY <2>1, <2>2, <2>4 DEF IsForKids
<1>3. CASE tree[n].kind # "Object"
  <2>1. PICK s, t : s = ast[a].parts /\ t = tree[n].parts
    OBVIOUS
  <2>2. \A p \in DOMAIN s : \A k \in DOMAIN s[p] : ast[s[p][k]].of = f[t[p][k]]
    BY <1>3, <2>1, PartsMatch
  <2>3. DOMAIN s = DOMAIN t /\ \A p \in DOMAIN s : DOMAIN s[p] = DOMAIN t[p]
    BY <1>3, <2>1, PartsMatch
  <2>4. KeptKids(n) = Items(t)
    BY <1>3, <2>1 DEF KeptKids, Parts
  <2>5. ASSUME NEW x \in Items(s)
        PROVE  \E p \in DOMAIN s : \E k \in DOMAIN s[p] : x = s[p][k] /\ ast[x].of = f[t[p][k]] /\ t[p][k] \in Items(t)
    <3>1. PICK p \in DOMAIN s : \E k \in DOMAIN s[p] : x = s[p][k]
      BY <2>5 DEF Items, ToSet
    <3>2. PICK k \in DOMAIN s[p] : x = s[p][k]
      BY <3>1
    <3>3. t[p][k] \in Items(t)
      BY <2>3 DEF Items, ToSet
    <3> QED BY <2>2, <3>2, <3>3
  <2>6. ASSUME NEW c \in Items(t) PROVE \E x \in Items(s) : ast[x].of = f[c]
    <3>1. PICK p \in DOMAIN t : \E k \in DOMAIN t[p] : c = t[p][k]
      BY <2>6 DEF Items, ToSet
    <3>2. PICK k \in DOMAIN t[p] : c = t[p][k]
      BY <3>1
    <3>3. s[p][k] \in Items(s) /\ p \in DOMAIN s /\ k \in DOMAIN s[p]
      BY <2>3, <3>1, <3>2 DEF Items, ToSet
    <3> QED BY <2>2, <3>2, <3>3
  <2>7. ASSUME NEW x \in Items(s), NEW y \in Items(s), ast[x].of = ast[y].of PROVE x = y
    <3>1. PICK p \in DOMAIN s : \E k \in DOMAIN s[p] : x = s[p][k] /\ ast[x].of = f[t[p][k]] /\ t[p][k] \in Items(t)
      BY <2>5
    <3>2. PICK k \in DOMAIN s[p] : x = s[p][k] /\ ast[x].of = f[t[p][k]] /\ t[p][k] \in Items(t)
      BY <3>1
    <3>3. PICK q \in DOMAIN s : \E j \in DOMAIN s[q] : y = s[q][j] /\ ast[y].of = f[t[q][j]] /\ t[q][j] \in Items(t)
      BY <2>5
    <3>4. PICK j \in DOMAIN s[q] : y = s[q][j] /\ ast[y].of = f[t[q][j]] /\ t[q][j] \in Items(t)
      BY <3>3
    <3>5. t[p][k] = t[q][j] /\ t[p][k] # Null
      <4>1. f[t[p][k]] = f[t[q][j]] /\ t[p][k] \in Parts(n) /\ t[q][j] \in Parts(n)
        BY <2>1, <2>7, <3>2, <3>4 DEF Parts
      <4> QED BY <1>1, <4>1, OneStand, WholeTree
    <3>6. p = q /\ k = j
      BY <1>1, <2>1, <2>3, <3>5, OnePlace
    <3> QED BY <3>2, <3>4, <3>6
  <2> QED BY <2>1, <2>4, <2>5, <2>6, <2>7 DEF IsForKids
<1> QED BY <1>2, <1>3

\* What the root leads to in the syntax tree.
LEMMA LinkedLeads ==
  ASSUME NEW f, Whole(f)
  PROVE  /\ value[Root] \in Linked /\ Linked \subseteq DOMAIN ast
         /\ \A a \in Linked : Items(ast[a].parts) \subseteq Linked
         /\ \A a \in Linked \ {value[Root]} : \E b \in Linked : a \in Items(ast[b].parts)
         /\ \A X : value[Root] \in X /\ (\A a \in X \intersect DOMAIN ast : Items(ast[a].parts) \subseteq X)
                     => Linked \subseteq X
<1>1. BuildInv /\ Root \in DOMAIN tree
  BY WholeTree DEF Whole
<1>2. PICK r : IsReach(r) /\ Linked = r[value[Root]]
  BY <1>1, LinkedDefined
<1>3. PICK N, D, e, rank : /\ N = Len(ast) /\ D = DOMAIN ast
                           /\ e = [a \in DOMAIN ast |-> Items(ast[a].parts)]
                           /\ rank = [a \in DOMAIN ast |-> a]
  OBVIOUS
<1>4. N \in Nat /\ D = 1..N /\ \A a \in D : e[a] = Items(ast[a].parts) /\ \A x \in e[a] : x \in D /\ x < a
  BY <1>3, WholeAst
<1>5. \A d \in D : rank[d] \in 0..N /\ e[d] \subseteq D /\ \A x \in e[d] : rank[x] < rank[d]
  BY <1>3, <1>4
<1>6. IsClosure(r, D, e)
  BY <1>2, <1>3, <1>4 DEF IsClosure, IsReach
<1>7. \A d \in D : Leads(r, D, e, rank, d)
  BY <1>4, <1>5, <1>6, Closure
<1>8. PICK v : v = value[Root]
  OBVIOUS
<1>9. v \in D
  BY <1>1, <1>3, <1>8, WholeAst
<1>10. /\ v \in r[v] /\ r[v] \subseteq D
       /\ \A x \in r[v] : e[x] \subseteq r[v]
       /\ \A x \in r[v] \ {v} : \E y \in r[v] : x \in e[y]
       /\ \A X : v \in X /\ (\A y \in X \intersect D : e[y] \subseteq X) => r[v] \subseteq X
  BY <1>7, <1>9 DEF Leads
<1>11. \A a \in r[v] : e[a] = Items(ast[a].parts)
  BY <1>4, <1>10
<1>12. ASSUME NEW X, v \in X, \A a \in X \intersect D : Items(ast[a].parts) \subseteq X PROVE r[v] \subseteq X
  <2>1. \A y \in X \intersect D : e[y] \subseteq X
    BY <1>4, <1>12
  <2> QED BY <1>10, <1>12, <2>1
<1> QED BY <1>2, <1>3, <1>8, <1>10, <1>11, <1>12

\* A node is for the same parse node as one that a node has for a child: it is
\* that one, or it is the statement in it.
HeldBy(a, x, c, y) ==
  /\ c \in DOMAIN ast /\ IsProper(c) /\ y \in Items(ast[c].parts) /\ ast[y].of = ast[x].of
  /\ (y = x /\ c = a) \/ (y = a /\ IsWrapped(a))

LEMMA Holder ==
  ASSUME NEW f, Whole(f), NEW a \in Linked, NEW x \in Items(ast[a].parts)
  PROVE  \E c, y : HeldBy(a, x, c, y)
<1>1. a \in DOMAIN ast /\ (IsProper(a) \/ IsWrapped(a))
  BY LinkedLeads, WholeAst
<1>2. CASE IsProper(a)
  <2>1. HeldBy(a, x, a, x)
    BY <1>1, <1>2, LinkedLeads DEF HeldBy
  <2> QED BY <2>1
<1>3. CASE IsWrapped(a)
  <2>1. a \in DOMAIN ast /\ Linked \subseteq DOMAIN ast
    BY LinkedLeads
  <2>2. PICK s \in DOMAIN ast : IsProper(s) /\ ast[s].of = ast[a].of /\ Items(ast[a].parts) = {s}
    BY <1>3, <2>1, WrappedOf
  <2>3. ~IsProper(a) /\ x = s
    BY <1>3, <2>1, <2>2, WrappedOf
  <2>4. a # value[Root]
    BY <2>3, WholeAst, WholeTree
  <2>5. PICK c \in Linked : a \in Items(ast[c].parts)
    BY <2>4, LinkedLeads
  <2>6. c \in DOMAIN ast /\ (IsProper(c) \/ IsWrapped(c))
    BY <2>1, WholeAst
  <2>7. IsProper(c)
    <3>1. ASSUME IsWrapped(c) PROVE FALSE
      <4>1. PICK t \in DOMAIN ast : IsProper(t) /\ Items(ast[c].parts) = {t}
        BY <2>6, <3>1, WrappedOf
      <4> QED BY <2>3, <2>5, <4>1
    <3> QED BY <2>6, <3>1
  <2>8. HeldBy(a, x, c, a)
    BY ONLY <1>3, <2>2, <2>3, <2>5, <2>6, <2>7 DEF HeldBy
  <2> QED BY <2>8
<1> QED BY <1>1, <1>2, <1>3

\* No node is the child of two.
LEMMA OneHolder ==
  ASSUME NEW f, Whole(f), NEW a \in Linked, NEW b \in Linked,
         NEW x \in Items(ast[a].parts), x \in Items(ast[b].parts)
  PROVE  a = b
<1>1. PICK c, y : HeldBy(a, x, c, y)
  BY Holder
<1>2. PICK d, z : HeldBy(b, x, d, z)
  BY Holder
<1>3. PICK m, n : m = ast[c].of /\ n = ast[d].of
  OBVIOUS
<1>4. /\ c \in DOMAIN ast /\ IsProper(c) /\ y \in Items(ast[c].parts)
      /\ d \in DOMAIN ast /\ IsProper(d) /\ z \in Items(ast[d].parts) /\ ast[y].of = ast[z].of
  BY <1>1, <1>2 DEF HeldBy
<1>5. /\ m \in DOMAIN tree /\ tree[m].kind # "For" /\ value[m] = c /\ IsForKids(c, m, f)
      /\ n \in DOMAIN tree /\ tree[n].kind # "For" /\ value[n] = d /\ IsForKids(d, n, f)
  BY <1>3, <1>4, ProperOf, ItemsOf
<1>6. PICK k \in KeptKids(m) : ast[y].of = f[k]
  BY <1>4, <1>5 DEF IsForKids
<1>7. PICK j \in KeptKids(n) : ast[z].of = f[j]
  BY <1>4, <1>5 DEF IsForKids
<1>8. KeptKids(m) \subseteq Parts(m) /\ KeptKids(n) \subseteq Parts(n)
  BY <1>5, KeptInside
<1>9. m = n
  BY <1>4, <1>5, <1>6, <1>7, <1>8, OneStand
<1>10. c = d /\ y = z
  BY <1>4, <1>5, <1>9 DEF IsForKids
<1>11. a \in DOMAIN ast /\ b \in DOMAIN ast /\ DOMAIN ast \subseteq Nat
  BY LinkedLeads, WholeAst
<1>12. x # a /\ x # b
  BY <1>11, WholeAst
<1> QED BY <1>1, <1>2, <1>10, <1>12 DEF HeldBy

-----------------------------------------------------------------------------
(* Nothing is lost.                                                        *)

Kept == {n \in DOMAIN tree \ Lost : tree[n].kind # "For"}

MadeNodes == {a \in Linked : ~IsPromoted(a)}

LEMMA WholeBuilt ==
  ASSUME BuildInv, OnceInv, GrowInv, ShapeInv, CrashesExplained, build = "built"
  PROVE  Whole(StandsFor)
<1>1. ~Incomplete /\ tree \in Trees
  BY DEF CrashesExplained, Incomplete, BuildInv
<1>2. IsStanding(StandsFor)
  BY <1>1, StandsDefined
<1>3. Shapes(StandsFor)
  BY <1>2 DEF ShapeInv
<1>4. DOMAIN value = DOMAIN tree
  BY AllValued
<1> QED BY <1>1, <1>2, <1>3, <1>4 DEF Whole

\* The root leads to nothing that was made for what is lost: nothing that is
\* kept is the parent of such.
LEMMA LinkedKept ==
  ASSUME NEW f, Whole(f)
  PROVE  \A a \in Linked : ast[a].of \notin Lost
<1> DEFINE X == {a \in DOMAIN ast : ast[a].of \notin Lost}
<1>1. value[Root] \in X
  <2>1. tree \in Trees /\ Root \in DOMAIN tree
    BY WholeTree
  <2>2. tree[Root].kind # "For"
    BY <2>1, OnlyRootIsProgram
  <2>3. ast[value[Root]].of = Root /\ value[Root] \in DOMAIN ast
    <3>1. f[Root] = Root
      BY <2>1, <2>2, StandsType
    <3> QED BY <2>1, <3>1, WholeAst
  <2> QED BY <2>3, LostClosed
<1>2. ASSUME NEW a \in X, NEW x \in Items(ast[a].parts) PROVE x \in X
  <2>1. a \in DOMAIN ast /\ x \in DOMAIN ast
    BY <1>2, WholeAst
  <2>2. CASE IsProper(a)
    <3>1. PICK n : n = ast[a].of
      OBVIOUS
    <3>2. n \in DOMAIN tree /\ n \notin Lost /\ tree[n].kind # "For" /\ IsForKids(a, n, f)
      BY <1>2, <2>1, <2>2, <3>1, ProperOf, ItemsOf
    <3>3. PICK k \in KeptKids(n) : ast[x].of = f[k]
      BY <1>2, <3>2 DEF IsForKids
    <3>4. k \in Parts(n) /\ k \in DOMAIN tree
      BY <3>2, KeptInside, WholeTree
    <3>5. k \notin Lost
      BY <3>2, <3>4, KeptOrLost
    <3> QED BY <2>1, <3>3, <3>4, <3>5, StandsKept
  <2>3. CASE IsWrapped(a)
    <3>1. PICK s \in DOMAIN ast : ast[s].of = ast[a].of /\ Items(ast[a].parts) = {s}
      BY <2>1, <2>3, WrappedOf
    <3> QED BY <1>2, <3>1
  <2> QED BY <2>1, <2>2, <2>3, WholeAst
<1>3. Linked \subseteq X
  <2>1. \A a \in X \intersect DOMAIN ast : Items(ast[a].parts) \subseteq X
    BY <1>2
  <2> HIDE DEF X
  <2> QED BY <1>1, <2>1, LinkedLeads
<1> QED BY <1>3

\* A child that is not lost is linked to its parent's value.
LEMMA KidLinked ==
  ASSUME NEW f, Whole(f), NEW m \in DOMAIN tree \ Lost, value[m] \in Linked,
         NEW n \in Parts(m), n \notin Lost
  PROVE  value[n] \in Linked
<1>1. n \in DOMAIN tree
  BY WholeTree
<1>2. CASE tree[m].kind = "For"
  <2>1. n = Body(m) /\ f[m] = f[n]
    BY <1>2, ForParts, KeptOrLost
  <2>2. value[f[m]] = value[m] /\ value[f[n]] = value[n]
    BY <1>1, WholeAst
  <2> QED BY <2>1, <2>2
<1>3. CASE tree[m].kind # "For"
  <2>1. PICK a : a = value[m]
    OBVIOUS
  <2>2. a \in DOMAIN ast /\ IsProper(a) /\ ast[a].of = m
    <3>1. f[m] = m
      BY <1>3, StandsType
    <3> QED BY <2>1, <3>1, WholeAst
  <2>3. n \in KeptKids(m) /\ IsForKids(a, m, f)
    BY <1>3, <2>2, KeptOrLost, ItemsOf
  <2>4. PICK x \in Items(ast[a].parts) : ast[x].of = f[n]
    BY <2>3 DEF IsForKids
  <2>5. x \in Linked /\ x \in DOMAIN ast
    BY <2>1, <2>4, LinkedLeads
  <2>6. value[f[n]] = value[n]
    BY <1>1, WholeAst
  <2>7. CASE IsProper(x)
    BY <2>4, <2>5, <2>6, <2>7 DEF IsProper
  <2>8. CASE IsWrapped(x)
    <3>1. PICK s \in DOMAIN ast : IsProper(s) /\ ast[s].of = ast[x].of /\ Items(ast[x].parts) = {s}
      BY <2>5, <2>8, WrappedOf
    <3>2. s \in Linked /\ s = value[n]
      <4>1. s \in Linked
        BY <2>5, <3>1, LinkedLeads
      <4>2. value[ast[s].of] = s
        BY <3>1 DEF IsProper
      <4> QED BY <2>4, <2>6, <3>1, <4>1, <4>2
    <3> QED BY <3>2
  <2> QED BY <2>5, <2>7, <2>8, WholeAst
<1> QED BY <1>2, <1>3

\* What is not lost is linked to the root, its parent not being lost either.
LEMMA KeptLinked ==
  ASSUME NEW f, Whole(f)
  PROVE  \A n \in DOMAIN tree \ Lost : value[n] \in Linked
<1>1. PICK N : N = Len(tree)
  OBVIOUS
<1>2. N \in Nat /\ DOMAIN tree = 1..N
  BY <1>1, WholeTree
<1> DEFINE G == {k \in 0..N : \A n \in 1..k : n \notin Lost => value[n] \in Linked}
<1>3. 0 \in G
  BY <1>2
<1>4. ASSUME NEW k \in 0..N, k \in G, k < N PROVE k + 1 \in G
  <2>1. k + 1 \in DOMAIN tree /\ k + 1 \in 0..N
    BY <1>2, <1>4
  <2>2. ASSUME k + 1 \notin Lost PROVE value[k + 1] \in Linked
    <3>1. CASE k + 1 = Root
      BY <3>1, LinkedLeads
    <3>2. CASE k + 1 # Root
      <4>1. PICK m \in DOMAIN tree : k + 1 \in Parts(m)
        BY <2>1, <3>2, WholeTree
      <4>2. k + 1 > m
        BY <4>1, WholeTree
      <4>3. m \in 1..k
        BY <1>2, <1>4, <4>2
      <4>4. m \notin Lost
        BY <2>2, <4>1, LostClosed
      <4>5. value[m] \in Linked
        BY <1>4, <4>3, <4>4
      <4> QED BY <2>2, <4>1, <4>4, <4>5, KidLinked
    <3> QED BY <3>1, <3>2
  <2>3. \A n \in 1..(k + 1) : n \in 1..k \/ n = k + 1
    BY <1>4
  <2> QED BY <1>4, <2>1, <2>2, <2>3
<1>5. N \in G
  <2> HIDE DEF G
  <2>1. 0..N \subseteq G
    BY <1>2, <1>3, <1>4, CountUp
  <2> QED BY <1>2, <2>1
<1> QED BY <1>2, <1>5

\* One node for each parse node that is kept.
LEMMA MadeForKept ==
  ASSUME NEW f, Whole(f)
  PROVE  /\ \A a \in MadeNodes : ast[a].of \in Kept /\ value[ast[a].of] = a
         /\ \A n \in Kept : value[n] \in MadeNodes /\ ast[value[n]].of = n
<1>1. ASSUME NEW a \in MadeNodes PROVE ast[a].of \in Kept /\ value[ast[a].of] = a
  <2>1. a \in Linked /\ ~IsPromoted(a) /\ a \in DOMAIN ast
    BY LinkedLeads DEF MadeNodes
  <2>2. IsProper(a)
    BY <2>1, WholeAst, WrappedOf
  <2> QED BY <2>1, <2>2, ProperOf, LinkedKept DEF Kept
<1>2. ASSUME NEW n \in Kept PROVE value[n] \in MadeNodes /\ ast[value[n]].of = n
  <2>1. n \in DOMAIN tree \ Lost /\ tree[n].kind # "For"
    BY DEF Kept
  <2>2. value[n] \in Linked
    BY <2>1, KeptLinked
  <2>3. value[n] \in DOMAIN ast /\ IsProper(value[n]) /\ ast[value[n]].of = n
    <3>1. f[n] = n
      BY <2>1, StandsType
    <3> QED BY <2>1, <3>1, WholeAst
  <2> QED BY <2>2, <2>3, ProperOf DEF MadeNodes
<1> QED BY <1>1, <1>2

\* Two finite sets have the same number of elements when each of them is the
\* image of the other.
LEMMA SameNumber ==
  ASSUME NEW S, NEW T, IsFiniteSet(S), IsFiniteSet(T), NEW g \in [S -> T], NEW h \in [T -> S],
         \A x \in S : h[g[x]] = x, \A y \in T : g[h[y]] = y
  PROVE  Cardinality(S) = Cardinality(T)
<1>1. Cardinality(S) \in Nat /\ Cardinality(T) \in Nat
  BY FS_CardinalityType
<1>2. ~(Cardinality(S) > Cardinality(T))
  <2>1. ASSUME Cardinality(T) < Cardinality(S) PROVE FALSE
    <3>1. PICK x, y \in S : x # y /\ g[x] = g[y]
      BY <2>1, FS_PigeonHole
    <3> QED BY <3>1
  <2> QED BY <1>1, <2>1
<1>3. ~(Cardinality(T) > Cardinality(S))
  <2>1. ASSUME Cardinality(S) < Cardinality(T) PROVE FALSE
    <3>1. PICK x, y \in T : x # y /\ h[x] = h[y]
      BY <2>1, FS_PigeonHole
    <3> QED BY <3>1
  <2> QED BY <1>1, <2>1
<1> QED BY <1>1, <1>2, <1>3

LEMMA MadeNumber ==
  ASSUME NEW f, Whole(f)
  PROVE  Cardinality(MadeNodes) = Cardinality(Kept)
<1>1. PICK S, T : S = MadeNodes /\ T = Kept
  OBVIOUS
<1>2. IsFiniteSet(S)
  <2>1. S \subseteq 1..Len(ast) /\ Len(ast) \in Nat
    BY <1>1, LinkedLeads, WholeAst DEF MadeNodes
  <2>2. IsFiniteSet(1..Len(ast))
    BY <2>1, FS_Interval
  <2> QED BY <2>1, <2>2, FS_Subset
<1>3. IsFiniteSet(T)
  <2>1. T \subseteq 1..Len(tree) /\ Len(tree) \in Nat
    BY <1>1, WholeTree DEF Kept
  <2>2. IsFiniteSet(1..Len(tree))
    BY <2>1, FS_Interval
  <2> QED BY <2>1, <2>2, FS_Subset
<1>4. PICK g, h : g = [a \in S |-> ast[a].of] /\ h = [n \in T |-> value[n]]
  OBVIOUS
<1>5. /\ \A a \in S : ast[a].of \in T /\ value[ast[a].of] = a
      /\ \A n \in T : value[n] \in S /\ ast[value[n]].of = n
  BY <1>1, MadeForKept
<1>6. g \in [S -> T] /\ h \in [T -> S] /\ (\A x \in S : h[g[x]] = x) /\ (\A y \in T : g[h[y]] = y)
  BY <1>4, <1>5
<1>7. Cardinality(S) = Cardinality(T)
  BY <1>2, <1>3, <1>6, SameNumber
<1> QED BY <1>1, <1>7

\* Every repeated field has been reported, and nothing else.
LEMMA DiagsComplete ==
  ASSUME NEW f, Whole(f)
  PROVE  diags = RepeatedValues
<1>1. DiagsOK(todo, DOMAIN value, diags) /\ DOMAIN value = DOMAIN tree
  BY DEF Whole, OnceInv
<1>2. \A x : x \in diags <=> \E n \in DOMAIN tree : \E k \in DOMAIN Kids(n) :
               tree[n].kind = "Object" /\ IsRepeated(n, k) /\ x = Kids(n)[k]
  BY <1>1 DEF DiagsOK
<1> QED BY <1>2, RepeatedOnes

\* NothingLost: each parse node has its value once, before that of its parent,
\* and the node made for the parent has the values of its children, but for the
\* headers of a loop and the repeated fields of an object literal.  So what is
\* not below one of these is led to from the root, and nothing else is; and
\* since a parse node is in one place, what was made for it is, too.
THEOREM NothingIsLost == PSpec => []NothingLost
<1>1. BuildInv /\ OnceInv /\ GrowInv /\ ShapeInv /\ CrashesExplained => NothingLost
  <2> SUFFICES ASSUME BuildInv, OnceInv, GrowInv, ShapeInv, CrashesExplained, build = "built"
               PROVE  /\ {ast[a].of : a \in MadeNodes} = Kept
                      /\ Cardinality(MadeNodes) = Cardinality(Kept)
                      /\ \A a, b \in Linked : a # b => Items(ast[a].parts) \intersect Items(ast[b].parts) = {}
                      /\ diags = RepeatedValues
    BY DEF NothingLost, MadeNodes, Kept, Lost
  <2>1. Whole(StandsFor)
    BY WholeBuilt
  <2>2. {ast[a].of : a \in MadeNodes} = Kept
    BY <2>1, MadeForKept
  <2>3. \A a, b \in Linked : a # b => Items(ast[a].parts) \intersect Items(ast[b].parts) = {}
    BY <2>1, OneHolder
  <2> QED BY <2>1, <2>2, <2>3, MadeNumber, DiagsComplete
<1> QED BY <1>1, BuildInvariance, OnceInvariance, GrowInvariance, ShapeInvariance, CrashesAreExplained, PTL

-----------------------------------------------------------------------------
(* The outline: one line for each node, among those of its parent.         *)

\* The children of a node are different nodes, whatever parts they are in.
IsDistinct(parts) ==
  \A p \in DOMAIN parts, q \in DOMAIN parts :
    \A i \in DOMAIN parts[p], j \in DOMAIN parts[q] : parts[p][i] = parts[q][j] => p = q /\ i = j

LEMMA DistinctParts ==
  ASSUME NEW f, Whole(f), NEW a \in DOMAIN ast
  PROVE  IsDistinct(ast[a].parts)
<1>1. PICK n, s, t : n = ast[a].of /\ s = ast[a].parts /\ t = tree[n].parts
  OBVIOUS
<1>2. CASE IsWrapped(a)
  <2>1. PICK x : s = <<<<x>>>>
    BY <1>1, <1>2 DEF IsWrapped, Around
  <2>2. DOMAIN s = {1} /\ DOMAIN s[1] = {1}
    <3>1. DOMAIN <<<<x>>>> = {1} /\ DOMAIN <<x>> = {1} /\ <<<<x>>>>[1] = <<x>>
      OBVIOUS
    <3> QED BY ONLY <2>1, <3>1
  <2> QED BY <1>1, <2>2 DEF IsDistinct
<1>3. ASSUME IsProper(a) PROVE n \in DOMAIN tree /\ tree[n].kind # "For" /\ ast[a].kind = tree[n].kind /\ tree \in Trees
  BY <1>1, <1>3, ProperOf, WholeTree DEF IsProper
<1>4. CASE IsProper(a) /\ tree[n].kind = "Object"
  <2>1. n \in DOMAIN tree /\ tree[n].kind # "For" /\ tree \in Trees
    BY <1>3, <1>4
  <2>2. PICK order : IsInOrder(s, n, order)
    BY <1>1, <1>3, <1>4 DEF IsProper
  <2>3. /\ DOMAIN s = {1} /\ DOMAIN s[1] = DOMAIN order
        /\ \A k \in DOMAIN order : order[k] \in DOMAIN Kids(n) /\ s[1][k] = value[Kids(n)[order[k]]]
        /\ \A i, j \in DOMAIN order : order[i] = order[j] => i = j
    BY <2>2 DEF IsInOrder
  <2>4. ASSUME NEW k \in DOMAIN Kids(n)
        PROVE  Kids(n)[k] \in Parts(n) /\ Kids(n)[k] # Null /\ ast[value[Kids(n)[k]]].of = f[Kids(n)[k]]
    <3>1. Kids(n)[k] \in Parts(n)
      BY <2>1, <2>4, KidsOf DEF Parts
    <3>2. Kids(n)[k] \in DOMAIN tree /\ Kids(n)[k] # Null
      BY <2>1, <3>1, WholeTree
    <3> QED BY <3>1, <3>2, WholeAst
  <2>5. ASSUME NEW i \in DOMAIN s[1], NEW j \in DOMAIN s[1], s[1][i] = s[1][j] PROVE i = j
    <3>1. PICK x, y : x = Kids(n)[order[i]] /\ y = Kids(n)[order[j]]
      OBVIOUS
    <3>2. order[i] \in DOMAIN Kids(n) /\ order[j] \in DOMAIN Kids(n) /\ value[x] = value[y]
      BY <2>3, <2>5, <3>1
    <3>3. x \in Parts(n) /\ y \in Parts(n) /\ f[x] = f[y] /\ x # Null
      BY <2>4, <3>1, <3>2
    <3>4. x = y
      BY <2>1, <3>3, OneStand
    <3>5. order[i] = order[j]
      BY <2>1, <3>1, <3>2, <3>3, <3>4, OneKid
    <3> QED BY <2>3, <2>5, <3>5
  <2> QED BY <1>1, <2>3, <2>5 DEF IsDistinct
<1>5. CASE IsProper(a) /\ tree[n].kind # "Object"
  <2>1. n \in DOMAIN tree /\ tree[n].kind # "For" /\ tree \in Trees
    BY <1>3, <1>5
  <2>2. /\ DOMAIN s = DOMAIN t
        /\ \A p \in DOMAIN s : /\ DOMAIN s[p] = DOMAIN t[p]
                               /\ \A k \in DOMAIN s[p] : ast[s[p][k]].of = f[t[p][k]]
    BY <1>1, <1>5, PartsMatch
  <2>3. ASSUME NEW p \in DOMAIN s, NEW q \in DOMAIN s, NEW i \in DOMAIN s[p], NEW j \in DOMAIN s[q],
               s[p][i] = s[q][j]
        PROVE  p = q /\ i = j
    <3>1. p \in DOMAIN t /\ q \in DOMAIN t /\ i \in DOMAIN t[p] /\ j \in DOMAIN t[q]
      BY <2>2
    <3>2. f[t[p][i]] = f[t[q][j]]
      <4>1. ast[s[p][i]].of = f[t[p][i]] /\ ast[s[q][j]].of = f[t[q][j]]
        BY <2>2
      <4> QED BY <2>3, <4>1
    <3>3. t[p][i] \in Parts(n) /\ t[q][j] \in Parts(n)
      BY <1>1, <3>1 DEF Parts, Items, ToSet
    <3>4. t[p][i] = t[q][j] /\ t[p][i] # Null
      BY <2>1, <3>2, <3>3, OneStand, WholeTree
    <3> QED BY <1>1, <2>1, <3>1, <3>4, OnePlace
  <2> QED BY <1>1, <2>3 DEF IsDistinct
<1> QED BY <1>2, <1>4, <1>5, WholeAst

LEMMA OneChild ==
  ASSUME NEW f, Whole(f), NEW a \in DOMAIN ast, NEW c, c = Children(a),
         NEW i \in DOMAIN c, NEW j \in DOMAIN c, c[i].node = c[j].node
  PROVE  i = j
<1>1. PICK parts, n, X : parts = ast[a].parts /\ n = Len(parts) /\ X = [op : {"open", "close"}, node : Nat, last : BOOLEAN]
  OBVIOUS
<1>2. parts \in Seq(Seq(Nat)) /\ IsDistinct(parts)
  <2>1. ast[a] \in AnyNode
    BY WholeAst
  <2> QED BY <1>1, <2>1, DistinctParts DEF AnyNode
<1>3. n \in Nat /\ DOMAIN parts = 1..n /\ \A p \in DOMAIN parts : parts[p] \in Seq(Nat)
  BY <1>1, <1>2
<1>4. PICK s : s = [p \in DOMAIN parts |-> [k \in DOMAIN parts[p] |-> Open(parts[p][k], LastChild(parts, p, k))]]
  OBVIOUS
<1>5. ASSUME NEW p \in DOMAIN parts
      PROVE  s[p] \in Seq(X) /\ DOMAIN s[p] = DOMAIN parts[p] /\ \A k \in DOMAIN parts[p] : s[p][k].node = parts[p][k]
  <2>1. PICK t : t = [k \in DOMAIN parts[p] |-> Open(parts[p][k], LastChild(parts, p, k))]
    OBVIOUS
  <2>2. ASSUME NEW k \in DOMAIN parts[p] PROVE t[k] \in X /\ t[k].node = parts[p][k]
    <3>1. parts[p][k] \in Nat
      BY <1>3
    <3>2. LastChild(parts, p, k) \in BOOLEAN
      BY DEF LastChild
    <3> QED BY <1>1, <2>1, <3>1, <3>2 DEF Open
  <2>3. t = [k \in DOMAIN parts[p] |-> t[k]]
    BY <2>1
  <2>4. t \in Seq(X) /\ DOMAIN t = DOMAIN parts[p]
    BY <1>3, <2>1, <2>2, <2>3, MapType
  <2> QED BY <1>4, <2>1, <2>2, <2>4
<1>6. s \in Seq(Seq(X)) /\ Len(s) = n
  <2>1. s = [p \in DOMAIN parts |-> s[p]]
    BY <1>4
  <2>2. PICK Y, Z : Y = Seq(Nat) /\ Z = Seq(X)
    OBVIOUS
  <2>3. parts \in Seq(Y) /\ \A p \in DOMAIN parts : s[p] \in Z
    BY <1>2, <1>5, <2>2
  <2>4. s \in Seq(Z) /\ Len(s) = Len(parts)
    BY <2>1, <2>3, MapType
  <2> QED BY <1>1, <2>2, <2>4
<1>7. s = <<>> \/ n # 0
  BY <1>6
<1>8. \E offset : IsOffset(s, n, offset)
  BY <1>3, <1>5, <1>6, <1>7, FlattenShape
<1>9. PICK offset : IsOffset(s, n, offset)
  BY <1>8
<1>10. c = FlattenSeq(s)
  BY <1>1, <1>4 DEF Children
<1>11. ASSUME NEW k \in DOMAIN c
       PROVE  \E p \in DOMAIN parts : \E q \in DOMAIN parts[p] : k = offset[p] + q /\ c[k].node = parts[p][q]
  <2>1. PICK p \in 1..n : \E q \in DOMAIN s[p] : k = offset[p] + q
    BY <1>9, <1>10, <1>11 DEF IsOffset
  <2>2. PICK q \in DOMAIN s[p] : k = offset[p] + q
    BY <2>1
  <2>3. p \in DOMAIN parts /\ q \in DOMAIN parts[p] /\ s[p][q].node = parts[p][q]
    BY <1>3, <1>5, <2>2
  <2>4. q \in Nat
    <3>1. parts[p] \in Seq(Nat)
      BY <1>3, <2>3
    <3> QED BY <2>3, <3>1
  <2>5. c[k] = s[p][q]
    BY <1>9, <1>10, <2>2, <2>4 DEF IsOffset
  <2> QED BY <2>2, <2>3, <2>5
<1>12. PICK p \in DOMAIN parts : \E q \in DOMAIN parts[p] : i = offset[p] + q /\ c[i].node = parts[p][q]
  BY <1>11
<1>13. PICK q \in DOMAIN parts[p] : i = offset[p] + q /\ c[i].node = parts[p][q]
  BY <1>12
<1>14. PICK t \in DOMAIN parts : \E u \in DOMAIN parts[t] : j = offset[t] + u /\ c[j].node = parts[t][u]
  BY <1>11
<1>15. PICK u \in DOMAIN parts[t] : j = offset[t] + u /\ c[j].node = parts[t][u]
  BY <1>14
<1>16. p = t /\ q = u
  BY <1>2, <1>13, <1>15 DEF IsDistinct
<1> QED BY <1>13, <1>15, <1>16

\* x is led to from the root: it is the root, or a child of a node that has a line.
IsFound(ls, x) ==
  /\ x \in Linked
  /\ x = value[Root] \/ \E i \in DOMAIN ls : x \in Items(ast[ls[i].node].parts)

\* Each node has a line or is waiting for one, only once and not both.
Seen(w, ls) ==
  /\ \A i, j \in DOMAIN ls : ls[i].node = ls[j].node => i = j
  /\ \A p, q \in DOMAIN w : w[p].op = "open" /\ w[q].op = "open" /\ w[p].node = w[q].node => p = q
  /\ \A i \in DOMAIN ls, q \in DOMAIN w : w[q].op = "open" => ls[i].node # w[q].node
  /\ \A i \in DOMAIN ls : IsFound(ls, ls[i].node)
  /\ \A q \in DOMAIN w : w[q].op = "open" => IsFound(ls, w[q].node)

SeenInv == print \in {"printing", "printed"} => Seen(work, lines)

\* No child of a node without a line has been found: it has no other parent.
LEMMA NotFound ==
  ASSUME NEW f, Whole(f), ProgramInv, NEW w, NEW ls, Seen(w, ls),
         NEW q \in DOMAIN w, w[q].op = "open", NEW a, a = w[q].node
  PROVE  /\ a \in Linked /\ a \in DOMAIN ast
         /\ \A x \in Items(ast[a].parts) : x \in Linked /\ x # a /\ ~IsFound(ls, x)
<1>1. IsFound(ls, a) /\ a \in Linked /\ a \in DOMAIN ast
  <2>1. IsFound(ls, a)
    BY DEF Seen
  <2> QED BY <2>1, LinkedLeads DEF IsFound
<1>2. ASSUME NEW x \in Items(ast[a].parts) PROVE x \in Linked /\ x \in DOMAIN ast /\ x < a
  BY <1>1, LinkedLeads, WholeAst
<1>3. value[Root] = Len(ast) /\ Len(ast) \in Nat /\ DOMAIN ast = 1..Len(ast)
  BY WholeAst DEF ProgramInv, Whole
<1>4. ASSUME NEW x \in Items(ast[a].parts), IsFound(ls, x) PROVE FALSE
  <2>1. x # value[Root]
    BY <1>1, <1>2, <1>3
  <2>2. PICK i \in DOMAIN ls : x \in Items(ast[ls[i].node].parts)
    BY <1>4, <2>1 DEF IsFound
  <2>3. PICK b : b = ls[i].node
    OBVIOUS
  <2>4. b \in Linked /\ b # a
    BY <2>3 DEF Seen, IsFound
  <2> QED BY <1>1, <2>2, <2>3, <2>4, OneHolder
<1> QED BY <1>1, <1>2, <1>3, <1>4

LEMMA OpenedSeen ==
  ASSUME NEW f, Whole(f), ProgramInv, NEW w, NEW ls \in Seq(Line), Seen(w, ls),
         DOMAIN w \subseteq Nat \ {0}, 1 \in DOMAIN w, w[1].op = "open", NEW a, a = w[1].node,
         NEW line \in Line, line.node = a, NEW m, m = Append(ls, line),
         NEW g, NEW u, NEW h, NEW d, NEW n, IsOpened(w, g, u, h, a, d, n)
  PROVE  Seen(u, m)
<1>1. /\ a \in Linked /\ a \in DOMAIN ast
      /\ \A x \in Items(ast[a].parts) : x \in Linked /\ x # a /\ ~IsFound(ls, x)
  BY NotFound
<1>2. /\ n \in Nat
      /\ \A i \in 1..n : i \in DOMAIN u /\ u[i] = Children(a)[i] /\ u[i].op = "open" /\ u[i].node \in Items(ast[a].parts)
      /\ DOMAIN Children(a) = 1..n
      /\ u[n + 1].op = "close"
      /\ \A i \in DOMAIN u : i \in 1..n \/ i = n + 1 \/ \E j \in DOMAIN w : j > 1 /\ i = n + j
      /\ \A j \in DOMAIN w : j > 1 => u[n + j] = w[j]
  BY ONLY IsOpened(w, g, u, h, a, d, n) DEF IsOpened, Close
<1>3. PICK N : N = Len(ls)
  OBVIOUS
<1>4. /\ N \in Nat /\ DOMAIN ls = 1..N /\ DOMAIN m = 1..(N + 1)
      /\ \A i \in 1..N : m[i] = ls[i]
      /\ m[N + 1] = line
  BY <1>3
<1>5. ASSUME NEW x, IsFound(ls, x) PROVE IsFound(m, x)
  <2>1. CASE x = value[Root]
    BY <1>5, <2>1 DEF IsFound
  <2>2. CASE x # value[Root]
    <3>1. PICK i \in 1..N : x \in Items(ast[ls[i].node].parts)
      BY <1>4, <1>5, <2>2 DEF IsFound
    <3>2. i \in DOMAIN m /\ x \in Items(ast[m[i].node].parts)
      BY <1>4, <3>1
    <3> QED BY <1>5, <3>2 DEF IsFound
  <2> QED BY <2>1, <2>2
<1>6. ASSUME NEW x \in Items(ast[a].parts) PROVE IsFound(m, x)
  <2>1. N + 1 \in DOMAIN m /\ x \in Items(ast[m[N + 1].node].parts)
    BY <1>4
  <2> QED BY <1>1, <2>1 DEF IsFound
<1>7. ASSUME NEW i \in DOMAIN u, u[i].op = "open"
      PROVE  \/ i \in 1..n /\ u[i].node \in Items(ast[a].parts)
             \/ \E j \in DOMAIN w : j # 1 /\ i = n + j /\ u[i] = w[j] /\ w[j].op = "open" /\ IsFound(ls, w[j].node)
  <2>1. CASE i \in 1..n
    BY <1>2, <2>1
  <2>2. CASE i \notin 1..n
    <3>1. PICK j \in DOMAIN w : j > 1 /\ i = n + j
      BY <1>2, <1>7, <2>2
    <3>2. u[i] = w[j] /\ w[j].op = "open" /\ j # 1
      BY <1>2, <1>7, <3>1
    <3> QED BY <3>1, <3>2 DEF Seen
  <2> QED BY <2>1, <2>2
<1>8. ASSUME NEW i \in DOMAIN m PROVE (i \in 1..N /\ m[i] = ls[i] /\ IsFound(ls, m[i].node)) \/ (i = N + 1 /\ m[i].node = a)
  BY <1>4 DEF Seen
<1>9. ASSUME NEW i \in DOMAIN m, NEW j \in DOMAIN m, m[i].node = m[j].node PROVE i = j
  <2>1. ASSUME NEW k \in 1..N PROVE ls[k].node # a
    BY <1>4 DEF Seen
  <2> QED BY <1>4, <1>8, <1>9, <2>1 DEF Seen
<1>10. ASSUME NEW p \in DOMAIN u, NEW q \in DOMAIN u, u[p].op = "open", u[q].op = "open", u[p].node = u[q].node
       PROVE  p = q
  <2>1. CASE p \in 1..n /\ q \in 1..n
    <3>1. PICK c : c = Children(a)
      OBVIOUS
    <3>2. p \in DOMAIN c /\ q \in DOMAIN c /\ c[p].node = c[q].node
      BY <1>2, <1>10, <2>1, <3>1
    <3> QED BY <1>1, <3>1, <3>2, OneChild
  <2>2. CASE p \in 1..n /\ q \notin 1..n
    BY <1>1, <1>2, <1>7, <1>10, <2>2
  <2>3. CASE p \notin 1..n /\ q \in 1..n
    BY <1>1, <1>2, <1>7, <1>10, <2>3
  <2>4. CASE p \notin 1..n /\ q \notin 1..n
    BY <1>7, <1>10, <2>4 DEF Seen
  <2> QED BY <2>1, <2>2, <2>3, <2>4
<1>11. ASSUME NEW i \in DOMAIN m, NEW q \in DOMAIN u, u[q].op = "open", m[i].node = u[q].node
       PROVE  FALSE
  <2>1. CASE u[q].node \in Items(ast[a].parts)
    BY <1>1, <1>8, <1>11, <2>1
  <2>2. CASE u[q].node \notin Items(ast[a].parts)
    <3>1. PICK j \in DOMAIN w : j # 1 /\ u[q] = w[j] /\ w[j].op = "open"
      BY <1>7, <1>11, <2>2
    <3>2. w[j].node # a
      BY <3>1 DEF Seen
    <3>3. i \in DOMAIN ls /\ ls[i].node = w[j].node
      BY <1>4, <1>8, <1>11, <3>1, <3>2
    <3> QED BY <3>1, <3>3 DEF Seen
  <2> QED BY <2>1, <2>2
<1>12. IsFound(ls, a)
  BY DEF Seen
<1>13. \A i \in DOMAIN m : IsFound(m, m[i].node)
  BY <1>5, <1>8, <1>12
<1>14. \A q \in DOMAIN u : u[q].op = "open" => IsFound(m, u[q].node)
  BY <1>5, <1>6, <1>7
<1> QED BY <1>9, <1>10, <1>11, <1>13, <1>14 DEF Seen

LEMMA SeenStays ==
  ASSUME value' = value, ast' = ast
  PROVE  \A w, ls : Seen(w, ls)' <=> Seen(w, ls)
<1>1. Linked' = Linked
  BY DEF Linked
<1>2. \A ls, x : IsFound(ls, x)' <=> IsFound(ls, x)
  BY <1>1 DEF IsFound
<1> QED BY <1>2 DEF Seen

LEMMA SeenStart ==
  ASSUME BuildInv, PrintInv, DrawInv, NEW f, Whole(f), StartPrint
  PROVE  SeenInv'
<1>1. /\ print = "waiting" /\ work' = <<Open(value[Root], FALSE)>> /\ lines' = lines
      /\ value' = value /\ ast' = ast
  BY DEF StartPrint, bvars
<1>2. lines = <<>>
  BY <1>1 DEF DrawInv
<1>3. PICK w, ls, x : w = work' /\ ls = <<>> /\ x = Open(value[Root], FALSE)
  OBVIOUS
<1>4. DOMAIN ls = {} /\ DOMAIN w = {1} /\ w[1].node = value[Root]
  <2>1. DOMAIN w = {1} /\ w[1] = x /\ DOMAIN ls = {}
    BY <1>1, <1>3
  <2> QED BY <1>3, <2>1 DEF Open
<1>5. IsFound(ls, value[Root])
  BY LinkedLeads DEF IsFound
<1>6. Seen(w, ls)
  BY <1>4, <1>5 DEF Seen
<1>7. Seen(w, ls)'
  BY <1>1, <1>6, SeenStays
<1> QED BY <1>1, <1>2, <1>3, <1>7 DEF SeenInv

LEMMA SeenNode ==
  ASSUME BuildInv, ProgramInv, PrintInv, DrawInv, BarsInv, SeenInv, NEW f, Whole(f), PrintNode
  PROVE  SeenInv'
<1> SUFFICES ASSUME print' # "asserted" PROVE SeenInv'
  BY DEF SeenInv
<1>1. /\ print = "printing" /\ work # <<>> /\ Head(work).op = "open" /\ value' = value /\ ast' = ast
  BY DEF PrintNode, AtWork, bvars
<1>2. /\ work \in Seq(WorkItem) /\ depth \in Nat /\ build = "built" /\ lines \in Seq(Line)
  BY <1>1 DEF PrintInv, DrawInv
<1>3. PICK w, ls, dep, a, d :
        w = work /\ ls = lines /\ dep = depth /\ a = Head(work).node /\ d = Entered
  OBVIOUS
<1>4. PICK g : Walk(w, ls, dep, g)
  BY <1>1, <1>3 DEF BarsInv
<1>5. /\ a \in DOMAIN ast /\ d \in Nat
      /\ d = (IF ast[a].kind = "Program" THEN dep ELSE dep + 1)
  <2>1. a = Head(work).node /\ d = Entered /\ dep = depth
    BY <1>3
  <2>2. a \in DOMAIN ast /\ d \in Nat /\ d = (IF ast[a].kind = "Program" THEN depth ELSE depth + 1)
    BY ONLY BuildInv, PrintInv, PrintNode, print' # "asserted", <2>1, NodePrinted
  <2> QED BY ONLY <2>1, <2>2
<1>6. PICK last \in BOOLEAN, line \in Line :
              /\ IsLine(line, a, d, last, depthFlag)
              /\ lines' = Append(lines, line)
              /\ work' = Children(a) \o <<Close(a)>> \o Tail(work)
  <2>1. a = Head(work).node /\ d = Entered
    BY <1>3
  <2> QED BY ONLY BuildInv, PrintInv, PrintNode, print' # "asserted", <2>1, NodePrinted
<1>7. PICK u, m : u = work' /\ m = lines'
  OBVIOUS
<1>8. /\ w \in Seq(WorkItem) /\ w # <<>> /\ Head(w).op = "open" /\ ls \in Seq(Line)
      /\ a = Head(w).node /\ line.node = a /\ line.depth = d /\ m = Append(ls, line)
      /\ u = Children(a) \o <<Close(a)>> \o Tail(w)
  BY <1>1, <1>2, <1>3, <1>6, <1>7 DEF IsLine
<1>9. \E h, n : Walk(u, m, d, h) /\ IsOpened(w, g, u, h, a, d, n)
  BY <1>2, <1>4, <1>5, <1>8, Opening
<1>10. PICK h, n : IsOpened(w, g, u, h, a, d, n)
  BY <1>9
<1>11. 1 \in DOMAIN w /\ Head(w) = w[1] /\ DOMAIN w \subseteq Nat \ {0}
  BY <1>8
<1>12. Seen(w, ls)
  BY <1>1, <1>3 DEF SeenInv
<1>13. Seen(u, m)
  <2>1. /\ Whole(f) /\ ProgramInv /\ ls \in Seq(Line) /\ Seen(w, ls)
        /\ DOMAIN w \subseteq Nat \ {0} /\ 1 \in DOMAIN w /\ w[1].op = "open" /\ a = w[1].node
        /\ line \in Line /\ line.node = a /\ m = Append(ls, line) /\ IsOpened(w, g, u, h, a, d, n)
    BY <1>8, <1>10, <1>11, <1>12
  <2> QED BY ONLY <2>1, OpenedSeen
<1>14. Seen(u, m)'
  BY <1>1, <1>13, SeenStays
<1> QED BY <1>7, <1>14 DEF SeenInv

LEMMA SeenEnd ==
  ASSUME PrintInv, SeenInv, CloseNode
  PROVE  SeenInv'
<1>1. /\ print = "printing" /\ work \in Seq(WorkItem) /\ work # <<>> /\ value' = value /\ ast' = ast
      /\ lines' = lines
  BY DEF CloseNode, AtWork, bvars, PrintInv
<1>2. PICK w, ls, u : w = work /\ ls = lines /\ u = work'
  OBVIOUS
<1>3. Seen(w, ls)
  BY <1>1, <1>2 DEF SeenInv
<1>4. CASE depth \in Flag
  <2>1. u = Tail(w) /\ w \in Seq(WorkItem) /\ w # <<>>
    BY <1>1, <1>2, <1>4 DEF CloseNode
  <2>2. \A i \in DOMAIN u : i \in Nat /\ i + 1 \in DOMAIN w /\ u[i] = w[i + 1]
    BY <2>1
  <2>3. Seen(u, ls)
    <3>1. \A p, q \in DOMAIN u : u[p].op = "open" /\ u[q].op = "open" /\ u[p].node = u[q].node => p = q
      <4> SUFFICES ASSUME NEW p \in DOMAIN u, NEW q \in DOMAIN u,
                          u[p].op = "open", u[q].op = "open", u[p].node = u[q].node
                   PROVE  p = q
        OBVIOUS
      <4>1. p + 1 = q + 1
        BY <1>3, <2>2 DEF Seen
      <4> QED BY <2>2, <4>1
    <3> QED BY <1>3, <2>2, <3>1 DEF Seen
  <2>4. Seen(u, ls)'
    BY <1>1, <2>3, SeenStays
  <2> QED BY <1>1, <1>2, <2>4 DEF SeenInv
<1>5. CASE depth \notin Flag
  BY <1>5 DEF CloseNode, SeenInv
<1> QED BY <1>4, <1>5

LEMMA SeenInvariance == PSpec => []SeenInv
<1>1. PInit => SeenInv
  BY DEF PInit, SeenInv
<1>2. /\ BuildInv /\ ProgramInv /\ PrintInv /\ DrawInv /\ BarsInv /\ OnceInv /\ GrowInv /\ ShapeInv
      /\ CrashesExplained /\ SeenInv /\ [PNext]_allvars
      => SeenInv'
  <2> SUFFICES ASSUME BuildInv, ProgramInv, PrintInv, DrawInv, BarsInv, OnceInv, GrowInv, ShapeInv,
                      CrashesExplained, SeenInv, [PNext]_allvars
               PROVE  SeenInv'
    OBVIOUS
  <2>1. ASSUME Build PROVE SeenInv'
    <3>1. build = "visiting" /\ UNCHANGED pvars
      BY <2>1 DEF Build, BNext, VisitNode, VisitNull, KeepField, DropField, MakeNode, MakeFor, MakeIf,
                  MakeObject, At
    <3>2. print' = "waiting"
      BY <3>1 DEF PrintInv, pvars
    <3> QED BY <3>2 DEF SeenInv
  <2>2. ASSUME UNCHANGED allvars PROVE SeenInv'
    <3>1. print' = print /\ work' = work /\ lines' = lines /\ value' = value /\ ast' = ast
      BY <2>2 DEF allvars, bvars, pvars
    <3>2. PICK w, ls : w = work /\ ls = lines
      OBVIOUS
    <3>3. Seen(w, ls)' <=> Seen(w, ls)
      BY <3>1, SeenStays
    <3> QED BY <3>1, <3>2, <3>3 DEF SeenInv
  <2>3. ASSUME StartPrint \/ PrintNode \/ CloseNode PROVE SeenInv'
    <3>1. build = "built"
      BY <2>3 DEF StartPrint, PrintNode, CloseNode, AtWork, PrintInv
    <3>2. PICK f : Whole(f)
      BY <3>1, WholeBuilt
    <3> QED BY <2>3, <3>2, SeenStart, SeenNode, SeenEnd
  <2> QED BY <2>1, <2>2, <2>3 DEF PNext
<1> QED BY <1>1, <1>2, BuildInvariance, ProgramInvariance, PrintInvariance, DrawInvariance, BarsInvariance,
           OnceInvariance, GrowInvariance, ShapeInvariance, CrashesAreExplained, PTL DEF PSpec

\* OutlineComplete: the walk opens no node twice, since a node is the child of one
\* other, and once in it; it opens each child of what it opens, and nothing else,
\* so that the lines are for what the root leads to.  Until a child has its line
\* all lines below that of its parent are deeper: the last one waiting at a depth
\* is opened before anything above it goes on.
THEOREM OutlineIsComplete == PSpec => []OutlineComplete
<1>1. /\ BuildInv /\ OnceInv /\ GrowInv /\ ShapeInv /\ CrashesExplained
      /\ PrintInv /\ DrawInv /\ BarsInv /\ SeenInv
      => OutlineComplete
  <2> SUFFICES ASSUME BuildInv, OnceInv, GrowInv, ShapeInv, CrashesExplained, PrintInv, DrawInv, BarsInv,
                      SeenInv, print = "printed"
               PROVE  OutlineComplete
    BY DEF OutlineComplete
  <2>1. work = <<>> /\ lines \in Seq(Line) /\ build = "built"
    BY DEF DrawInv, PrintInv
  <2>2. PICK f : Whole(f)
    BY <2>1, WholeBuilt
  <2>3. PICK g : Walk(work, lines, depth, g) /\ Nested(work, lines, g)
    BY DEF BarsInv
  <2>4. Seen(work, lines)
    BY DEF SeenInv
  <2>5. DOMAIN work = {}
    BY <2>1
  <2>6. ASSUME NEW i \in DOMAIN lines
        PROVE  /\ lines[i].node \in Levels[lines[i].depth]
               /\ \A x \in Items(ast[lines[i].node].parts) : LineBelow(lines, i, x)
    BY <2>3, <2>5 DEF Nested, ItemBelow
  <2>7. \A i, j \in DOMAIN lines : lines[i].node = lines[j].node => i = j
    BY <2>4 DEF Seen
  <2>8. {lines[i].node : i \in DOMAIN lines} = Linked
    <3>1. PICK X : X = {lines[i].node : i \in DOMAIN lines}
      OBVIOUS
    <3>2. X \subseteq Linked
      BY <2>4, <3>1 DEF Seen, IsFound
    <3>3. value[Root] \in X
      BY <2>3, <2>5, <3>1 DEF Walk, Covered, HasLine, HasItem
    <3>4. ASSUME NEW a \in X \intersect DOMAIN ast, NEW x \in Items(ast[a].parts) PROVE x \in X
      <4>1. PICK i \in DOMAIN lines : lines[i].node = a
        BY <3>1, <3>4
      <4>2. LineBelow(lines, i, x)
        BY <2>6, <3>4, <4>1
      <4>3. PICK j \in DOMAIN lines : lines[j].node = x
        BY <4>2 DEF LineBelow
      <4> QED BY <3>1, <4>3
    <3>5. Linked \subseteq X
      BY <2>2, <3>3, <3>4, LinkedLeads
    <3> QED BY <3>1, <3>2, <3>5
  <2>9. ASSUME NEW i \in DOMAIN lines, NEW j \in DOMAIN lines,
               lines[j].node \in Items(ast[lines[i].node].parts)
        PROVE  j > i /\ \A k \in (i + 1)..j : lines[k].depth > lines[i].depth
    <3>1. PICK t \in DOMAIN lines :
                 /\ lines[t].node = lines[j].node /\ t > i
                 /\ \A k \in (i + 1)..t : lines[k].depth > lines[i].depth
      BY <2>6, <2>9 DEF LineBelow
    <3>2. t = j
      BY <2>7, <3>1
    <3> QED BY <3>1, <3>2
  <2> QED BY <2>6, <2>7, <2>8, <2>9 DEF OutlineComplete
<1> QED BY <1>1, BuildInvariance, OnceInvariance, GrowInvariance, ShapeInvariance, CrashesAreExplained,
           PrintInvariance, DrawInvariance, BarsInvariance, SeenInvariance, PTL
=============================================================================
