---------------------------- MODULE RuntimeProofs ----------------------------
(***************************************************************************)
(* Proofs about the allocator of the runtime, for every set of sizes, any  *)
(* memory and any alignment of two words or more.                          *)
(***************************************************************************)
EXTENDS Runtime, TLAPS

-----------------------------------------------------------------------------
(* The inductive invariant.                                                *)

\* The words of the block that an object lies in.
Extent(p) == Span(BaseOf(p), Reserved(objects[p]))

\* An object lies one word into an aligned block, that is as long as its size
\* requires.
ObjectsInBlocks ==
  \A p \in DOMAIN objects :
    /\ p \in Nat /\ p >= 1
    /\ objects[p] \in Size
    /\ BaseOf(p) \in Address /\ p \in Address
    /\ BaseOf(p) % Align = 0
    /\ Extent(p) \subseteq Address
    /\ BaseOf(p) \in DOMAIN blocks
    /\ blocks[BaseOf(p)] = Reserved(objects[p])

BlocksHoldObjects ==
  \A b \in DOMAIN blocks : \E p \in DOMAIN objects : b = BaseOf(p)

ObjectsApart ==
  \A p, q \in DOMAIN objects : p # q => Extent(p) \intersect Extent(q) = {}

\* What the program has stored lies in the objects that it holds.
StoredInObjects ==
  \A a \in stored : \E p \in DOMAIN objects : a \in Span(p, objects[p])

MemoryType ==
  /\ memory \in [Address -> {SizeWord(n) : n \in Size} \union {DataWord(p) : p \in Address}
                              \union {StateWord, FreeWord}]
  /\ white \subseteq Address
  /\ phase \in {"running", "panic"}

Layout == ObjectsInBlocks /\ BlocksHoldObjects /\ ObjectsApart /\ StoredInObjects

IInv == MemoryType /\ Layout /\ SizesIntact /\ DataIntact /\ LiveAreWhite

-----------------------------------------------------------------------------
(* Arithmetic of blocks.                                                   *)

\* Two multiples of the alignment are not neighbours.
LEMMA NoNeighbours ==
  ASSUME NEW b \in Nat, b % Align = 0, (b + 1) % Align = 0
  PROVE  FALSE
BY RuntimeAssumption

\* An object lies in its block, behind the word of its size.
LEMMA SpanInExtent ==
  ASSUME ObjectsInBlocks, NEW p \in DOMAIN objects
  PROVE  /\ BaseOf(p) \in Extent(p)
         /\ Span(p, objects[p]) \subseteq Extent(p)
         /\ BaseOf(p) \notin Span(p, objects[p])
<1>1. p \in Nat /\ p >= 1 /\ objects[p] \in Nat
  BY RuntimeAssumption DEF ObjectsInBlocks
<1> QED BY <1>1 DEF Extent, Span, BaseOf, Reserved

\* No two objects share their block.
LEMMA BasesApart ==
  ASSUME ObjectsInBlocks, ObjectsApart,
         NEW p \in DOMAIN objects, NEW q \in DOMAIN objects, p # q
  PROVE  /\ BaseOf(p) # BaseOf(q)
         /\ BaseOf(p) \notin Span(q, objects[q])
BY SpanInExtent DEF ObjectsApart

\* A new block, and the two words of metadata at its beginning, lie outside of
\* the blocks of all objects: where the object is empty, the second one lies
\* behind the new block, but no block begins there.
LEMMA FreeIsApart ==
  ASSUME Layout, NEW n \in Size, NEW base \in Free(Reserved(n))
  PROVE  /\ base \in Address /\ base \in Nat /\ base + 1 \in Address
         /\ base % Align = 0
         /\ Span(base, Reserved(n)) \subseteq Address
         /\ \A p \in DOMAIN objects :
              /\ Span(base, Reserved(n)) \intersect Extent(p) = {}
              /\ base \notin Extent(p) /\ base + 1 \notin Extent(p)
<1>1. n \in Nat /\ Words \in Nat
  BY RuntimeAssumption
<1>2. /\ base \in Address /\ base + 1 \in Address /\ base % Align = 0
      /\ Span(base, Reserved(n)) \subseteq Address
  BY DEF Free
<1>3. base \in Nat
  BY <1>1, <1>2 DEF Address
<1>4. ASSUME NEW p \in DOMAIN objects
      PROVE  /\ Span(base, Reserved(n)) \intersect Extent(p) = {}
             /\ base \notin Extent(p) /\ base + 1 \notin Extent(p)
  <2>1. Span(base, Reserved(n)) \intersect Extent(p) = {}
    BY DEF Free, Layout, ObjectsInBlocks, Extent
  <2>2. base \in Span(base, Reserved(n))
    BY <1>1, <1>3 DEF Span, Reserved
  <2>3. base \notin Extent(p)
    BY <2>1, <2>2
  <2>4. ASSUME base + 1 \in Extent(p)
        PROVE  FALSE
    <3>1. p \in Nat /\ p >= 1 /\ objects[p] \in Nat /\ BaseOf(p) % Align = 0
      BY RuntimeAssumption DEF Layout, ObjectsInBlocks
    <3>2. base + 1 = BaseOf(p)
      BY <1>3, <2>3, <2>4, <3>1 DEF Extent, Span, BaseOf, Reserved
    <3> QED BY <1>2, <1>3, <3>1, <3>2, NoNeighbours
  <2> QED BY <2>1, <2>3, <2>4
<1> QED BY <1>2, <1>3, <1>4

-----------------------------------------------------------------------------
(* The steps.                                                              *)

LEMMA InitHolds ==
  ASSUME Init
  PROVE  IInv
BY DEF Init, IInv, MemoryType, Layout, ObjectsInBlocks, BlocksHoldObjects, ObjectsApart,
       StoredInObjects, SizesIntact, DataIntact, LiveAreWhite

\* What an allocation adds to the objects: one in a block of its own.
LEMMA AllocateAdds ==
  ASSUME Layout, NEW n \in Size, NEW base \in Free(Reserved(n)),
         objects' = With(objects, ObjectAt(base), n)
  PROVE  LET new == ObjectAt(base)
         IN  /\ new \in Nat /\ new >= 1 /\ new = base + 1 /\ BaseOf(new) = base
             /\ new \notin DOMAIN objects
             /\ DOMAIN objects' = DOMAIN objects \union {new}
             /\ objects'[new] = n
             /\ \A p \in DOMAIN objects : objects'[p] = objects[p] /\ BaseOf(p) # base
<1> DEFINE new == ObjectAt(base)
<1>1. base \in Nat
  BY FreeIsApart
<1>2. new \in Nat /\ new >= 1 /\ new = base + 1 /\ BaseOf(new) = base
  BY <1>1 DEF ObjectAt, BaseOf
<1>3. \A p \in DOMAIN objects : BaseOf(p) # base
  BY FreeIsApart, SpanInExtent DEF Layout
<1>4. new \notin DOMAIN objects
  BY <1>2, <1>3
<1>5. /\ DOMAIN objects' = DOMAIN objects \union {new}
      /\ objects'[new] = n
      /\ \A p \in DOMAIN objects : objects'[p] = objects[p]
  BY <1>4 DEF With
<1> QED BY <1>2, <1>3, <1>4, <1>5

LEMMA AllocateHolds ==
  ASSUME IInv, Allocate
  PROVE  IInv'
<1>0. PICK n \in Size :
        \E b \in Free(Reserved(n)) :
          /\ blocks' = With(blocks, b, Reserved(n))
          /\ memory' = [memory EXCEPT ![b] = SizeWord(n), ![b + 1] = StateWord]
          /\ white' = white \union {Tracked(b)}
          /\ objects' = With(objects, ObjectAt(b), n)
  BY DEF Allocate
<1>1. PICK base \in Free(Reserved(n)) :
        /\ blocks' = With(blocks, base, Reserved(n))
        /\ memory' = [memory EXCEPT ![base] = SizeWord(n), ![base + 1] = StateWord]
        /\ white' = white \union {Tracked(base)}
        /\ objects' = With(objects, ObjectAt(base), n)
  BY <1>0
<1>2. stored' = stored /\ phase' = phase
  BY DEF Allocate
<1>3. MemoryType /\ Layout /\ SizesIntact /\ DataIntact /\ LiveAreWhite
  BY DEF IInv
<1>4. /\ base \in Address /\ base \in Nat /\ base + 1 \in Address
      /\ base % Align = 0
      /\ Span(base, Reserved(n)) \subseteq Address
      /\ \A p \in DOMAIN objects :
           /\ Span(base, Reserved(n)) \intersect Extent(p) = {}
           /\ base \notin Extent(p) /\ base + 1 \notin Extent(p)
  BY <1>3, FreeIsApart
<1> DEFINE new == ObjectAt(base)
<1>5. /\ new \in Nat /\ new >= 1 /\ new = base + 1 /\ BaseOf(new) = base
      /\ new \notin DOMAIN objects
      /\ DOMAIN objects' = DOMAIN objects \union {new}
      /\ objects'[new] = n
      /\ \A p \in DOMAIN objects : objects'[p] = objects[p] /\ BaseOf(p) # base
  BY <1>1, <1>3, AllocateAdds
<1> HIDE DEF new
<1>6. /\ DOMAIN blocks' = DOMAIN blocks \union {base}
      /\ blocks'[base] = Reserved(n)
      /\ \A b \in DOMAIN blocks : b # base => blocks'[b] = blocks[b]
  BY <1>1 DEF With
<1>7. /\ memory' \in [Address -> {SizeWord(m) : m \in Size} \union {DataWord(p) : p \in Address}
                                   \union {StateWord, FreeWord}]
      /\ memory'[base] = SizeWord(n)
      /\ \A a \in Address : a # base /\ a # base + 1 => memory'[a] = memory[a]
  <2>1. base # base + 1
    BY <1>4
  <2> QED BY <1>1, <1>3, <1>4, <2>1 DEF MemoryType
<1>8. /\ Extent(new)' = Span(base, Reserved(n))
      /\ \A p \in DOMAIN objects : Extent(p)' = Extent(p)
  BY <1>5 DEF Extent
<1>9. MemoryType'
  BY <1>1, <1>2, <1>3, <1>4, <1>7 DEF MemoryType, Tracked
<1>10. Layout'
  <2>1. ObjectsInBlocks'
    <3>1. ASSUME NEW p \in DOMAIN objects
          PROVE  /\ p \in Nat /\ p >= 1 /\ objects'[p] \in Size
                 /\ BaseOf(p) \in Address /\ p \in Address
                 /\ BaseOf(p) % Align = 0
                 /\ Extent(p)' \subseteq Address
                 /\ BaseOf(p) \in DOMAIN blocks'
                 /\ blocks'[BaseOf(p)] = Reserved(objects'[p])
      BY <1>3, <1>5, <1>6, <1>8 DEF Layout, ObjectsInBlocks
    <3> QED BY <1>4, <1>5, <1>6, <1>8, <3>1 DEF ObjectsInBlocks
  <2>2. BlocksHoldObjects'
    BY <1>3, <1>5, <1>6 DEF Layout, BlocksHoldObjects
  <2>3. ObjectsApart'
    BY <1>3, <1>4, <1>5, <1>8 DEF Layout, ObjectsApart
  <2>4. StoredInObjects'
    BY <1>2, <1>3, <1>5 DEF Layout, StoredInObjects
  <2> QED BY <2>1, <2>2, <2>3, <2>4 DEF Layout
<1>11. SizesIntact'
  <2>1. ASSUME NEW p \in DOMAIN objects
        PROVE  BaseOf(p) \in Address /\ memory'[BaseOf(p)] = SizeWord(objects'[p])
    <3>1. BaseOf(p) \in Extent(p)
      BY <1>3, SpanInExtent DEF Layout
    <3>2. BaseOf(p) # base /\ BaseOf(p) # base + 1
      BY <1>4, <3>1
    <3> QED BY <1>3, <1>5, <1>7, <3>2 DEF SizesIntact
  <2> QED BY <1>4, <1>5, <1>7, <2>1 DEF SizesIntact
<1>12. DataIntact'
  <2> SUFFICES ASSUME NEW p \in DOMAIN objects', NEW a \in Span(p, objects'[p]), a \in stored
               PROVE  a \in Address /\ memory'[a] = DataWord(p)
    BY <1>2 DEF DataIntact
  <2>1. CASE p \in DOMAIN objects
    <3>1. a \in Span(p, objects[p]) /\ a \in Extent(p)
      BY <1>3, <1>5, <2>1, SpanInExtent DEF Layout
    <3>2. a # base /\ a # base + 1
      BY <1>4, <2>1, <3>1
    <3> QED BY <1>3, <1>7, <2>1, <3>1, <3>2 DEF DataIntact
  <2>2. CASE p = new
    <3>1. PICK q \in DOMAIN objects : a \in Span(q, objects[q])
      BY <1>3 DEF Layout, StoredInObjects
    <3>2. a \in Extent(q)
      BY <1>3, <3>1, SpanInExtent DEF Layout
    <3>3. a \in Span(base, Reserved(n))
      <4>1. n \in Nat /\ a \in Span(base + 1, n)
        BY <1>5, <2>2, RuntimeAssumption
      <4> QED BY <1>4, <4>1 DEF Span, Reserved
    <3> QED BY <1>4, <3>2, <3>3
  <2> QED BY <1>5, <2>1, <2>2
<1>13. LiveAreWhite'
  BY <1>1, <1>3, <1>5 DEF LiveAreWhite, Tracked
<1> QED BY <1>9, <1>10, <1>11, <1>12, <1>13 DEF IInv

\* A store in an object changes no metadata that lies before an object, and
\* nothing in any other object.
LEMMA StoreHolds ==
  ASSUME IInv, Store
  PROVE  IInv'
<1>0. PICK p \in DOMAIN objects :
        \E b \in Span(p, objects[p]) :
          /\ memory' = [memory EXCEPT ![b] = DataWord(p)]
          /\ stored' = stored \union {b}
  BY DEF Store
<1>1. PICK a \in Span(p, objects[p]) :
        /\ memory' = [memory EXCEPT ![a] = DataWord(p)]
        /\ stored' = stored \union {a}
  BY <1>0
<1>2. blocks' = blocks /\ white' = white /\ objects' = objects /\ phase' = phase
  BY DEF Store
<1>3. MemoryType /\ Layout /\ SizesIntact /\ DataIntact /\ LiveAreWhite
  BY DEF IInv
<1>4. a \in Extent(p) /\ a \in Address /\ a # BaseOf(p) /\ p \in Address
  BY <1>3, SpanInExtent DEF Layout, ObjectsInBlocks
<1>5. /\ memory' \in [Address -> {SizeWord(m) : m \in Size} \union {DataWord(q) : q \in Address}
                                   \union {StateWord, FreeWord}]
      /\ memory'[a] = DataWord(p)
      /\ \A b \in Address : b # a => memory'[b] = memory[b]
  BY <1>1, <1>3, <1>4 DEF MemoryType
<1>6. MemoryType'
  BY <1>2, <1>3, <1>5 DEF MemoryType
<1>7. Layout'
  <2>1. ObjectsInBlocks' /\ BlocksHoldObjects' /\ ObjectsApart'
    BY <1>2, <1>3 DEF Layout, ObjectsInBlocks, BlocksHoldObjects, ObjectsApart, Extent
  <2>2. StoredInObjects'
    BY <1>1, <1>2, <1>3 DEF Layout, StoredInObjects
  <2> QED BY <2>1, <2>2 DEF Layout
<1>8. SizesIntact'
  <2>1. ASSUME NEW q \in DOMAIN objects
        PROVE  BaseOf(q) # a
    BY <1>3, <1>4, BasesApart DEF Layout
  <2> QED BY <1>2, <1>3, <1>5, <2>1 DEF SizesIntact
<1>9. DataIntact'
  <2> SUFFICES ASSUME NEW q \in DOMAIN objects, NEW b \in Span(q, objects[q]), b \in stored'
               PROVE  b \in Address /\ memory'[b] = DataWord(q)
    BY <1>2 DEF DataIntact
  <2>1. CASE b # a
    BY <1>1, <1>3, <1>5, <2>1 DEF DataIntact
  <2>2. CASE b = a
    <3>1. b \in Extent(q)
      BY <1>3, SpanInExtent DEF Layout
    <3>2. q = p
      BY <1>3, <1>4, <2>2, <3>1 DEF Layout, ObjectsApart
    <3> QED BY <1>4, <1>5, <2>2, <3>2
  <2> QED BY <2>1, <2>2
<1>10. LiveAreWhite'
  BY <1>2, <1>3 DEF LiveAreWhite
<1> QED BY <1>6, <1>7, <1>8, <1>9, <1>10 DEF IInv

\* An object is freed with its block and what is stored in it, and no other.
LEMMA DeallocateHolds ==
  ASSUME IInv, Deallocate
  PROVE  IInv'
<1>1. PICK p \in DOMAIN objects :
        /\ blocks' = Without(blocks, BaseOf(p))
        /\ objects' = Without(objects, p)
        /\ stored' = stored \ Span(p, objects[p])
  BY DEF Deallocate
<1>2. memory' = memory /\ white' = white /\ phase' = phase
  BY DEF Deallocate
<1>3. MemoryType /\ Layout /\ SizesIntact /\ DataIntact /\ LiveAreWhite
  BY DEF IInv
<1>4. /\ DOMAIN objects' = DOMAIN objects \ {p}
      /\ \A q \in DOMAIN objects' : objects'[q] = objects[q]
  BY <1>1 DEF Without
<1>5. /\ DOMAIN blocks' = DOMAIN blocks \ {BaseOf(p)}
      /\ \A b \in DOMAIN blocks' : blocks'[b] = blocks[b]
  BY <1>1 DEF Without
<1>6. \A q \in DOMAIN objects' : q \in DOMAIN objects /\ BaseOf(q) # BaseOf(p)
  BY <1>3, <1>4, BasesApart DEF Layout
<1>7. \A q \in DOMAIN objects' : Extent(q)' = Extent(q)
  BY <1>4 DEF Extent
<1>8. MemoryType'
  BY <1>2, <1>3 DEF MemoryType
<1>9. Layout'
  <2>1. ObjectsInBlocks'
    BY <1>3, <1>4, <1>5, <1>6, <1>7 DEF Layout, ObjectsInBlocks
  <2>2. BlocksHoldObjects'
    BY <1>3, <1>4, <1>5 DEF Layout, BlocksHoldObjects
  <2>3. ObjectsApart'
    BY <1>3, <1>4, <1>7 DEF Layout, ObjectsApart
  <2>4. StoredInObjects'
    BY <1>1, <1>3, <1>4 DEF Layout, StoredInObjects
  <2> QED BY <2>1, <2>2, <2>3, <2>4 DEF Layout
<1>10. SizesIntact' /\ DataIntact' /\ LiveAreWhite'
  BY <1>1, <1>2, <1>3, <1>4 DEF SizesIntact, DataIntact, LiveAreWhite
<1> QED BY <1>8, <1>9, <1>10 DEF IInv

LEMMA PanicHolds ==
  ASSUME IInv, Panic
  PROVE  IInv'
BY DEF Panic, IInv, MemoryType, Layout, ObjectsInBlocks, BlocksHoldObjects, ObjectsApart,
       StoredInObjects, SizesIntact, DataIntact, LiveAreWhite, Extent

LEMMA StutterHolds ==
  ASSUME IInv, UNCHANGED vars
  PROVE  IInv'
BY DEF vars, IInv, MemoryType, Layout, ObjectsInBlocks, BlocksHoldObjects, ObjectsApart,
       StoredInObjects, SizesIntact, DataIntact, LiveAreWhite, Extent

-----------------------------------------------------------------------------
(* The theorems.                                                           *)

LEMMA Inductive == Spec => []IInv
<1>1. Init => IInv
  BY InitHolds
<1>2. IInv /\ [Next]_vars => IInv'
  BY AllocateHolds, PanicHolds, StoreHolds, DeallocateHolds, StutterHolds DEF Next
<1> QED BY <1>1, <1>2, PTL DEF Spec

\* Every object lies in one block of operator new that begins one word before
\* it, so that runtime_deallocate gives delete what new has returned.
THEOREM TypeCorrect == Spec => []TypeOK
<1>1. IInv => TypeOK
  <2> SUFFICES ASSUME IInv PROVE TypeOK
    OBVIOUS
  <2>1. DOMAIN blocks = {BaseOf(p) : p \in DOMAIN objects}
    BY DEF IInv, Layout, ObjectsInBlocks, BlocksHoldObjects
  <2>2. \A p \in DOMAIN objects : Span(p, objects[p]) \subseteq Address
    BY SpanInExtent DEF IInv, Layout, ObjectsInBlocks
  <2> QED BY <2>1, <2>2 DEF TypeOK, IInv, MemoryType
<1> QED BY <1>1, Inductive, PTL

\* The size that runtime_allocate writes stays readable one word before the
\* object, although four bytes too few are reserved for the metadata: the words
\* that are written over lie behind it, and blocks are aligned.
THEOREM SizesStay == Spec => []SizesIntact
<1>1. IInv => SizesIntact
  BY DEF IInv
<1> QED BY <1>1, Inductive, PTL

\* The state that runtime_allocate writes where the object begins, and for an
\* empty object behind its block, never falls on what a program has stored.
THEOREM DataStays == Spec => []DataIntact
<1>1. IInv => DataIntact
  BY DEF IInv
<1> QED BY <1>1, Inductive, PTL

\* The collector's white set, from which runtime_deallocate takes nothing,
\* holds the block of every object.
THEOREM CollectorKnowsAll == Spec => []LiveAreWhite
<1>1. IInv => LiveAreWhite
  BY DEF IInv
<1> QED BY <1>1, Inductive, PTL
=============================================================================
