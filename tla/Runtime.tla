------------------------------- MODULE Runtime -------------------------------
(***************************************************************************)
(* The allocator of the runtime that compiled programs are linked with:    *)
(* runtime_allocate and runtime_deallocate over operator new and delete.   *)
(*                                                                         *)
(* A block begins with the metadata of its object, a size and a state of   *)
(* four bytes each.  But only four bytes are reserved and skipped for      *)
(* them: the object begins where the state is, so the state is lost with   *)
(* the first store of the program, and that of an empty object lies behind *)
(* its block.  What has to survive this are the sizes and the objects.     *)
(*                                                                         *)
(* Memory is counted in words of four bytes.  operator new (external)      *)
(* returns a free block at a multiple of Align, or nothing.  The compiled  *)
(* program (external) stores in its objects, and frees them, as it likes.  *)
(***************************************************************************)
EXTENDS Naturals

CONSTANTS
  Size,     \* sizes of objects, in words
  Words,    \* bound: the words of memory
  Align     \* alignment of blocks, in words: 4 on the machines supported

ASSUME RuntimeAssumption ==
  /\ Size \subseteq Nat
  /\ Words \in Nat
  /\ Align \in Nat /\ Align >= 2

VARIABLES
  memory,   \* what each word was last given
  blocks,   \* operator new's: base of each block -> its length
  white,    \* gc_white_set
  objects,  \* the program's: address of each object -> its size
  stored,   \* words in which the program has stored something of its own
  phase     \* "running", or "panic" when there is no memory left

vars == <<memory, blocks, white, objects, stored, phase>>

Address == 0..(Words - 1)

\* A word of the metadata of a block, or of the object at an address.
SizeWord(n) == <<"size", n>>
StateWord == <<"state", 0>>
DataWord(p) == <<"data", p>>
FreeWord == <<"free", 0>>

Span(base, length) == base..(base + length - 1)

With(f, k, v) == [x \in DOMAIN f \union {k} |-> IF x = k THEN v ELSE f[x]]
Without(f, k) == [x \in DOMAIN f \ {k} |-> f[x]]

Init ==
  /\ memory = [a \in Address |-> FreeWord]
  /\ blocks = [b \in {} |-> 0]
  /\ white = {}
  /\ objects = [p \in {} |-> 0]
  /\ stored = {}
  /\ phase = "running"

\* Where operator new may put a block; the metadata must be in memory, too.
Free(length) ==
  {b \in Address :
     /\ b % Align = 0
     /\ Span(b, length) \subseteq Address
     /\ b + 1 \in Address
     /\ \A c \in DOMAIN blocks : Span(b, length) \intersect Span(c, blocks[c]) = {}}

\* Fault: nothing is reserved for the metadata.
ReservedBare(n) == n

\* sizeof(object_gc_state) + size.
Reserved(n) == 1 + n

\* Fault: the program is given the block, not the object in it.
ObjectAtBase(base) == base

\* base_ptr + sizeof(object_gc_state), and back.
ObjectAt(base) == base + 1
BaseOf(p) == p - 1

\* Fault: the set is given the address of the object.
TrackedObject(base) == ObjectAt(base)

Tracked(base) == base

Allocate ==
  /\ phase = "running"
  /\ \E n \in Size : \E base \in Free(Reserved(n)) :
       /\ blocks' = With(blocks, base, Reserved(n))
       /\ memory' = [memory EXCEPT ![base] = SizeWord(n), ![base + 1] = StateWord]
       /\ white' = white \union {Tracked(base)}
       /\ objects' = With(objects, ObjectAt(base), n)
  /\ UNCHANGED <<stored, phase>>

\* operator new has no block: the assertion fails.
Panic ==
  /\ phase = "running"
  /\ \E n \in Size : Free(Reserved(n)) = {}
  /\ phase' = "panic"
  /\ UNCHANGED <<memory, blocks, white, objects, stored>>

\* The program stores something in a word of an object of its own.
Store ==
  /\ phase = "running"
  /\ \E p \in DOMAIN objects : \E a \in Span(p, objects[p]) :
       /\ memory' = [memory EXCEPT ![a] = DataWord(p)]
       /\ stored' = stored \union {a}
  /\ UNCHANGED <<blocks, white, objects, phase>>

\* The white set is left alone: it keeps the address of what was freed.
Deallocate ==
  /\ phase = "running"
  /\ \E p \in DOMAIN objects :
       /\ blocks' = Without(blocks, BaseOf(p))
       /\ objects' = Without(objects, p)
       /\ stored' = stored \ Span(p, objects[p])
  /\ UNCHANGED <<memory, white, phase>>

Next == Allocate \/ Panic \/ Store \/ Deallocate

Spec == Init /\ [][Next]_vars

-----------------------------------------------------------------------------
(* Properties.                                                             *)

\* Every object that the program holds lies in one block of the allocator that
\* begins one word before it, so that delete is given what new has returned.
TypeOK ==
  /\ memory \in [Address -> {SizeWord(n) : n \in Size} \union {DataWord(p) : p \in Address}
                              \union {StateWord, FreeWord}]
  /\ DOMAIN blocks = {BaseOf(p) : p \in DOMAIN objects}
  /\ \A p \in DOMAIN objects : Span(p, objects[p]) \subseteq Address
  /\ white \subseteq Address
  /\ phase \in {"running", "panic"}

\* The size of an object can be read from the word before it for as long as the
\* program holds it, whatever the program stores in its objects, allocates and
\* frees, although objects lie over metadata (runtime_allocate).
SizesIntact ==
  \A p \in DOMAIN objects :
    BaseOf(p) \in Address /\ memory[BaseOf(p)] = SizeWord(objects[p])

\* What the program stores in an object stays there until it stores something
\* else or frees it: no metadata of a later object is written over it, not that
\* of an empty one either, which does not fit in its block.
DataIntact ==
  \A p \in DOMAIN objects : \A a \in Span(p, objects[p]) \intersect stored :
    a \in Address /\ memory[a] = DataWord(p)

\* The collector's set knows every object that the program holds, although freed
\* objects are never taken out of it and their addresses are used again.
LiveAreWhite ==
  \A p \in DOMAIN objects : BaseOf(p) \in white
=============================================================================
