----------------------------- MODULE ASTPrinter ------------------------------
(***************************************************************************)
(* Drawing the syntax tree that TreeBuilder has made, as rx-frontend -debug*)
(* and parse-tree do: one line per node, in the order of the walk, with    *)
(* the branches drawn in front of it.                                      *)
(*                                                                         *)
(* A line is drawn before anything is known of the lines below it.  Where  *)
(* a branch goes on is remembered per depth in DepthFlag, an array of fixed*)
(* size: the last child of a node clears the flag of its depth, and every  *)
(* node sets it again when its visit ends.                                 *)
(***************************************************************************)
EXTENDS TreeBuilder

LOCAL INSTANCE SequencesExt

CONSTANT FlagCount   \* entries of DepthFlag; indices begin at 0

ASSUME FlagAssumption == FlagCount \in Nat \ {0}

VARIABLES
  work,        \* nodes whose visit has still to begin or to end, in order
  depth,       \* Depth
  depthFlag,   \* DepthFlag
  isLast,      \* IsLast
  lines,       \* the lines printed
  print        \* "waiting" for a tree, "printing", "printed" or "asserted"

pvars == <<work, depth, depthFlag, isLast, lines, print>>
allvars == <<bvars, pvars>>

\* Fault: one more index than there are entries.
FlagUpToCount == 0..FlagCount

Flag == 0..(FlagCount - 1)

\* The visit of node a in a Scope, or of the root without one; and its end.
Open(a, last) == [op |-> "open", node |-> a, last |-> last]
Close(a) == [op |-> "close", node |-> a, last |-> FALSE]

\* What each method passes to the Scope of its k-th child of part p: TRUE for
\* the last one, provided that the parts after it are empty.
LastChild(parts, p, k) ==
  k = Len(parts[p]) /\ \A q \in DOMAIN parts : q > p => parts[q] = <<>>

\* Fault: the optional last part is forgotten.
ChildrenButLast(a) ==
  LET parts == IF Len(ast[a].parts) < 3 THEN ast[a].parts ELSE Front(ast[a].parts)
  IN  FlattenSeq([p \in DOMAIN parts |->
        [k \in DOMAIN parts[p] |-> Open(parts[p][k], LastChild(parts, p, k))]])

Children(a) ==
  LET parts == ast[a].parts
  IN  FlattenSeq([p \in DOMAIN parts |->
        [k \in DOMAIN parts[p] |-> Open(parts[p][k], LastChild(parts, p, k))]])

PInit ==
  /\ BInit
  /\ work = <<>>
  /\ depth = 0
  /\ depthFlag = [i \in Flag |-> TRUE]
  /\ isLast = <<FALSE>>
  /\ lines = <<>>
  /\ print = "waiting"

Build == BNext /\ UNCHANGED pvars

\* ASTPrinter::print on the program declaration.
StartPrint ==
  /\ build = "built"
  /\ print = "waiting"
  /\ work' = <<Open(value[Root], FALSE)>>
  /\ print' = "printing"
  /\ UNCHANGED <<bvars, depth, depthFlag, isLast, lines>>

AtWork(op) == print = "printing" /\ work # <<>> /\ Head(work).op = op

\* Scope::Scope, but for the root, then the visit up to its first child:
\* printNodePrefix reads the flags of the depths above and clears its own.
Entered == IF ast[Head(work).node].kind = "Program" THEN depth ELSE depth + 1

FlagsUsed(d, last) == 1..(d - 1) \union (IF last THEN {d} ELSE {})

PrintNode ==
  /\ AtWork("open")
  /\ LET a     == Head(work).node
         d     == Entered
         stack == IF d = depth THEN isLast ELSE Append(isLast, Head(work).last)
         last  == Last(stack)
     IN  IF FlagsUsed(d, last) \subseteq Flag
         THEN /\ lines' = Append(lines, [node |-> a, depth |-> d, last |-> last,
                                         bars |-> [i \in 1..(d - 1) |-> depthFlag[i]]])
              /\ depthFlag' = [i \in Flag |-> IF last /\ i = d THEN FALSE ELSE depthFlag[i]]
              /\ depth' = d
              /\ isLast' = stack
              /\ work' = Children(a) \o <<Close(a)>> \o Tail(work)
              /\ print' = print
         ELSE print' = "asserted" /\ UNCHANGED <<lines, depthFlag, depth, isLast, work>>
  /\ UNCHANGED bvars

\* Fault: the reset comes when the Scope has been closed.
ResetAbove(flags, d) == [flags EXCEPT ![IF d = 0 THEN 0 ELSE d - 1] = TRUE]

Reset(flags, d) == [flags EXCEPT ![d] = TRUE]

\* Fault: the destructor of Scope leaves IsLast alone.
PopNothing(stack) == stack

\* Scope::~Scope, for IsLast.
Pop(stack) == Front(stack)

\* The end of a visit: the flag is set again, and the Scope is closed.
CloseNode ==
  /\ AtWork("close")
  /\ IF depth \in Flag
     THEN /\ depthFlag' = Reset(depthFlag, depth)
          /\ depth' = IF depth = 0 THEN 0 ELSE depth - 1
          /\ isLast' = IF depth = 0 THEN isLast ELSE Pop(isLast)
          /\ work' = Tail(work)
          /\ print' = IF depth = 0 THEN "printed" ELSE print
     ELSE print' = "asserted" /\ UNCHANGED <<depthFlag, depth, isLast, work>>
  /\ UNCHANGED <<bvars, lines>>

PNext ==
  \/ Build
  \/ StartPrint
  \/ PrintNode
  \/ CloseNode

PSpec == PInit /\ [][PNext]_allvars

-----------------------------------------------------------------------------
(* Properties.                                                             *)

PTypeOK ==
  /\ build \in {"visiting", "built", "crashed"}
  /\ \A n \in DOMAIN value : n \in DOMAIN tree /\ value[n] \in DOMAIN ast
  /\ \A a \in DOMAIN ast :
       /\ ast[a].kind \in Kind
       /\ ast[a].of \in DOMAIN tree
       /\ Items(ast[a].parts) \subseteq 1..(a - 1)
  /\ diags \subseteq DOMAIN tree
  /\ depth \in Nat
  /\ depthFlag \in [Flag -> BOOLEAN]
  /\ isLast \in Seq(BOOLEAN)
  /\ Len(isLast) = depth + 1
  /\ print \in {"waiting", "printing", "printed", "asserted"}

\* The next line at depth d or above, after line i; 0 if there is none.
NextAtOrAbove(i, d) ==
  LET after == {j \in DOMAIN lines : j > i /\ lines[j].depth <= d}
  IN  IF after = {} THEN 0 ELSE CHOOSE j \in after : \A k \in after : j <= k

\* Line i is followed by a sibling of its ancestor at depth d, or of itself.
GoesOn(i, d) ==
  LET j == NextAtOrAbove(i, d) IN j # 0 /\ lines[j].depth = d

\* The drawing can be read: in front of a node there is a vertical bar for
\* every ancestor that has a sibling further down and for no other one, and
\* the node itself has a closing branch exactly when no sibling follows, even
\* though each line is drawn before the ones below it exist.
BarsConnect ==
  print = "printed" =>
    \A i \in DOMAIN lines :
      /\ \A d \in DOMAIN lines[i].bars : lines[i].bars[d] <=> GoesOn(i, d)
      /\ lines[i].depth > 0 => (lines[i].last <=> ~GoesOn(i, lines[i].depth))

\* The syntax nodes at each depth, the deepest last.
Levels ==
  LET level[d \in 0..Len(ast)] ==
        IF d = 0 THEN {value[Root]} ELSE UNION {Items(ast[a].parts) : a \in level[d - 1]}
  IN  level

\* The outline is the tree: every node that the root leads to has one line, at
\* its own depth and in the block of lines of its parent.
OutlineComplete ==
  print = "printed" =>
    /\ \A i, j \in DOMAIN lines : lines[i].node = lines[j].node => i = j
    /\ {lines[i].node : i \in DOMAIN lines} = Linked
    /\ \A i \in DOMAIN lines :
         /\ lines[i].node \in Levels[lines[i].depth]
         /\ \A j \in DOMAIN lines :
              lines[j].node \in Items(ast[lines[i].node].parts) =>
                j > i /\ \A k \in (i + 1)..j : lines[k].depth > lines[i].depth

\* The assertion of SmallVector on the index of DepthFlag fails for a tree with a
\* node as deep as the array is long, and for no other one: no shallower tree can
\* reach past the array, however it is shaped.  (Without assertions, the deep one
\* is drawn from memory after the array.)
OnlyDeepTreesStop ==
  /\ print = "asserted" => \E d \in DOMAIN Levels : d >= FlagCount /\ Levels[d] # {}
  /\ print = "printed" => \A d \in DOMAIN Levels : d >= FlagCount => Levels[d] = {}
=============================================================================
