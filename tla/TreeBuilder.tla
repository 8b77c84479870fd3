----------------------------- MODULE TreeBuilder -----------------------------
(***************************************************************************)
(* LangVisitor: from ANTLR's parse tree of one file to its syntax tree.    *)
(*                                                                         *)
(* Parser::parse runs the visitor on whatever tree ANTLR has made, after   *)
(* syntax errors, too.  A method visits the children of its context one    *)
(* after the other, an absent optional child being skipped and any other   *)
(* one being visited unseen, and makes its node from their values; a       *)
(* context without a method has the value of its last child.  The tree of  *)
(* a `for` has no method: what is left of it is its body.                  *)
(*                                                                         *)
(* A parse tree is given flat: nodes are numbered from the root down, and  *)
(* a node has its children in parts:                                       *)
(*                                                                         *)
(*   Program   package?  imports*  declarations*       Export  declaration *)
(*   Impl      functions*           Func  parameters*  body                *)
(*   Var       initializer?         Param default?     Block   statements* *)
(*   Return    value?   ExprStmt expression            DeclStmt declaration*)
(*   For       header*  body        If    condition  body  else?           *)
(*   Binary    left  right          Unary operand                          *)
(*   Call      callee  arguments*   Object values* (with a name for each)  *)
(*                                                                         *)
(* Binary is also an assignment or an index, Unary also a field access;    *)
(* Package, Import, TypeDecl (a `use` as well), Ref and Literal are        *)
(* leaves.  Types are left to ResolveGlobalType.                           *)
(***************************************************************************)
EXTENDS Naturals, Sequences, FiniteSets

LOCAL INSTANCE SequencesExt

CONSTANTS
  Name,      \* field names of object literals
  Trees      \* the parse trees considered

Kind == {"Program", "Export", "Impl", "Func", "Var", "Param", "Block", "Return",
         "ExprStmt", "DeclStmt", "For", "If", "Binary", "Unary", "Call", "Object",
         "Package", "Import", "TypeDecl", "Ref", "Literal"}

\* A child that a method visits although it is absent: the body of a function
\* that has none, or what error recovery left out of an ill-formed file.
Null == 0
Root == 1

ParseNode == [kind : Kind, parts : Seq(Seq(Nat)), names : Seq(Name)]

\* The children in the parts of a node.
Items(parts) == UNION {ToSet(parts[p]) : p \in DOMAIN parts}

\* The parts that the methods take by their position are there.
HasParts(node) ==
  /\ node.kind = "For" => Len(node.parts) = 2 /\ Len(node.parts[2]) = 1
  /\ node.kind = "If" =>
       /\ Len(node.parts) = 3
       /\ Len(node.parts[1]) = 1 /\ Len(node.parts[2]) = 1 /\ Len(node.parts[3]) <= 1
  /\ node.kind = "Object" => Len(node.parts) = 1 /\ Len(node.names) = Len(node.parts[1])

ASSUME TreeAssumption ==
  \A t \in Trees :
    /\ t \in Seq(ParseNode) /\ t # <<>>
    /\ \A n \in DOMAIN t :
         /\ t[n].kind = "Program" <=> n = Root
         /\ HasParts(t[n])
         /\ \A k \in Items(t[n].parts) \ {Null} : k \in DOMAIN t /\ k > n
         /\ n # Root => \E m \in DOMAIN t : n \in Items(t[m].parts)

\* A node is in one place of its tree.
ASSUME PlaceAssumption ==
  \A t \in Trees : \A m, n \in DOMAIN t :
    \A p \in DOMAIN t[m].parts, q \in DOMAIN t[n].parts :
      \A i \in DOMAIN t[m].parts[p], j \in DOMAIN t[n].parts[q] :
        t[m].parts[p][i] = t[n].parts[q][j] /\ t[m].parts[p][i] # Null => m = n /\ p = q /\ i = j

VARIABLES
  tree,      \* the parse tree
  todo,      \* the rest of the methods that are active, innermost first
  value,     \* parse node -> the syntax node that its visit returned
  ast,       \* the nodes that the ASTContext owns, in order of creation
  diags,     \* the values of repeated fields, reported and dropped
  build      \* "visiting", "built", or "crashed"

bvars == <<tree, todo, value, ast, diags, build>>

\* The children of a node, those absent included.
Kids(n) == FlattenSeq(tree[n].parts)

Visit(n) == [op |-> "visit", node |-> n, field |-> 0]
Field(n, i) == [op |-> "field", node |-> n, field |-> i]
Make(n) == [op |-> "make", node |-> n, field |-> 0]

\* The body of the method for n: its visits in order, then its node.
Steps(n) ==
  IF tree[n].kind = "Object"
  THEN FlattenSeq([k \in DOMAIN Kids(n) |-> <<Visit(Kids(n)[k]), Field(n, k)>>]) \o <<Make(n)>>
  ELSE [k \in DOMAIN Kids(n) |-> Visit(Kids(n)[k])] \o <<Make(n)>>

BInit ==
  /\ tree \in Trees
  /\ todo = <<Visit(Root)>>
  /\ value = [n \in {} |-> Null]
  /\ ast = <<>>
  /\ diags = {}
  /\ build = "visiting"

At(op) == build = "visiting" /\ todo # <<>> /\ Head(todo).op = op

Here == Head(todo).node

VisitNode ==
  /\ At("visit")
  /\ Here # Null
  /\ todo' = Steps(Here) \o Tail(todo)
  /\ UNCHANGED <<tree, value, ast, diags, build>>

\* Fault: a method that finds no child goes on without a value for it.
SkipNull ==
  /\ At("visit")
  /\ Here = Null
  /\ todo' = Tail(todo)
  /\ value' = [n \in DOMAIN value \union {Null} |-> IF n = Null THEN Null ELSE value[n]]
  /\ UNCHANGED <<tree, ast, diags, build>>

\* visit(nullptr), or for the body of a `for` an any_cast of something else.
VisitNull ==
  /\ At("visit")
  /\ Here = Null
  /\ build' = "crashed"
  /\ UNCHANGED <<tree, todo, value, ast, diags>>

\* Fault: the name is compared with that of the field just before only.
IsRepeatedNext(n, i) == i > 1 /\ tree[n].names[i - 1] = tree[n].names[i]

\* Fields.contains(Name) after the value of the i-th field has been built.
IsRepeated(n, i) == \E k \in 1..(i - 1) : tree[n].names[k] = tree[n].names[i]

KeepField ==
  /\ At("field")
  /\ ~IsRepeated(Here, Head(todo).field)
  /\ todo' = Tail(todo)
  /\ UNCHANGED <<tree, value, ast, diags, build>>

DropField ==
  /\ At("field")
  /\ IsRepeated(Here, Head(todo).field)
  /\ todo' = Tail(todo)
  /\ diags' = diags \union {Kids(Here)[Head(todo).field]}
  /\ UNCHANGED <<tree, value, ast, build>>

-----------------------------------------------------------------------------
(* Making a node: todo' and value' are the same for every method.          *)

NewId == Len(ast) + 1

\* A syntax node: its kind, the parse node it was made for, its children.
Node(kind, n, parts) == [kind |-> kind, of |-> n, parts |-> parts]

Values(part) == [k \in DOMAIN part |-> value[part[k]]]

\* The method for Here returns v, after creating the given nodes.
Returns(v, nodes) ==
  /\ At("make")
  /\ todo' = Tail(todo)
  /\ value' = [n \in DOMAIN value \union {Here} |-> IF n = Here THEN v ELSE value[n]]
  /\ ast' = ast \o nodes
  /\ build' = IF Here = Root THEN "built" ELSE build
  /\ UNCHANGED <<tree, diags>>

MakeNode ==
  /\ At("make")
  /\ tree[Here].kind \notin {"For", "If", "Object"}
  /\ LET parts == tree[Here].parts
     IN  Returns(NewId, <<Node(tree[Here].kind, Here, [p \in DOMAIN parts |-> Values(parts[p])])>>)

\* No visitFor_stmt: the value of the last child.
MakeFor ==
  /\ At("make")
  /\ tree[Here].kind = "For"
  /\ Returns(value[tree[Here].parts[2][1]], <<>>)

\* Fault: the branch keeps its own number when it is not a block.
PromotedNever(s) == <<>>

\* The block, if any, that promoteStmtToBlockStmt makes around statement s.
Promoted(s) == IF ast[s].kind = "Block" THEN <<>> ELSE <<Node("Block", ast[s].of, <<<<s>>>>)>>

MakeIf ==
  /\ At("make")
  /\ tree[Here].kind = "If"
  /\ LET branches == Values(tree[Here].parts[2] \o tree[Here].parts[3])
         before(k) == FlattenSeq([j \in 1..(k - 1) |-> Promoted(branches[j])])
         block(k)  == IF Promoted(branches[k]) = <<>> THEN branches[k]
                      ELSE NewId + Len(before(k))
         blocks    == before(Len(branches) + 1)
     IN  Returns(NewId + Len(blocks),
                 Append(blocks, Node("If", Here, <<Values(tree[Here].parts[1]), <<block(1)>>,
                                        [k \in 1..(Len(branches) - 1) |-> block(k + 1)]>>)))

\* Fields is a StringMap, whose order is that of its hash table.
MakeObject ==
  /\ At("make")
  /\ tree[Here].kind = "Object"
  /\ \E order \in SetToSeqs({k \in DOMAIN Kids(Here) : ~IsRepeated(Here, k)}) :
       Returns(NewId,
               <<Node("Object", Here, <<[k \in DOMAIN order |-> value[Kids(Here)[order[k]]]]>>)>>)

BNext ==
  \/ VisitNode
  \/ VisitNull
  \/ KeepField
  \/ DropField
  \/ MakeNode
  \/ MakeFor
  \/ MakeIf
  \/ MakeObject

-----------------------------------------------------------------------------
(* Properties.                                                             *)

\* n and all that is below it.
Below ==
  LET below[n \in DOMAIN tree] == {n} \union UNION {below[k] : k \in Items(tree[n].parts) \ {Null}}
  IN  below

\* The values of fields whose name an earlier field of the literal has.
RepeatedValues ==
  UNION {{Kids(n)[i] : i \in {j \in DOMAIN Kids(n) : tree[n].names[j] \in ToSet(SubSeq(tree[n].names, 1, j - 1))}} :
           n \in {m \in DOMAIN tree : tree[m].kind = "Object"}}

ForHeaders == UNION {ToSet(tree[n].parts[1]) : n \in {m \in DOMAIN tree : tree[m].kind = "For"}}

IsPromoted(a) == ast[a].kind = "Block" /\ tree[ast[a].of].kind # "Block"

\* The syntax nodes that the program declaration leads to.
Linked ==
  LET reach[a \in DOMAIN ast] == {a} \union UNION {reach[b] : b \in Items(ast[a].parts)}
  IN  reach[value[Root]]

\* Everything a program says is in its syntax tree, in one place: a node is
\* the child of one other at most, and what the root leads to is all that was
\* parsed, but for the headers of `for` loops, which are lost silently, and
\* the repeated fields of object literals, each of them reported.
NothingLost ==
  build = "built" =>
    LET lost == UNION {Below[n] : n \in RepeatedValues \union ForHeaders}
        kept == {n \in DOMAIN tree \ lost : tree[n].kind # "For"}
        made == {a \in Linked : ~IsPromoted(a)}
    IN  /\ {ast[a].of : a \in made} = kept
        /\ Cardinality(made) = Cardinality(kept)
        /\ \A a, b \in Linked : a # b => Items(ast[a].parts) \intersect Items(ast[b].parts) = {}
        /\ diags = RepeatedValues

\* What stands in the syntax tree for n: for a loop, what stands for its body.
StandsFor ==
  LET stands[n \in DOMAIN tree] == IF tree[n].kind = "For" THEN stands[tree[n].parts[2][1]] ELSE n
  IN  stands

\* Each syntax node has its children in the parts, and the parts in the order,
\* that the source text has them in (the fields of an object literal apart),
\* through all the values that later visits put beside and around theirs; and
\* the branches of an `if` are blocks, as its constructor wants them.
ShapeKept ==
  build = "built" =>
    \A a \in {b \in Linked : ~IsPromoted(b)} :
      LET parts == tree[ast[a].of].parts
      IN  /\ ast[a].kind = tree[ast[a].of].kind
          /\ ast[a].kind # "Object" =>
               /\ Len(ast[a].parts) = Len(parts)
               /\ \A p \in DOMAIN parts :
                    /\ Len(ast[a].parts[p]) = Len(parts[p])
                    /\ \A k \in DOMAIN parts[p] :
                         ast[ast[a].parts[p][k]].of = StandsFor[parts[p][k]]
          /\ ast[a].kind = "If" =>
               \A b \in ToSet(ast[a].parts[2] \o ast[a].parts[3]) : ast[b].kind = "Block"

\* The visitor stops the process for an absent child and for nothing else, and
\* it never gets past one: whether a file that is reported as ill-formed, or a
\* function without a body, still has a syntax tree does not depend on where in
\* the file it is.
CrashesExplained ==
  LET incomplete == \E n \in DOMAIN tree : Null \in Items(tree[n].parts)
  IN  /\ build = "crashed" => incomplete
      /\ build = "built" => ~incomplete
=============================================================================
