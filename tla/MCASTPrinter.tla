---------------------------- MODULE MCASTPrinter -----------------------------
(* Instances of TreeBuilder and ASTPrinter: files with one or two functions *)
(* or variables.  A nested tree is written down and then numbered.          *)
EXTENDS ASTPrinter, SequencesExt

MCName == {"x", "y"}

\* Nested trees.  Absent stands for a child that is visited all the same.
N(kind, parts) == [kind |-> kind, parts |-> parts, names |-> <<>>]
Leaf(kind) == N(kind, <<>>)
Absent == Leaf("Absent")

RECURSIVE Size(_)
Size(t) ==
  IF t = Absent THEN 0
  ELSE LET kids == FlattenSeq(t.parts)
       IN  1 + FoldLeft(LAMBDA sum, k : sum + Size(k), 0, kids)

\* The node t under the number n, followed by all those below it.
RECURSIVE Number(_, _)
Number(t, n) ==
  IF t = Absent THEN <<>>
  ELSE LET kids == FlattenSeq(t.parts)
           first[k \in 1..(Len(kids) + 1)] ==
             IF k = 1 THEN n + 1 ELSE first[k - 1] + Size(kids[k - 1])
           offset(p) == Len(FlattenSeq(SubSeq(t.parts, 1, p - 1)))
           id(k) == IF kids[k] = Absent THEN Null ELSE first[k]
       IN  <<[t EXCEPT !.parts = [p \in DOMAIN t.parts |->
                 [k \in DOMAIN t.parts[p] |-> id(offset(p) + k)]]]>>
           \o FlattenSeq([k \in DOMAIN kids |-> Number(kids[k], first[k])])

Number1(t) == Number(t, Root)

UpTo(S, n) == UNION {[1..k -> S] : k \in 0..n}

Ref == Leaf("Ref")
Literal == Leaf("Literal")
Object(names, v) ==
  [kind |-> "Object", parts |-> <<[k \in DOMAIN names |-> IF k = Len(names) THEN v ELSE Ref]>>,
   names |-> names]
Call(args) == N("Call", <<<<Ref>>, args>>)
Binary(r) == N("Binary", <<<<Ref>>, <<r>>>>)
Unary(e) == N("Unary", <<<<e>>>>)
Do(e) == N("ExprStmt", <<<<e>>>>)
Return(v) == N("Return", <<v>>)
Let(init) == N("Var", <<init>>)
Declare(d) == N("DeclStmt", <<<<d>>>>)
Block(ss) == N("Block", <<ss>>)
For(header, body) == N("For", <<header, <<body>>>>)
If(c, then, else) == Do(N("If", <<<<c>>, <<then>>, else>>))

\* Literals of objects with repeated fields, the last value of which is again
\* an object with a repeated field.
Objects == {Object(ns, Ref) : ns \in {<<>>, <<"x">>, <<"x", "y">>, <<"x", "x">>, <<"x", "y", "x">>}}
           \union {Object(<<"x", "x">>, Object(<<"y", "y">>, Literal))}
Expressions == Objects \union
  {Ref, Call(<<>>), Call(<<Literal>>), Call(<<Ref, Binary(Ref)>>), Binary(Unary(Ref)), Unary(Call(<<Ref>>))}

Headers == {<<Ref>>, <<Declare(Let(<<Ref>>)), Binary(Ref)>>, <<Object(<<"x", "x">>, Ref)>>}
Loops == {For(h, b) : h \in Headers, b \in {Block(<<>>), Block(<<Do(Ref), Return(<<>>)>>), Do(Ref)}}

\* Branches that are blocks, that are not, and that become one.
Branches == {Block(<<>>), Block(<<Do(Ref), Do(Ref)>>), Do(Ref), For(<<Ref>>, Do(Ref)),
             For(<<Ref>>, Block(<<>>))}
Ifs == {If(c, t, e) : c \in {Ref, Binary(Ref)}, t \in Branches, e \in {<<>>} \union {<<b>> : b \in Branches}}

Statements == {Do(e) : e \in Expressions} \union {Return(<<Ref>>), Return(<<>>)}
              \union {Declare(Let(<<Unary(Ref)>>)), Declare(Let(<<>>)), Declare(Leaf("TypeDecl"))}
              \union Loops \union Ifs \union {Block(<<Block(<<Do(Ref)>>), Do(Ref)>>)}

Param(default) == N("Param", <<default>>)
Func(ps, body) == N("Func", <<ps, <<body>>>>)
Program(package, imports, decls) ==
  N("Program", <<package, imports, [k \in DOMAIN decls |-> N("Export", <<<<decls[k]>>>>)]>>)
Main(ss) == Program(<<>>, <<>>, <<Func(<<>>, Block(ss))>>)

Bodies == {Main(<<s>>) : s \in Statements}
          \union {Main(<<s, t>>) : s \in Statements, t \in {Do(Ref), If(Ref, Do(Ref), <<>>), Do(Call(<<Ref>>))}}

Functions == {Func(ps, Block(ss)) : ps \in UpTo({Param(<<>>), Param(<<Literal>>)}, 2), ss \in {<<>>, <<Do(Ref)>>}}
Declarations == {Leaf("TypeDecl"), Let(<<Binary(Literal)>>), Func(<<Param(<<Ref>>)>>, Block(<<>>))}
                \union {N("Impl", <<fs>>) : fs \in UpTo({Func(<<>>, Block(<<>>))}, 2)}
Files == {Program(p, i, d) : p \in {<<>>, <<Leaf("Package")>>}, i \in UpTo({Leaf("Import")}, 2),
                             d \in UpTo(Declarations, 2)}
         \union {Program(<<>>, <<>>, <<f>>) : f \in Functions}

\* A child is missing: in a body, or the body itself.
Incomplete ==
  {Main(<<s>>) : s \in {Do(Absent), Do(Binary(Absent)), If(Absent, Do(Ref), <<>>), If(Ref, Absent, <<>>),
                        If(Ref, Do(Ref), <<Absent>>), Do(Object(<<"x", "x">>, Absent)), For(<<Ref>>, Absent),
                        Declare(Absent)}}
  \union {Program(<<>>, <<>>, <<Func(<<>>, Absent)>>), Program(<<>>, <<>>, <<Absent>>),
          Program(<<>>, <<>>, <<Func(<<>>, Block(<<Do(Ref)>>)), N("Impl", <<<<Func(<<>>, Absent)>>>>)>>)}

\* Trees about as deep as the flag array of the instance is long, which is 10.
Deep == {Main(<<If(Ref, If(Ref, s, e), f), t>>) :
           s \in {Block(<<>>), Do(Ref), Do(Call(<<Ref, Ref>>)), Return(<<>>), Do(Unary(Unary(Ref)))},
           e \in {<<>>, <<Block(<<>>)>>}, f \in {<<>>, <<Block(<<>>)>>}, t \in {Do(Ref), Return(<<>>)}}

MCTrees == {Number1(t) : t \in Bodies \union Files \union Incomplete \union Deep}
=============================================================================
