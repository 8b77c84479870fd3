---------------------------- MODULE MCTypeCheck ----------------------------
(* Translation units of a variable and a second variable, a function, an   *)
(* impl block or a type; initializers hold blocks with declarations, three *)
(* levels deep.  Types in blocks are unknown, as the passes before leave   *)
(* them.                                                                   *)
EXTENDS TypeCheck, TLC

LOCAL INSTANCE SequencesExt

MCName == {"a", "b", "f"}
MCOther == {"point"}

At(n, kind, kids) == n :> [kind |-> kind, name |-> "b", declared |-> NoType, kids |-> kids]
Decl(n, kind, x, t, kids) == n :> [kind |-> kind, name |-> x, declared |-> t, kids |-> kids]
NoNode == [n \in {} |-> n]

\* let x: t [= init], with init at n + 1.
Let(n, x, t, init) ==
  Decl(n, "Var", x, t, IF init = NoNode THEN <<>> ELSE <<n + 1>>) @@ init

\* (if true { let x: t [= init] }) + number
Nest(n, x, t, number, init) ==
  LET last == n + 5 + Cardinality(DOMAIN init)
  IN  At(n, "Expr", <<n + 1, last>>) @@ At(n + 1, "Expr", <<n + 2, n + 3>>)
        @@ At(n + 2, "Bool", <<>>) @@ At(n + 3, "Block", <<n + 4>>) @@ Let(n + 4, x, t, init)
        @@ At(last, number, <<>>)

Simple(n) == {At(n, k, <<>>) : k \in {"Int", "Float", "Char"}} \union {Decl(n, "Ref", "f", NoType, <<>>)}

Inits(n) ==
  {NoNode} \union Simple(n)
  \union {Nest(n, x, t, "Int", At(n + 5, "Float", <<>>)) : x \in {"a", "b"}, t \in {NoType, Unknown}}
  \union {Nest(n, "a", NoType, o,
               Nest(n + 5, x, NoType, k, At(n + 10, "Int", <<>>))) : x \in {"a", "b"}, k \in {"Int", "Text"}, o \in {"Float", "Text"}}
  \union {Nest(n, "a", NoType, "Int", NoNode)}

Bodies(n) ==
  {At(n, "Block", <<Null>>),
   At(n, "Block", <<n + 1, n + 2>>) @@ At(n + 1, "Float", <<>>) @@ At(n + 2, "Int", <<>>),
   At(n, "Block", <<n + 1, n + 3>>) @@ Let(n + 1, "b", NoType, At(n + 2, "Int", <<>>))
     @@ Let(n + 3, "b", NoType, At(n + 4, "Ref", <<>>)),
   At(n, "Block", <<n + 1, n + 2>>) @@ At(n + 1, "TypeDecl", <<>>) @@ Let(n + 2, "a", Unknown, At(n + 3, "Int", <<>>)),
   At(n, "Block", <<n + 1>>) @@ Let(n + 1, "f", NoType, Nest(n + 2, "f", NoType, "Int", At(n + 7, "Text", <<>>)))}

Params(n) == {NoNode, Decl(n, "Param", "b", "point", <<>>),
              Decl(n, "Param", "b", "i32", <<n + 1>>) @@ At(n + 1, "Int", <<>>),
              Decl(n, "Param", "b", "i8", <<n + 1>>) @@ At(n + 1, "Float", <<>>)
                @@ Decl(n + 2, "Param", "b", "i8", <<>>)}

\* The parameters are those below the first node of the body.
Funcs(n) ==
  {Decl(n, "Func", "f", NoType, SetToSortSeq({k \in DOMAIN p : p[k].kind = "Param"}, <) \o <<n + 10>>)
     @@ p @@ b : p \in Params(n + 1), b \in Bodies(n + 10)}

First == {Let(20, "a", t, i) : t \in {NoType, "i32", "i8", "f32", "string", "point", Unknown}, i \in Inits(21)}
Second == {Let(50, x, t, i) : x \in {"a", "b", "f"}, t \in {NoType, "f32"}, i \in Inits(51)}
          \union Funcs(50)
          \union {At(50, "Impl", <<60>>) @@ f : f \in Funcs(60)}
          \union {Decl(50, "TypeDecl", x, NoType, <<>>) : x \in {"a", "b"}}

MCPrograms == {At(Root, "Program", <<20, 50>>) @@ d @@ e : d \in First, e \in Second}
=============================================================================
