----------------------- MODULE MCResolveGlobalType -------------------------
(* Translation units of two declarations and one function or variable.     *)
EXTENDS ResolveGlobalType, TLC

MCName == {"A", "B", "i32", "gone"}
MCBuiltin == {"i32"}

Mk(kind, symbol, kids, names) ==
  [kind |-> kind, symbol |-> symbol, kids |-> kids, names |-> names]

\* Shapes of types, with the node numbers from b on; b is the root.
Ref(b, x) == b :> Mk("Ref", x, <<>>, <<>>)
Wrap(k, b, x) == (b :> Mk(k, x, <<b + 1>>, <<>>)) @@ Ref(b + 1, x)
Func(b, x, y) == (b :> Mk("Func", x, <<b + 1, b + 2>>, <<>>)) @@ Ref(b + 1, x) @@ Ref(b + 2, y)
Object(b, x, y, f, g) ==
  (b :> Mk("Object", x, <<b + 1, b + 2>>, <<f, g>>)) @@ Ref(b + 1, x) @@ Ref(b + 2, y)

Enum(b, x) ==
  (b :> Mk("Object", x, <<b + 1, Null>>, <<x, "gone">>)) @@ Ref(b + 1, x)

Shapes(b) ==
  {Ref(b, x) : x \in MCName} \union {Wrap("Pointer", b, x) : x \in {"A", "B"}}
  \union {Func(b, "gone", "A"), Object(b, "B", "i32", "A", "A"), Enum(b, "A")}

\* A function with a parameter of type x that returns y (the parameter's node
\* is visited for itself and for the function type), or a variable.
Uses(b) == {[nodes |-> Func(b, "A", "B"), roots |-> <<b + 1, b>>],
            [nodes |-> Func(b, "gone", "A"), roots |-> <<b + 1, b>>],
            [nodes |-> Wrap("Array", b, "B"), roots |-> <<b>>],
            [nodes |-> Wrap("Access", b, "i32"), roots |-> <<b>>],
            [nodes |-> Enum(b, "A"), roots |-> <<b>>],
            [nodes |-> Wrap("Qual", b, "A"), roots |-> <<b>>]}

Item1 == {<<k, x>> : k \in {"Type", "Use"}, x \in {"A", "i32"}}
Item2 == {<<k, x>> : k \in {"Type", "Use"}, x \in {"A", "B"}}

It(kind, name, roots) == [kind |-> kind, name |-> name, roots |-> roots]

MCPrograms ==
  {[nodes |-> s @@ t @@ u.nodes,
    items |-> <<It(i[1], i[2], <<10>>), It("Plain", "A", u.roots), It(j[1], j[2], <<20>>)>>] :
     s \in Shapes(10), t \in Shapes(20), u \in Uses(30), i \in Item1, j \in Item2}
=============================================================================
