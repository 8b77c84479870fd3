--------------------- MODULE MCForwardDeclareFunctions ---------------------
(* Four functions with two names, one of them also the name of a type, laid *)
(* out over the file and the impls of two types in three ways.             *)
EXTENDS ForwardDeclareFunctions

CONSTANTS f1, f2, f3, f4, typeT, typeU

MCName == {"f", "T"}
MCParams == {"p", "q"}
MCFunction == {f1, f2, f3, f4}
MCTypeDecl == {typeT, typeU}

Top(f) == [impl |-> FALSE, target |-> Unnamed, aliased |-> FALSE, funcs |-> <<f>>]
Impl(t, aliased, fs) == [impl |-> TRUE, target |-> t, aliased |-> aliased, funcs |-> fs]

Layouts == {
  <<Top(f1), Impl(typeT, FALSE, <<>>), Top(f2), Top(f3), Top(f4)>>,
  <<Impl(typeT, FALSE, <<f1, f2>>), Impl(typeT, TRUE, <<f3>>), Impl(typeU, FALSE, <<f4>>)>>,
  <<Impl(Unknown, FALSE, <<f1>>), Impl(Unnamed, FALSE, <<f2>>), Impl(typeT, FALSE, <<f3, f4>>)>>,
  <<Impl(typeU, FALSE, <<f1, f2, f3>>), Top(f4)>>}

MCPrograms ==
  [name : [MCFunction -> MCName],
   params : [MCFunction -> MCParams \union {Unknown}],
   types : {[x \in MCName |-> IF x = "T" THEN <<typeT>> ELSE <<>>]},
   items : Layouts]
=============================================================================
