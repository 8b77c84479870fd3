---------------------------- MODULE MCTypeContext ----------------------------
(* Instances of TypeContext: one type of each sort of leaf, and one field.  *)
EXTENDS TypeContext

MCNative == <<"i32">>
MCDecl == {"T"}
MCField == {"x"}
=============================================================================
