------------------------------ MODULE MCRuntime ------------------------------
(* An instance of Runtime: empty objects, objects of one word, and objects  *)
(* that fill the space between two blocks, and more than that.              *)
EXTENDS Runtime

MCSize == {0, 1, 3, 4}
=============================================================================
