--------------------------- MODULE ImportClosure ---------------------------
(***************************************************************************)
(* What import discovery promises, without queues, tables or diagnostics:  *)
(* starting from the root file, keep opening files that an open file       *)
(* imports, and stop only when every import that has to succeed leads to   *)
(* an open file.  May and Must give the targets a node's imports may and   *)
(* must open; they differ on files whose opening can fail.                 *)
(***************************************************************************)
CONSTANTS
  RootNode,   \* the file named on the command line
  May(_, _),  \* May(g, p): the nodes that p's imports can open, in graph g
  Must(_, _)  \* Must(g, p): those that opening cannot fail to reach

VARIABLES
  graph,      \* who imports whom; fixed once chosen
  opened,     \* the files opened so far
  complete    \* TRUE once discovery has ended normally

cvars == <<graph, opened, complete>>

CInit == opened = {} /\ complete = FALSE

OpenRootNode ==
  /\ opened = {}
  /\ opened' = {RootNode}
  /\ UNCHANGED <<graph, complete>>

Discover ==
  /\ ~complete
  /\ \E p \in opened : \E q \in May(graph, p) : opened' = opened \union {q}
  /\ UNCHANGED <<graph, complete>>

Complete ==
  /\ RootNode \in opened
  /\ \A p \in opened : Must(graph, p) \subseteq opened
  /\ complete' = TRUE
  /\ UNCHANGED <<graph, opened>>

CNext == OpenRootNode \/ Discover \/ Complete

CSpec == CInit /\ [][CNext]_cvars
=============================================================================
