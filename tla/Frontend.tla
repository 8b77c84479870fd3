----------------------------- MODULE Frontend ------------------------------
(***************************************************************************)
(* The whole of rx-frontend's main(): import discovery, then the strongly  *)
(* connected components of the unit graph in reverse topological order,    *)
(* then the semantic passes on one unit after another.                     *)
(*                                                                         *)
(* llvm::scc_iterator is external: it yields, one by one, the components   *)
(* of the subgraph reachable from the entry node, each after all those it  *)
(* points to; the order is otherwise left open, as is the order of the     *)
(* units within a component.                                               *)
(***************************************************************************)
EXTENDS ImportGraph

Fn == INSTANCE Functions

CONSTANT Before(_, _)   \* operator< of the keys of std::map<Path, ...>

\* The keys that there can be: the spellings under which a file can be opened.
Spelling == {p \in UNION {[1..k -> Component] : k \in 0..PathMax} : Denotes(p) \in File}

\* A strict total order, as std::map asks of its comparison.  (The set is
\* mapped onto itself for TLC to list its elements once.)
ASSUME BeforeAssumption ==
  LET keys == {p : p \in Spelling}
  IN  /\ \A p, q \in keys : /\ p # q => Before(p, q) \/ Before(q, p)
                            /\ ~(Before(p, q) /\ Before(q, p))
      /\ \A p, q, r \in keys : Before(p, q) /\ Before(q, r) => Before(p, r)

VARIABLES
  stage,       \* what main() is doing
  emitted,     \* units of the components that the iterator has yielded
  order,       \* BestEffortVisitOrder
  cycles,      \* the components reported as import cycles, in order
  passes       \* <<unit, pass>> runs of SemaPassManager, in order

fvars == <<stage, emitted, order, cycles, passes>>
allvars == <<vars, fvars>>

-----------------------------------------------------------------------------
(* GraphTraits<TranslationUnitContext *> and the iterator.                 *)

\* FC->begin() of the ordered map: the smallest key.
EntryNode == CHOOSE p \in Keys : \A q \in Keys : p = q \/ Before(p, q)

Children(p) == {units[p].imported[i] : i \in DOMAIN units[p].imported}

\* p and every unit it imports, directly or not.
Reach(p) ==
  LET within[n \in 0..Cardinality(Keys)] ==
        IF n = 0 THEN {p}
        ELSE LET near == within[n - 1] IN near \union UNION {Children(q) : q \in near}
  IN  within[Cardinality(Keys)]

SccOf(p) == {q \in Reach(p) : p \in Reach(q)}

\* The components that the iterator may yield next.
NextSccs ==
  {C \in {SccOf(p) : p \in Reach(EntryNode) \ emitted} :
     \A p \in C : Children(p) \subseteq C \union emitted}

Orderings(C) == Fn!Bijection(1..Cardinality(C), C)

-----------------------------------------------------------------------------
FInit ==
  /\ Init
  /\ stage = "discover"
  /\ emitted = {}
  /\ order = <<>>
  /\ cycles = <<>>
  /\ passes = <<>>

Discovery == Next /\ UNCHANGED fvars

\* traverseFileImports has returned: main() makes the global scope and starts
\* to iterate over the components.
StartScc ==
  /\ pc = "done"
  /\ stage = "discover"
  /\ stage' = "scc"
  /\ UNCHANGED <<vars, emitted, order, cycles, passes>>

\* Faults: units are put in front; the units of a cycle are forgotten; room for
\* the units is made by resize() instead of reserve(), which puts as many null
\* pointers before them (the empty path, which no unit has).
PushFront(o, s) == s \o o
PushSingle(o, s) == IF Len(s) = 1 THEN o \o s ELSE o
PushResized(o, s) == o \o [i \in DOMAIN s |-> <<>>] \o s

\* BestEffortVisitOrder.push_back for each unit of a component.
PushBack(o, s) == o \o s

\* A component of one unit; a unit that imports itself is one, too.
VisitUnit ==
  /\ stage = "scc"
  /\ \E C \in NextSccs :
       /\ Cardinality(C) = 1
       /\ \E p \in C : order' = PushBack(order, <<p>>)
       /\ emitted' = emitted \union C
  /\ UNCHANGED <<vars, stage, cycles, passes>>

\* A larger component: an error and a note per unit, then all its units.
ReportCycle ==
  /\ stage = "scc"
  /\ \E C \in NextSccs :
       /\ Cardinality(C) > 1
       /\ \E s \in Orderings(C) : order' = PushBack(order, s)
       /\ cycles' = Append(cycles, C)
       /\ emitted' = emitted \union C
  /\ UNCHANGED <<vars, stage, passes>>

\* Fault: waits for every unit, those the entry node does not reach included.
StartSemaWhenAllEmitted ==
  /\ stage = "scc"
  /\ Keys \subseteq emitted
  /\ stage' = "sema"
  /\ UNCHANGED <<vars, emitted, order, cycles, passes>>

StartSema ==
  /\ stage = "scc"
  /\ Reach(EntryNode) \subseteq emitted
  /\ stage' = "sema"
  /\ UNCHANGED <<vars, emitted, order, cycles, passes>>

Pipeline == <<"ResolveGlobalType", "ForwardDeclareFunctions", "TypeCheck">>

\* Fault: every pass goes over all the units before the next pass starts.
PassMajor(n) == <<order[(n % Len(order)) + 1], Pipeline[(n \div Len(order)) + 1]>>

\* The unit and pass that come after n runs: SemaPassManager::run goes through
\* the passes registered for a unit before main() takes up the next one.
UnitMajor(n) == <<order[(n \div Len(Pipeline)) + 1], Pipeline[(n % Len(Pipeline)) + 1]>>

\* getProgramAST stops the process when the unit has no AST.
RunPass ==
  /\ stage = "sema"
  /\ Len(passes) < Len(Pipeline) * Len(order)
  /\ LET work == UnitMajor(Len(passes))
     IN  IF units[work[1]].ast
         THEN passes' = Append(passes, work) /\ stage' = stage
         ELSE stage' = "abort" /\ UNCHANGED passes
  /\ UNCHANGED <<vars, emitted, order, cycles>>

Return ==
  /\ stage = "sema"
  /\ Len(passes) = Len(Pipeline) * Len(order)
  /\ stage' = "return"
  /\ UNCHANGED <<vars, emitted, order, cycles, passes>>

FNext ==
  \/ Discovery
  \/ StartScc
  \/ VisitUnit
  \/ ReportCycle
  \/ StartSema
  \/ RunPass
  \/ Return

FSpec == FInit /\ [][FNext]_allvars /\ WF_allvars(FNext)

-----------------------------------------------------------------------------
(* Properties.                                                             *)

FTypeOK ==
  /\ stage \in {"discover", "scc", "sema", "abort", "return"}
  /\ emitted \subseteq Keys
  /\ order \in Seq(Keys)
  /\ cycles \in Seq(SUBSET Keys)
  /\ passes \in Seq(Keys \X {Pipeline[i] : i \in DOMAIN Pipeline})

\* A pass runs on a unit only after all passes have run on every unit it
\* imports, directly or through others, unless both are on a common cycle;
\* and it runs there once.  This is what lets a unit use what the units it
\* imports have put into the shared type context.
DependencyOrder ==
  LET above == [p \in Keys |-> Reach(p) \ SccOf(p)]
  IN  \A i \in DOMAIN passes :
        /\ \A d \in above[passes[i][1]], k \in DOMAIN Pipeline :
             \E j \in 1..(i - 1) : passes[j] = <<d, Pipeline[k]>>
        /\ \A j \in DOMAIN passes : passes[j] = passes[i] => j = i

\* Each unit goes through the passes in the order they are registered, with
\* no other unit in between, and no unit is left without an AST for them.
PassesInOrder ==
  /\ stage # "abort"
  /\ \A i \in DOMAIN passes :
       passes[i][2] # Pipeline[1] =>
         \E k \in 2..Len(Pipeline) :
           passes[i][2] = Pipeline[k] /\ passes[i - 1] = <<passes[i][1], Pipeline[k - 1]>>

\* When main() returns, the reported cycles are exactly the sets of two or
\* more units that import each other, among those the entry node reaches, and
\* exactly the units the entry node reaches have been through the passes.
AllReached ==
  stage = "return" =>
    /\ {cycles[i] : i \in DOMAIN cycles} =
         {C \in {SccOf(p) : p \in Reach(EntryNode)} : Cardinality(C) > 1}
    /\ {passes[i][1] : i \in DOMAIN passes} = Reach(EntryNode)

\* The driver always gets to its return statement, or stops at the root.
Returns == <>(stage = "return" \/ pc = "exit")

\* The root file is among the units analysed: the comment in getEntryNode
\* takes the first key of the map to be the root.
RootAnalysed ==
  stage = "return" => \E i \in DOMAIN passes : passes[i][1] = Root
=============================================================================
