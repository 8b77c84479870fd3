------------------------- MODULE ImportGraphProofs -------------------------
(***************************************************************************)
(* Proofs about import discovery, for every disk, file set, choice of      *)
(* flaky files, path length bound and way the OS resolves a spelling.      *)
(***************************************************************************)
EXTENDS ImportGraph, FiniteSetTheorems, TLAPS

\* Only spellings of existing files have a unit, so a unit can be parsed.
KeysDenoteFiles == \A p \in Keys : Denotes(p) \in File

\* Before the root is opened, and after it failed to open, nothing exists.
NothingYet ==
  pc \in {"start", "exit"} => Keys = {} /\ queue = <<>> /\ rest = <<>>

\* Inside the inner loop, `file` has a unit with an AST and `rest` holds
\* imports of that AST.
InnerLoop ==
  rest # <<>> =>
    /\ file \in Keys
    /\ units[file].ast
    /\ \A i \in DOMAIN rest :
         \E k \in DOMAIN ImportsOf(disk, file) : rest[i] = ImportsOf(disk, file)[k]

IInv == TypeOK /\ NoDoubleOpen /\ KeysDenoteFiles /\ NothingYet /\ InnerLoop

-----------------------------------------------------------------------------
(* Lemmas about paths and the unit table.                                  *)

\* Joining an import to the directory of a path gives a path.
LEMMA AbsFilePathType ==
  ASSUME NEW p \in Path, NEW i \in Import
  PROVE  AbsFilePath(p, i) \in Path
<1>1. BaseDir(p) \in Path
  BY DEF BaseDir, Path
<1> QED BY <1>1 DEF AbsFilePath, Path, Import

\* A unit's imports are a sequence of imports when its key denotes a file.
LEMMA ImportsOfType ==
  ASSUME disk \in [File -> Seq(Import)], NEW p, Denotes(p) \in File
  PROVE  ImportsOf(disk, p) \in Seq(Import)
BY DEF ImportsOf

\* Adding an edge changes no key and no AST.
LEMMA AddImportedDomain ==
  ASSUME NEW us, NEW p \in DOMAIN us, NEW q \in Path,
         \A r \in DOMAIN us : us[r] \in Unit
  PROVE  /\ DOMAIN AddImported(us, p, q) = DOMAIN us
         /\ \A r \in DOMAIN us : /\ AddImported(us, p, q)[r] \in Unit
                                 /\ AddImported(us, p, q)[r].ast = us[r].ast
BY DEF AddImported, Unit

\* Appending to a sequence over S an element of a larger set.
LEMMA AppendType ==
  ASSUME NEW S, NEW T, S \subseteq T, NEW s \in Seq(S), NEW x \in T
  PROVE  Append(s, x) \in Seq(T)
<1>1. s \in Seq(T)
  OBVIOUS
<1> QED BY <1>1

LEMMA NewUnitType == NewUnit \in Unit
BY DEF NewUnit, Unit

-----------------------------------------------------------------------------
(* The inductive invariant.                                                *)

LEMMA InitIInv == Init => IInv
<1> SUFFICES ASSUME Init PROVE IInv
  OBVIOUS
<1> USE DEF Init, Keys
<1>1. TypeOK
  BY PathAssumption DEF TypeOK
<1>2. NoDoubleOpen /\ KeysDenoteFiles /\ NothingYet /\ InnerLoop
  BY DEF NoDoubleOpen, KeysDenoteFiles, NothingYet, InnerLoop
<1> QED BY <1>1, <1>2 DEF IInv

\* The target of the import at the head of `rest` is a path.
LEMMA TargetType ==
  ASSUME TypeOK, rest # <<>>
  PROVE  Target \in Path /\ Head(rest) \in Import /\ Tail(rest) \in Seq(Import)
BY AbsFilePathType DEF TypeOK, Target

\* Going on to the next import keeps `rest` inside the file's imports.
LEMMA InnerLoopTail ==
  ASSUME TypeOK, InnerLoop, rest # <<>>, rest' = Tail(rest),
         UNCHANGED <<disk, file>>, Keys \subseteq Keys',
         \A p \in Keys : units[p].ast => units'[p].ast
  PROVE  InnerLoop'
<1>1. /\ file \in Keys' /\ units'[file].ast
      /\ \A i \in DOMAIN rest :
           \E k \in DOMAIN ImportsOf(disk, file) : rest[i] = ImportsOf(disk, file)[k]
  BY DEF InnerLoop
<1>2. \A i \in DOMAIN rest' : i + 1 \in DOMAIN rest /\ rest'[i] = rest[i + 1]
  BY DEF TypeOK
<1> QED BY <1>1, <1>2 DEF InnerLoop

\* What OpenImport does to the unit table: one fresh unit, and an edge.
LEMMA OpenImportUnits ==
  ASSUME IInv, OpenImport
  PROVE  /\ file \in Keys /\ Target \in Path /\ Denotes(Target) \in File
         /\ Target \notin Keys /\ Target \notin smFiles
         /\ Keys' = Keys \union {Target}
         /\ \A p \in Keys' : units'[p] \in Unit
         /\ \A p \in Keys : units'[p].ast = units[p].ast
         /\ ~units'[Target].ast
         /\ queue \in Seq(Keys) /\ queue' = Append(queue, Target)
<1> USE DEF IInv, OpenImport, AtImport
<1>1. /\ file \in Keys /\ Target \in Path /\ Denotes(Target) \in File
      /\ Target \notin smFiles /\ Target \notin Keys
  BY TargetType DEF InnerLoop, NoDoubleOpen, Known, Keys, MayOpen, Exists
<1> DEFINE us == WithUnit(units, Target)
<1>2. /\ DOMAIN us = Keys \union {Target}
      /\ \A p \in DOMAIN us : us[p] \in Unit
      /\ \A p \in Keys : us[p] = units[p]
      /\ ~us[Target].ast
  BY <1>1, NewUnitType DEF WithUnit, Keys, TypeOK, NewUnit
<1>3. units' = AddImported(us, file, Target) /\ queue' = Append(queue, Target)
  BY <1>1
<1> HIDE DEF us
<1>4. /\ DOMAIN units' = DOMAIN us
      /\ \A p \in DOMAIN us : units'[p] \in Unit /\ units'[p].ast = us[p].ast
  BY <1>1, <1>2, <1>3, AddImportedDomain
<1> QED BY <1>1, <1>2, <1>3, <1>4 DEF Keys, TypeOK

LEMMA NextIInv == IInv /\ [Next]_vars => IInv'
<1> SUFFICES ASSUME IInv, [Next]_vars PROVE IInv'
  OBVIOUS
<1> USE DEF IInv
<1>1. CASE OpenRoot
  <2> USE <1>1 DEF OpenRoot
  <2>1. Root \in Path /\ Denotes(Root) \in File
    BY PathAssumption
  <2>2. Keys' = {Root} /\ units'[Root] = NewUnit /\ Keys = {} /\ smFiles = {}
    BY DEF WithUnit, Keys, NothingYet, NoDoubleOpen
  <2>3. TypeOK'
    <3>1. queue' \in Seq(Keys')
      BY <2>2
    <3> QED BY <2>1, <2>2, <3>1, NewUnitType DEF TypeOK
  <2>4. NoDoubleOpen' /\ KeysDenoteFiles' /\ NothingYet'
    BY <2>1, <2>2 DEF NoDoubleOpen, KeysDenoteFiles, NothingYet
  <2>5. InnerLoop'
    BY DEF InnerLoop, NothingYet
  <2> QED BY <2>3, <2>4, <2>5
<1>2. CASE OpenRootFails
  BY <1>2 DEF OpenRootFails, TypeOK, NoDoubleOpen, KeysDenoteFiles, NothingYet,
              InnerLoop, Keys
<1>3. CASE ParseFront
  <2> USE <1>3 DEF ParseFront, AtLoopHead
  <2>1. Head(queue) \in Keys /\ Tail(queue) \in Seq(Keys)
    BY DEF TypeOK
  <2>2. Keys' = Keys
    BY DEF Keys
  <2>3. \A p \in Keys : units'[p] \in Unit
    BY <2>1 DEF Keys, TypeOK, Unit
  <2>4. units'[Head(queue)].ast
    BY <2>1 DEF Keys, TypeOK, Unit
  <2>5. rest' \in Seq(Import)
    BY <2>1, ImportsOfType DEF TypeOK, KeysDenoteFiles
  <2>6. TypeOK'
    BY <2>1, <2>2, <2>3, <2>5 DEF TypeOK
  <2>7. InnerLoop'
    BY <2>1, <2>2, <2>4, <2>5 DEF InnerLoop
  <2> QED BY <2>2, <2>6, <2>7 DEF NoDoubleOpen, KeysDenoteFiles, NothingYet
<1>4. CASE Finish
  BY <1>4 DEF Finish, AtLoopHead, TypeOK, NoDoubleOpen, KeysDenoteFiles,
              NothingYet, InnerLoop, Keys
<1>5. CASE SkipModule
  <2> USE <1>5 DEF SkipModule, AtImport
  <2>1. TypeOK'
    BY TargetType DEF TypeOK, Keys
  <2>2. InnerLoop'
    BY InnerLoopTail DEF Keys
  <2> QED BY <2>1, <2>2 DEF NoDoubleOpen, KeysDenoteFiles, NothingYet, Keys
<1>6. CASE LinkKnown
  <2> USE <1>6 DEF LinkKnown, AtImport
  <2>1. file \in Keys
    BY DEF InnerLoop
  <2>2. /\ Keys' = Keys
        /\ \A p \in Keys : units'[p] \in Unit /\ units'[p].ast = units[p].ast
    BY <2>1, TargetType, AddImportedDomain DEF TypeOK, Keys
  <2>3. TypeOK'
    BY <2>2, TargetType DEF TypeOK
  <2>4. InnerLoop'
    BY <2>2, InnerLoopTail
  <2> QED BY <2>2, <2>3, <2>4 DEF NoDoubleOpen, KeysDenoteFiles, NothingYet
<1>7. CASE OpenImport
  <2> USE <1>7
  <2>1. /\ Keys' = Keys \union {Target} /\ smFiles' = smFiles \union {Target}
        /\ pc' = "traverse" /\ rest' = Tail(rest) /\ rest # <<>>
        /\ UNCHANGED <<disk, file, diags>>
    BY OpenImportUnits DEF OpenImport, AtImport
  <2>2. TypeOK'
    <3>1. queue' \in Seq(Keys')
      BY <2>1, OpenImportUnits, AppendType
    <3> QED BY <2>1, <3>1, OpenImportUnits, TargetType DEF TypeOK
  <2>3. InnerLoop'
    BY <2>1, OpenImportUnits, InnerLoopTail
  <2>4. NoDoubleOpen' /\ KeysDenoteFiles' /\ NothingYet'
    BY <2>1, OpenImportUnits DEF NoDoubleOpen, KeysDenoteFiles, NothingYet
  <2> QED BY <2>2, <2>3, <2>4
<1>8. CASE ImportFails
  <2> USE <1>8 DEF ImportFails, AtImport
  <2>1. file \in Keys /\ Target \notin smFiles
    BY DEF InnerLoop, NoDoubleOpen, Known, Keys
  <2>2. TypeOK'
    <3>1. Target \in Path /\ Tail(rest) \in Seq(Import)
      BY TargetType
    <3>2. <<file, Target>> \in Path \X Path
      BY <3>1 DEF TypeOK
    <3>3. diags' \in Seq(Path \X Path)
      <4>1. diags \in Seq(Path \X Path) /\ diags' = Append(diags, <<file, Target>>)
        BY <2>1 DEF TypeOK
      <4> QED BY <3>2, <4>1, AppendType
    <3> QED BY <2>1, <3>1, <3>3 DEF TypeOK, Keys
  <2>3. InnerLoop'
    BY InnerLoopTail DEF Keys
  <2> QED BY <2>1, <2>2, <2>3 DEF NoDoubleOpen, KeysDenoteFiles, NothingYet, Keys
<1>9. CASE UNCHANGED vars
  BY <1>9 DEF vars, TypeOK, NoDoubleOpen, KeysDenoteFiles, NothingYet, InnerLoop, Keys
<1> QED BY <1>1, <1>2, <1>3, <1>4, <1>5, <1>6, <1>7, <1>8, <1>9 DEF Next

\* The invariant holds in every behaviour.
THEOREM Invariance == Spec => []IInv
BY InitIInv, NextIInv, PTL DEF Spec

\* TypeOK: the tables, the queue and the loop variables keep their types.
THEOREM TypeCorrect == Spec => []TypeOK
<1>1. IInv => TypeOK
  BY DEF IInv
<1> QED BY <1>1, Invariance, PTL

\* NoDoubleOpen: the assertion in SourceManager::OpenFile never fails.
THEOREM OpenFileAssertion == Spec => []NoDoubleOpen
<1>1. IInv => NoDoubleOpen
  BY DEF IInv
<1> QED BY <1>1, Invariance, PTL

-----------------------------------------------------------------------------
(* The work queue.                                                         *)

LEMMA InitWorkQueue == Init => WorkQueue
BY DEF Init, WorkQueue, Keys

LEMMA NextWorkQueue == IInv /\ WorkQueue /\ [Next]_vars => WorkQueue'
<1> SUFFICES ASSUME IInv, WorkQueue, [Next]_vars PROVE WorkQueue'
  OBVIOUS
<1> USE DEF IInv
<1>1. CASE OpenRoot
  <2> USE <1>1 DEF OpenRoot
  <2>1. Keys' = {Root} /\ ~units'[Root].ast
    BY DEF WithUnit, NewUnit, Keys, NothingYet
  <2>2. queue' = <<Root>>
    OBVIOUS
  <2> QED BY <2>1, <2>2 DEF WorkQueue
<1>2. CASE ParseFront
  <2> USE <1>2 DEF ParseFront, AtLoopHead
  <2>1. queue \in Seq(Keys) /\ queue # <<>>
    BY DEF TypeOK
  <2>2. \A i \in DOMAIN queue' : /\ i + 1 \in DOMAIN queue
                                 /\ queue'[i] = queue[i + 1]
    BY <2>1
  <2>3. \A i \in DOMAIN queue : i = 1 \/ i - 1 \in DOMAIN queue'
    BY <2>1
  <2>4. /\ 1 \in DOMAIN queue /\ Head(queue) = queue[1] /\ Head(queue) \in Keys
        /\ DOMAIN queue \subseteq Nat /\ DOMAIN queue' \subseteq Nat
    BY <2>1
  <2>5. /\ Keys' = Keys
        /\ \A p \in Keys : units'[p].ast = IF p = Head(queue) THEN TRUE ELSE units[p].ast
    BY <2>4 DEF Keys, TypeOK, Unit
  <2>6. \A i, j \in DOMAIN queue' : queue'[i] = queue'[j] => i = j
    BY <2>2, <2>4 DEF WorkQueue
  <2>7. \A i \in DOMAIN queue' : queue'[i] \in Keys /\ ~units'[queue'[i]].ast
    <3> SUFFICES ASSUME NEW i \in DOMAIN queue'
                 PROVE  queue'[i] \in Keys /\ ~units'[queue'[i]].ast
      OBVIOUS
    <3>1. queue'[i] = queue[i + 1] /\ i + 1 \in DOMAIN queue /\ i + 1 # 1
      BY <2>1, <2>2
    <3>2. queue[i + 1] # queue[1]
      BY <2>4, <3>1 DEF WorkQueue
    <3>3. queue[i + 1] \in Keys /\ ~units[queue[i + 1]].ast
      BY <3>1 DEF WorkQueue
    <3> QED BY <2>4, <2>5, <3>1, <3>2, <3>3
  <2>8. ASSUME NEW p \in Keys, ~units'[p].ast
        PROVE  \E i \in DOMAIN queue' : queue'[i] = p
    <3>1. p # queue[1] /\ ~units[p].ast
      BY <2>4, <2>5, <2>8
    <3>2. PICK i \in DOMAIN queue : queue[i] = p
      BY <3>1 DEF WorkQueue
    <3>3. i - 1 \in DOMAIN queue' /\ (i - 1) + 1 = i
      BY <2>3, <2>4, <3>1, <3>2
    <3> QED BY <2>2, <3>2, <3>3
  <2> QED BY <2>5, <2>6, <2>7, <2>8 DEF WorkQueue
<1>3. CASE LinkKnown
  <2> USE <1>3 DEF LinkKnown, AtImport
  <2>1. /\ Keys' = Keys
        /\ \A p \in Keys : units'[p].ast = units[p].ast
    BY TargetType, AddImportedDomain DEF TypeOK, Keys, InnerLoop
  <2> QED BY <2>1 DEF WorkQueue
<1>4. CASE OpenImport
  <2> USE <1>4, OpenImportUnits
  <2>1. /\ DOMAIN queue' = DOMAIN queue \union {Len(queue) + 1}
        /\ \A i \in DOMAIN queue : queue'[i] = queue[i] /\ queue[i] \in Keys
        /\ queue'[Len(queue) + 1] = Target
    OBVIOUS
  <2>2. \A i, j \in DOMAIN queue' : queue'[i] = queue'[j] => i = j
    BY <2>1 DEF WorkQueue
  <2>3. {queue'[i] : i \in DOMAIN queue'} = {queue[i] : i \in DOMAIN queue} \union {Target}
    BY <2>1
  <2> QED BY <2>2, <2>3 DEF WorkQueue
<1>5. CASE \/ OpenRootFails \/ Finish \/ SkipModule \/ ImportFails \/ UNCHANGED vars
  BY <1>5 DEF OpenRootFails, Finish, SkipModule, ImportFails, vars, WorkQueue, Keys
<1> QED BY <1>1, <1>2, <1>3, <1>4, <1>5 DEF Next

\* WorkQueue: every unit is parsed at most once, and none is left unparsed
\* when the queue is empty.
THEOREM WorkQueueCorrect == Spec => []WorkQueue
BY InitWorkQueue, NextWorkQueue, Invariance, PTL DEF Spec

-----------------------------------------------------------------------------
(* Discovery implements the transitive closure.                            *)

\* Once opened, the root stays open.
RootOpen == pc \notin {"start", "exit"} => Root \in Keys

\* t is the target of a file import that the inner loop has still to visit.
Pending(p, t) ==
  p = file /\ \E i \in DOMAIN rest :
                rest[i].type = "File" /\ AbsFilePath(p, rest[i]) = t

\* Every import of a parsed unit that cannot fail is open or pending.
Explored ==
  \A p \in Keys : units[p].ast =>
    \A t \in MustTargets(disk, p) : t \in Keys \/ Pending(p, t)

RInv == IInv /\ WorkQueue /\ RootOpen /\ Explored

\* What stays true of the other imports when the head of `rest` is dropped.
LEMMA PendingTail ==
  ASSUME TypeOK, rest # <<>>, rest' = Tail(rest), UNCHANGED file,
         NEW p, NEW t, Pending(p, t),
         ~(Head(rest).type = "File" /\ t = Target)
  PROVE  Pending(p, t)'
<1>1. PICK i \in DOMAIN rest : rest[i].type = "File" /\ AbsFilePath(p, rest[i]) = t
  BY DEF Pending
<1>2. p = file /\ p = file'
  BY DEF Pending
<1>3. i # 1
  BY <1>1, <1>2 DEF Target, TypeOK
<1>4. i - 1 \in DOMAIN rest' /\ rest'[i - 1] = rest[i]
  BY <1>3 DEF TypeOK
<1> QED BY <1>1, <1>2, <1>4 DEF Pending

LEMMA InitRInv == Init => RInv
<1>1. Init => RootOpen /\ Explored
  BY DEF Init, RootOpen, Explored, Keys
<1> QED BY <1>1, InitIInv, InitWorkQueue DEF RInv

\* A step of the inner loop that keeps the open units and their ASTs and
\* settles the import at the head of `rest` keeps Explored.
LEMMA ExploredTail ==
  ASSUME TypeOK, Explored, rest # <<>>, rest' = Tail(rest),
         UNCHANGED <<disk, file>>, Keys \subseteq Keys',
         \A p \in Keys : units'[p].ast = units[p].ast,
         \A p \in Keys' \ Keys : ~units'[p].ast,
         Head(rest).type = "File" => Target \in Keys' \/ MayFail(Target)
  PROVE  Explored'
<1> SUFFICES ASSUME NEW p \in Keys', units'[p].ast, NEW t \in MustTargets(disk, p)
             PROVE  t \in Keys' \/ Pending(p, t)'
  BY DEF Explored
<1>1. p \in Keys /\ units[p].ast
  OBVIOUS
<1>2. t \in Keys \/ Pending(p, t)
  BY <1>1 DEF Explored
<1>3. ~MayFail(t)
  BY DEF MustTargets
<1>4. CASE Head(rest).type = "File" /\ t = Target
  BY <1>3, <1>4
<1>5. CASE ~(Head(rest).type = "File" /\ t = Target)
  BY <1>2, <1>5, PendingTail
<1> QED BY <1>4, <1>5

LEMMA NextExplored == RInv /\ [Next]_vars => (RootOpen /\ Explored)'
<1> SUFFICES ASSUME RInv, [Next]_vars PROVE RootOpen' /\ Explored'
  OBVIOUS
<1> USE DEF RInv, IInv
<1>1. CASE OpenRoot
  <2>1. Keys' = {Root} /\ ~units'[Root].ast
    BY <1>1 DEF OpenRoot, WithUnit, NewUnit, Keys, NothingYet
  <2> QED BY <2>1 DEF RootOpen, Explored
<1>2. CASE ParseFront
  <2> USE <1>2 DEF ParseFront, AtLoopHead
  <2>1. Head(queue) \in Keys
    BY DEF TypeOK
  <2>2. /\ Keys' = Keys
        /\ \A p \in Keys : p # Head(queue) => units'[p].ast = units[p].ast
    BY <2>1 DEF Keys, TypeOK, Unit
  <2>3. ASSUME NEW p \in Keys, units'[p].ast, NEW t \in MustTargets(disk, p)
        PROVE  t \in Keys \/ Pending(p, t)'
    <3>1. CASE p = Head(queue)
      <4>1. PICK k \in DOMAIN ImportsOf(disk, p) :
              /\ ImportsOf(disk, p)[k].type = "File"
              /\ t = AbsFilePath(p, ImportsOf(disk, p)[k])
        BY <2>3 DEF MustTargets, FileTargets
      <4>2. rest' = ImportsOf(disk, p) /\ file' = p
        BY <3>1
      <4> QED BY <4>1, <4>2 DEF Pending
    <3>2. CASE p # Head(queue)
      <4>1. ~Pending(p, t)
        BY DEF Pending
      <4> QED BY <2>2, <2>3, <3>2, <4>1 DEF Explored
    <3> QED BY <3>1, <3>2
  <2> QED BY <2>2, <2>3 DEF RootOpen, Explored
<1>3. CASE SkipModule
  <2>1. Explored'
    BY <1>3, ExploredTail DEF SkipModule, AtImport, Keys
  <2> QED BY <1>3, <2>1 DEF SkipModule, AtImport, RootOpen, Keys
<1>4. CASE LinkKnown
  <2> USE <1>4 DEF LinkKnown, AtImport
  <2>1. /\ Keys' = Keys
        /\ \A p \in Keys : units'[p].ast = units[p].ast
    BY TargetType, AddImportedDomain DEF TypeOK, Keys, InnerLoop
  <2>2. Target \in Keys
    BY DEF Known, Keys
  <2> QED BY <2>1, <2>2, ExploredTail DEF RootOpen
<1>5. CASE OpenImport
  <2>1. Explored'
    BY <1>5, OpenImportUnits, ExploredTail DEF OpenImport, AtImport
  <2> QED BY <1>5, <2>1, OpenImportUnits DEF OpenImport, AtImport, RootOpen
<1>6. CASE ImportFails
  <2>1. Explored'
    BY <1>6, ExploredTail DEF ImportFails, AtImport, Keys
  <2> QED BY <1>6, <2>1 DEF ImportFails, AtImport, RootOpen, Keys
<1>7. CASE OpenRootFails \/ Finish \/ UNCHANGED vars
  BY <1>7 DEF OpenRootFails, Finish, AtLoopHead, vars, RootOpen, Explored, Pending, Keys
<1> QED BY <1>1, <1>2, <1>3, <1>4, <1>5, <1>6, <1>7 DEF Next

LEMMA RInvariance == Spec => []RInv
<1>1. RInv /\ [Next]_vars => RInv'
  BY NextIInv, NextWorkQueue, NextExplored DEF RInv
<1> QED BY <1>1, InitRInv, PTL DEF Spec

\* The import being visited is one that the abstract graph allows.
LEMMA TargetAllowed ==
  ASSUME IInv, OpenImport
  PROVE  Target \in MayTargets(disk, file)
<1> USE DEF OpenImport, AtImport
<1>1. 1 \in DOMAIN rest /\ rest[1] = Head(rest)
  BY DEF IInv, TypeOK
<1>2. PICK k \in DOMAIN ImportsOf(disk, file) : Head(rest) = ImportsOf(disk, file)[k]
  BY <1>1 DEF IInv, InnerLoop
<1>3. Target \in FileTargets(disk, file)
  BY <1>2 DEF FileTargets, Target
<1> QED BY <1>3 DEF MayTargets

LEMMA InitRefines == Init => Closure!CInit
BY DEF Init, Closure!CInit, Keys

LEMMA NextRefines ==
  RInv /\ [Next]_vars => [Closure!CNext]_<<disk, Keys, pc = "done">>
<1> SUFFICES ASSUME RInv, [Next]_vars
             PROVE  \/ Closure!CNext
                    \/ UNCHANGED <<disk, Keys, pc = "done">>
  BY DEF Closure!cvars
<1> USE DEF RInv
<1>1. CASE OpenRoot
  <2>1. Keys = {} /\ Keys' = {Root}
    BY <1>1 DEF OpenRoot, WithUnit, Keys, IInv, NothingYet
  <2>2. Closure!OpenRootNode
    BY <1>1, <2>1 DEF OpenRoot, Closure!OpenRootNode
  <2> QED BY <2>2 DEF Closure!CNext
<1>2. CASE OpenImport
  <2>1. pc = "traverse" /\ pc' = "traverse" /\ disk' = disk
    BY <1>2, OpenImportUnits DEF OpenImport, AtImport
  <2>2. Closure!Discover
    BY <1>2, <2>1, OpenImportUnits, TargetAllowed DEF Closure!Discover
  <2> QED BY <2>2 DEF Closure!CNext
<1>3. CASE Finish
  <2> USE <1>3 DEF Finish, AtLoopHead
  <2>1. \A p \in Keys : units[p].ast
    BY DEF WorkQueue
  <2>2. \A p \in Keys : MustTargets(disk, p) \subseteq Keys
    BY <2>1 DEF Explored, Pending
  <2>3. Closure!Complete
    BY <2>2 DEF Closure!Complete, RootOpen, Keys
  <2> QED BY <2>3 DEF Closure!CNext
<1>4. CASE LinkKnown
  <2>1. Keys' = Keys
    BY <1>4, TargetType, AddImportedDomain
       DEF LinkKnown, AtImport, IInv, TypeOK, Keys, InnerLoop
  <2> QED BY <1>4, <2>1 DEF LinkKnown
<1>5. CASE ParseFront
  BY <1>5 DEF ParseFront, Keys
<1>6. CASE ImportFails
  <2>1. pc = "traverse" /\ pc' = "traverse"
    BY <1>6 DEF ImportFails, AtImport, IInv, NoDoubleOpen, Known, Keys
  <2> QED BY <1>6, <2>1 DEF ImportFails, Keys
<1>7. CASE OpenRootFails \/ SkipModule \/ UNCHANGED vars
  BY <1>7 DEF OpenRootFails, SkipModule, vars, Keys
<1> QED BY <1>1, <1>2, <1>3, <1>4, <1>5, <1>6, <1>7 DEF Next

\* RefinesClosure: every unit is reachable from the root through imports, and
\* when discovery is over every import that cannot fail has its unit.
THEOREM DiscoveryIsClosure == Spec => RefinesClosure
<1>1. RInv /\ [Next]_vars => [Closure!CNext]_(Closure!cvars)
  BY NextRefines DEF Closure!cvars
<1> QED BY <1>1, InitRefines, RInvariance, PTL DEF Spec, RefinesClosure, Closure!CSpec

-----------------------------------------------------------------------------
(* Every visited import is an edge or a reported failure.                  *)

\* The imports in v that name the file t, seen from p.
Named(v, p, t) == {i \in DOMAIN v : v[i].type = "File" /\ AbsFilePath(p, v[i]) = t}

Count(v, p, t) == Cardinality(Named(v, p, t))

\* `rest` is the end of the imports of the file being visited.
RestIsEnd ==
  file \in Keys /\ units[file].ast =>
    /\ Len(rest) <= Len(ImportsOf(disk, file))
    /\ \A i \in 1..Len(rest) :
         rest[i] = ImportsOf(disk, file)[Len(ImportsOf(disk, file)) - Len(rest) + i]

\* Only the imports of units are reported, and edges lead to units.
TablesAgree ==
  /\ \A i \in DOMAIN diags : diags[i][1] \in Keys
  /\ \A p \in Keys : \A i \in DOMAIN units[p].imported : units[p].imported[i] \in Keys

Balance ==
  \A p \in Keys : \A t :
    Occurrences(units[p].imported, t) + Occurrences(diags, <<p, t>>) = Count(Visited(p), p, t)

AccountInv == RestIsEnd /\ TablesAgree /\ Balance

LEMMA PositionsFinite ==
  ASSUME NEW n \in Nat, NEW T, T \subseteq 1..n
  PROVE  IsFiniteSet(T) /\ Cardinality(T) \in Nat /\ n + 1 \notin T
         /\ Cardinality(T \union {n + 1}) = Cardinality(T) + 1
<1>1. IsFiniteSet(1..n)
  BY FS_Interval
<1>2. IsFiniteSet(T) /\ Cardinality(T) \in Nat
  BY <1>1, FS_Subset, FS_CardinalityType
<1>3. n + 1 \notin T
  OBVIOUS
<1> QED BY <1>2, <1>3, FS_AddElement

LEMMA AppendAt ==
  ASSUME NEW S, NEW s \in Seq(S), NEW x \in S
  PROVE  /\ Append(s, x) \in Seq(S) /\ Len(s) \in Nat
         /\ DOMAIN s = 1..Len(s) /\ DOMAIN Append(s, x) = 1..(Len(s) + 1)
         /\ \A i \in 1..Len(s) : Append(s, x)[i] = s[i]
         /\ Append(s, x)[Len(s) + 1] = x
OBVIOUS

LEMMA OccurrencesAppend ==
  ASSUME NEW S, NEW s \in Seq(S), NEW x \in S, NEW y
  PROVE  /\ Occurrences(s, y) \in Nat
         /\ Occurrences(Append(s, x), y) = Occurrences(s, y) + (IF x = y THEN 1 ELSE 0)
<1> PICK n : n = Len(s)
  OBVIOUS
<1> PICK a : a = Append(s, x)
  OBVIOUS
<1> DEFINE T == {i \in DOMAIN s : s[i] = y}
           U == {i \in DOMAIN a : a[i] = y}
<1>1. /\ n \in Nat /\ DOMAIN s = 1..n /\ DOMAIN a = 1..(n + 1)
      /\ \A i \in 1..n : a[i] = s[i]
      /\ a[n + 1] = x
  BY AppendAt
<1>2. U = IF x = y THEN T \union {n + 1} ELSE T
  <2>1. \A i : i \in 1..(n + 1) <=> i \in 1..n \/ i = n + 1
    BY <1>1
  <2>2. n + 1 \notin 1..n
    BY <1>1
  <2> QED BY <1>1, <2>1, <2>2
<1>3. T \subseteq 1..n
  BY <1>1
<1>4. Occurrences(s, y) = Cardinality(T) /\ Occurrences(a, y) = Cardinality(U)
  BY DEF Occurrences
<1> HIDE DEF T, U
<1>5. Cardinality(T) \in Nat /\ Cardinality(T \union {n + 1}) = Cardinality(T) + 1
  BY <1>1, <1>3, PositionsFinite
<1> QED BY <1>2, <1>4, <1>5

LEMMA CountAppend ==
  ASSUME NEW v \in Seq(Import), NEW x \in Import, NEW p, NEW t
  PROVE  /\ Count(v, p, t) \in Nat
         /\ Count(Append(v, x), p, t) =
              Count(v, p, t) + (IF x.type = "File" /\ AbsFilePath(p, x) = t THEN 1 ELSE 0)
<1> PICK n : n = Len(v)
  OBVIOUS
<1> PICK a : a = Append(v, x)
  OBVIOUS
<1> DEFINE T == Named(v, p, t)
           U == Named(a, p, t)
           Hit(i) == i.type = "File" /\ AbsFilePath(p, i) = t
<1>1. /\ n \in Nat /\ DOMAIN v = 1..n /\ DOMAIN a = 1..(n + 1)
      /\ \A i \in 1..n : a[i] = v[i]
      /\ a[n + 1] = x
  BY AppendAt
<1>2. T = {i \in DOMAIN v : Hit(v[i])} /\ U = {i \in DOMAIN a : Hit(a[i])}
  BY DEF Named
<1> HIDE DEF T, U, Hit
<1>3. U = IF Hit(x) THEN T \union {n + 1} ELSE T
  <2>1. \A i : i \in 1..(n + 1) <=> i \in 1..n \/ i = n + 1
    BY <1>1
  <2>2. n + 1 \notin 1..n
    BY <1>1
  <2> QED BY <1>1, <1>2, <2>1, <2>2
<1>4. T \subseteq 1..n
  BY <1>1, <1>2
<1>5. Count(v, p, t) = Cardinality(T) /\ Count(a, p, t) = Cardinality(U)
  BY DEF Count, T, U
<1>6. Cardinality(T) \in Nat /\ Cardinality(T \union {n + 1}) = Cardinality(T) + 1
  BY <1>1, <1>4, PositionsFinite
<1>7. Count(v, p, t) \in Nat /\ Count(a, p, t) = Count(v, p, t) + (IF Hit(x) THEN 1 ELSE 0)
  BY <1>3, <1>5, <1>6
<1> QED BY <1>7 DEF Hit

LEMMA NoOccurrence ==
  ASSUME NEW s, NEW y, \A i \in DOMAIN s : s[i] # y
  PROVE  Occurrences(s, y) = 0
<1>1. {i \in DOMAIN s : s[i] = y} = {}
  OBVIOUS
<1> QED BY <1>1, FS_EmptySet DEF Occurrences

LEMMA NoCount ==
  ASSUME NEW p, NEW t
  PROVE  Count(<<>>, p, t) = 0
<1>1. Named(<<>>, p, t) = {}
  BY DEF Named
<1> QED BY <1>1, FS_EmptySet DEF Count

LEMMA SubSeqGrow ==
  ASSUME NEW S, NEW s \in Seq(S), NEW m \in Nat, m < Len(s)
  PROVE  /\ SubSeq(s, 1, m) \in Seq(S)
         /\ SubSeq(s, 1, m + 1) = Append(SubSeq(s, 1, m), s[m + 1])
<1>1. SubSeq(s, 1, m) \in Seq(S) /\ Len(SubSeq(s, 1, m)) = m
  OBVIOUS
<1>2. SubSeq(s, 1, m + 1) \in Seq(S) /\ Len(SubSeq(s, 1, m + 1)) = m + 1
  OBVIOUS
<1>3. \A i \in 1..m : SubSeq(s, 1, m)[i] = s[i]
  OBVIOUS
<1>4. \A i \in 1..(m + 1) : SubSeq(s, 1, m + 1)[i] = s[i]
  OBVIOUS
<1> PICK a, b : a = SubSeq(s, 1, m) /\ b = SubSeq(s, 1, m + 1)
  OBVIOUS
<1>5. s[m + 1] \in S
  OBVIOUS
<1>6. /\ Append(a, s[m + 1]) \in Seq(S) /\ Len(Append(a, s[m + 1])) = m + 1
      /\ \A i \in 1..m : Append(a, s[m + 1])[i] = a[i]
      /\ Append(a, s[m + 1])[m + 1] = s[m + 1]
  BY <1>1, <1>5
<1>7. \A i \in 1..(m + 1) : i \in 1..m \/ i = m + 1
  OBVIOUS
<1>8. \A i \in 1..(m + 1) : b[i] = Append(a, s[m + 1])[i]
  BY <1>3, <1>4, <1>6, <1>7
<1>9. b = Append(a, s[m + 1])
  BY <1>2, <1>6, <1>8
<1> QED BY <1>1, <1>9

\* One more import of the file has been visited.
LEMMA VisitedTail ==
  ASSUME IInv, RestIsEnd, rest # <<>>, rest' = Tail(rest), UNCHANGED <<disk, file>>,
         units'[file].ast, NEW p, p = file
  PROVE  /\ Visited(p) \in Seq(Import)
         /\ Visited(p)' = Append(Visited(p), Head(rest))
         /\ RestIsEnd'
<1> PICK imp : imp = ImportsOf(disk, p)
  OBVIOUS
<1> PICK L, k, r : L = Len(imp) /\ k = Len(rest) /\ r = rest
  OBVIOUS
<1>1. /\ p \in Keys /\ units[p].ast /\ r \in Seq(Import) /\ r # <<>>
      /\ imp \in Seq(Import) /\ imp = ImportsOf(disk', p)
  BY ImportsOfType DEF IInv, InnerLoop, KeysDenoteFiles, TypeOK
<1>2. /\ L \in Nat /\ k \in Nat /\ k # 0 /\ k <= L
      /\ \A i \in 1..k : r[i] = imp[L - k + i]
  BY <1>1 DEF RestIsEnd
<1>3. /\ Len(Tail(r)) = k - 1
      /\ \A i \in 1..(k - 1) : Tail(r)[i] = r[i + 1] /\ i + 1 \in 1..k
  BY <1>1, <1>2
<1>4. RestIsEnd'
  <2>1. k - 1 <= L
    BY <1>2
  <2>2. \A i \in 1..(k - 1) : Tail(r)[i] = imp[L - (k - 1) + i]
    <3> SUFFICES ASSUME NEW i \in 1..(k - 1) PROVE Tail(r)[i] = imp[L - (k - 1) + i]
      OBVIOUS
    <3> PICK j : j = i + 1
      OBVIOUS
    <3>1. j \in 1..k /\ Tail(r)[i] = r[j]
      BY <1>3
    <3>2. r[j] = imp[L - k + j]
      BY <1>2, <3>1
    <3>3. L - k + j = L - (k - 1) + i
      BY <1>2
    <3> QED BY <3>1, <3>2, <3>3
  <2>3. rest' = Tail(r) /\ file' = p
    OBVIOUS
  <2> QED BY <1>1, <1>3, <2>1, <2>2, <2>3 DEF RestIsEnd
<1>5. Visited(p) = SubSeq(imp, 1, L - k)
  BY <1>1 DEF Visited
<1>6. Visited(p)' = SubSeq(imp, 1, L - (k - 1))
  <2>1. Len(rest') = k - 1
    BY <1>3
  <2> QED BY <1>1, <2>1 DEF Visited
<1>7. Head(rest) = imp[L - k + 1]
  <2>1. Head(rest) = r[1] /\ 1 \in 1..k
    BY <1>1, <1>2
  <2> QED BY <1>2, <2>1
<1>8. L - k \in Nat /\ L - k < L /\ L - (k - 1) = (L - k) + 1
  BY <1>2
<1>9. /\ SubSeq(imp, 1, L - k) \in Seq(Import)
      /\ SubSeq(imp, 1, (L - k) + 1) = Append(SubSeq(imp, 1, L - k), imp[(L - k) + 1])
  BY <1>1, <1>8, SubSeqGrow
<1> QED BY <1>4, <1>5, <1>6, <1>7, <1>8, <1>9

LEMMA VisitedKept ==
  ASSUME IInv, NEW p \in Keys, p # file, UNCHANGED <<disk, file>>, units'[p].ast = units[p].ast
  PROVE  Visited(p)' = Visited(p)
BY DEF Visited, ImportsOf

LEMMA VisitedType ==
  ASSUME IInv, NEW p \in Keys, p # file
  PROVE  Visited(p) \in Seq(Import)
<1>1. ImportsOf(disk, p) \in Seq(Import)
  BY ImportsOfType DEF IInv, KeysDenoteFiles, TypeOK
<1> QED BY <1>1 DEF Visited

\* The balance after one more import: an edge, a report, or a module.
LEMMA BalanceTail ==
  ASSUME IInv, AccountInv, rest # <<>>, rest' = Tail(rest), UNCHANGED <<disk, file>>,
         Keys \subseteq Keys',
         \A p \in Keys : units'[p].ast = units[p].ast,
         \A p \in Keys' \ Keys : ~units'[p].ast /\ units'[p].imported = <<>>,
         \A p \in Keys : p # file => units'[p].imported = units[p].imported,
         \/ /\ Head(rest).type # "File"
            /\ units'[file].imported = units[file].imported /\ diags' = diags
         \/ /\ Head(rest).type = "File"
            /\ units'[file].imported = Append(units[file].imported, Target) /\ diags' = diags
         \/ /\ Head(rest).type = "File" /\ units'[file].imported = units[file].imported
            /\ diags' = Append(diags, <<file, Target>>)
  PROVE  Balance' /\ RestIsEnd'
<1>1. /\ file \in Keys /\ units[file].ast /\ units'[file].ast
      /\ Target \in Path /\ Head(rest) \in Import /\ file \in Path
      /\ diags \in Seq(Path \X Path) /\ units[file].imported \in Seq(Path)
  BY TargetType DEF IInv, InnerLoop, TypeOK, Unit
<1>2. RestIsEnd /\ TablesAgree /\ Balance
  BY DEF AccountInv
<1> SUFFICES ASSUME NEW p \in Keys', NEW t
             PROVE  Occurrences(units'[p].imported, t) + Occurrences(diags', <<p, t>>) =
                      Count(Visited(p)', p, t)
  <2>1. RestIsEnd'
    BY <1>1, <1>2, VisitedTail
  <2> QED BY <2>1 DEF Balance
<1> PICK D, f, x : D = diags /\ f = file /\ x = Target
  OBVIOUS
<1>3. p # f => Occurrences(diags', <<p, t>>) = Occurrences(D, <<p, t>>)
  <2>1. CASE diags' = D
    BY <2>1
  <2>2. CASE diags' = Append(D, <<f, x>>)
    <3>0. PICK S, y, z : S = Path \X Path /\ y = <<p, t>> /\ z = <<f, x>>
      OBVIOUS
    <3>1. z \in S /\ D \in Seq(S)
      BY <1>1, <3>0
    <3>2. /\ Occurrences(D, y) \in Nat
          /\ Occurrences(Append(D, z), y) = Occurrences(D, y) + (IF z = y THEN 1 ELSE 0)
      BY <3>1, OccurrencesAppend
    <3> QED BY <2>2, <3>0, <3>2
  <2> QED BY <2>1, <2>2
<1>4. CASE p \notin Keys
  <2>1. units'[p].imported = <<>> /\ Visited(p)' = <<>> /\ p # f
    BY <1>1, <1>4 DEF Visited
  <2>2. \A i \in DOMAIN D : D[i] # <<p, t>>
    BY <1>2, <1>4 DEF TablesAgree
  <2>3. Occurrences(<<>>, t) = 0 /\ Occurrences(D, <<p, t>>) = 0 /\ Count(<<>>, p, t) = 0
    BY <2>2, NoOccurrence, NoCount
  <2> QED BY <1>3, <2>1, <2>3
<1>5. CASE p \in Keys /\ p # f
  <2>1. Visited(p)' = Visited(p) /\ units'[p].imported = units[p].imported
    BY <1>5, VisitedKept
  <2> QED BY <1>2, <1>3, <1>5, <2>1 DEF Balance
<1>6. CASE p = f
  <2> PICK h : h = Head(rest)
    OBVIOUS
  <2> PICK v, e : v = Visited(p) /\ e = units[p].imported
    OBVIOUS
  <2>1. v \in Seq(Import) /\ Visited(p)' = Append(v, h)
    BY <1>1, <1>2, <1>6, VisitedTail
  <2>2. h \in Import /\ e \in Seq(Path) /\ x \in Path /\ D \in Seq(Path \X Path)
        /\ <<f, x>> \in Path \X Path
    BY <1>1, <1>6
  <2>3. x = AbsFilePath(p, h)
    BY <1>6 DEF Target
  <2>4. Occurrences(e, t) + Occurrences(D, <<p, t>>) = Count(v, p, t)
    BY <1>1, <1>2, <1>6 DEF Balance
  <2>5. /\ Count(v, p, t) \in Nat
        /\ Count(Append(v, h), p, t) = Count(v, p, t) + (IF h.type = "File" /\ x = t THEN 1 ELSE 0)
    BY <2>1, <2>2, <2>3, CountAppend
  <2>6. /\ Occurrences(e, t) \in Nat
        /\ Occurrences(Append(e, x), t) = Occurrences(e, t) + (IF x = t THEN 1 ELSE 0)
    BY <2>2, OccurrencesAppend
  <2>7. /\ Occurrences(D, <<p, t>>) \in Nat
        /\ Occurrences(Append(D, <<f, x>>), <<p, t>>) =
             Occurrences(D, <<p, t>>) + (IF <<f, x>> = <<p, t>> THEN 1 ELSE 0)
    <3>0. PICK S, y, z : S = Path \X Path /\ y = <<p, t>> /\ z = <<f, x>>
      OBVIOUS
    <3>1. z \in S /\ D \in Seq(S)
      BY <2>2, <3>0
    <3>2. /\ Occurrences(D, y) \in Nat
          /\ Occurrences(Append(D, z), y) = Occurrences(D, y) + (IF z = y THEN 1 ELSE 0)
      BY <3>1, OccurrencesAppend
    <3> QED BY <3>0, <3>2
  <2>8. <<f, x>> = <<p, t>> <=> x = t
    BY <1>6
  <2>9. CASE h.type # "File"
    <3>1. units'[p].imported = e /\ diags' = D
      BY <1>6, <2>9
    <3> QED BY <2>1, <2>4, <2>5, <2>9, <3>1
  <2>10. CASE h.type = "File" /\ units'[p].imported = Append(e, x) /\ diags' = D
    BY <2>1, <2>4, <2>5, <2>6, <2>7, <2>10
  <2>11. CASE h.type = "File" /\ units'[p].imported = e /\ diags' = Append(D, <<f, x>>)
    BY <2>1, <2>4, <2>5, <2>6, <2>7, <2>8, <2>11
  <2> QED BY <1>6, <2>9, <2>10, <2>11
<1> QED BY <1>4, <1>5, <1>6

LEMMA InitAccount == Init => AccountInv
<1> SUFFICES ASSUME Init PROVE AccountInv
  OBVIOUS
<1>1. Keys = {} /\ diags = <<>>
  BY DEF Init, Keys
<1> QED BY <1>1 DEF AccountInv, RestIsEnd, TablesAgree, Balance

LEMMA AddedEdge ==
  ASSUME NEW us, NEW p \in DOMAIN us, NEW q,
         \A r \in DOMAIN us : us[r] \in Unit
  PROVE  /\ \A r \in DOMAIN us : r # p => AddImported(us, p, q)[r] = us[r]
         /\ AddImported(us, p, q)[p].imported = Append(us[p].imported, q)
BY DEF AddImported, Unit

\* Where an edge is added, the edges still lead to units.
LEMMA EdgesKept ==
  ASSUME NEW K, NEW s \in Seq(Path), NEW q \in Path, q \in K, \A i \in DOMAIN s : s[i] \in K
  PROVE  \A i \in DOMAIN Append(s, q) : Append(s, q)[i] \in K
<1>1. /\ DOMAIN s = 1..Len(s) /\ DOMAIN Append(s, q) = 1..(Len(s) + 1) /\ Len(s) \in Nat
      /\ \A i \in 1..Len(s) : Append(s, q)[i] = s[i]
      /\ Append(s, q)[Len(s) + 1] = q
  BY AppendAt
<1> QED BY <1>1

LEMMA NextAccount == IInv /\ WorkQueue /\ AccountInv /\ [Next]_vars => AccountInv'
<1> SUFFICES ASSUME IInv, WorkQueue, AccountInv, [Next]_vars PROVE AccountInv'
  OBVIOUS
<1>0. TypeOK /\ RestIsEnd /\ TablesAgree /\ Balance /\ IInv'
  BY NextIInv DEF IInv, AccountInv
<1>1. CASE OpenRoot
  <2>1. /\ Keys = {} /\ Keys' = {Root} /\ units'[Root] = NewUnit /\ diags' = diags
    BY <1>1 DEF OpenRoot, WithUnit, Keys, IInv, NothingYet
  <2>2. \A i \in DOMAIN diags : FALSE
    BY <1>0, <2>1 DEF TablesAgree
  <2>3. \A t : /\ Occurrences(units'[Root].imported, t) = 0
               /\ Occurrences(diags', <<Root, t>>) = 0 /\ Count(Visited(Root)', Root, t) = 0
    <3> TAKE t
    <3>1. units'[Root].imported = <<>> /\ Visited(Root)' = <<>>
      BY <2>1 DEF NewUnit, Visited
    <3>2. Occurrences(<<>>, t) = 0 /\ Count(<<>>, Root, t) = 0
      BY NoOccurrence, NoCount
    <3>3. Occurrences(diags, <<Root, t>>) = 0
      BY <2>2, NoOccurrence
    <3> QED BY <2>1, <3>1, <3>2, <3>3
  <2>4. Balance'
    BY <2>1, <2>3 DEF Balance
  <2>5. RestIsEnd' /\ TablesAgree'
    BY <2>1, <2>2 DEF RestIsEnd, TablesAgree, NewUnit
  <2> QED BY <2>4, <2>5 DEF AccountInv
<1>2. CASE ParseFront
  <2> PICK h : h = Head(queue)
    OBVIOUS
  <2>1. /\ h \in Keys /\ ~units[h].ast /\ rest = <<>> /\ UNCHANGED <<disk, diags>>
        /\ file' = h /\ rest' = ImportsOf(disk, h)
        /\ units' = [units EXCEPT ![h].ast = TRUE]
    <3>1. queue \in Seq(Keys) /\ queue # <<>>
      BY <1>0, <1>2 DEF ParseFront, TypeOK
    <3>2. 1 \in DOMAIN queue /\ h = queue[1]
      BY <3>1
    <3>3. h \in Keys /\ ~units[h].ast
      BY <3>2 DEF WorkQueue
    <3> QED BY <1>2, <3>3 DEF ParseFront, AtLoopHead
  <2>2. /\ Keys' = Keys
        /\ \A p \in Keys : /\ units'[p].imported = units[p].imported
                           /\ units'[p].ast = IF p = h THEN TRUE ELSE units[p].ast
    BY <1>0, <2>1 DEF Keys, TypeOK, Unit
  <2>3. ImportsOf(disk, h) \in Seq(Import)
    BY <1>0, <2>1, ImportsOfType DEF IInv, KeysDenoteFiles, TypeOK
  <2>4. Visited(h) = <<>> /\ Visited(h)' = <<>>
    <3>1. PICK imp : imp = ImportsOf(disk, h)
      OBVIOUS
    <3>2. /\ imp \in Seq(Import) /\ Len(imp) - Len(imp) = 0 /\ SubSeq(imp, 1, 0) = <<>>
      BY <2>3, <3>1
    <3>3. Visited(h)' = SubSeq(imp, 1, Len(imp) - Len(imp))
      BY <2>1, <2>2, <3>1 DEF Visited, ImportsOf
    <3> QED BY <2>1, <3>2, <3>3 DEF Visited
  <2>5. ASSUME NEW p \in Keys, p # h PROVE Visited(p)' = Visited(p)
    <3>1. PICK imp : imp = ImportsOf(disk, p)
      OBVIOUS
    <3>2. imp \in Seq(Import)
      BY <1>0, <3>1, ImportsOfType DEF IInv, KeysDenoteFiles, TypeOK
    <3>3. Len(imp) - Len(rest) = Len(imp) /\ SubSeq(imp, 1, Len(imp)) = imp
      BY <2>1, <3>2
    <3>4. Visited(p) = IF units[p].ast THEN imp ELSE <<>>
      BY <3>1, <3>3 DEF Visited
    <3>5. Visited(p)' = IF units[p].ast THEN imp ELSE <<>>
      BY <2>1, <2>2, <2>5, <3>1 DEF Visited, ImportsOf
    <3> QED BY <3>4, <3>5
  <2>6. Balance'
    <3> SUFFICES ASSUME NEW p \in Keys, NEW t
                 PROVE  Occurrences(units'[p].imported, t) + Occurrences(diags', <<p, t>>) =
                          Count(Visited(p)', p, t)
      BY <2>2 DEF Balance
    <3>1. Visited(p)' = Visited(p)
      BY <2>4, <2>5
    <3> QED BY <1>0, <2>1, <2>2, <3>1 DEF Balance
  <2>7. RestIsEnd'
    <3>1. PICK imp : imp = ImportsOf(disk, h)
      OBVIOUS
    <3>2. Len(imp) \in Nat /\ \A i \in 1..Len(imp) : imp[i] = imp[Len(imp) - Len(imp) + i]
      BY <2>3, <3>1
    <3>3. rest' = imp /\ ImportsOf(disk', file') = imp
      BY <2>1, <3>1
    <3> QED BY <3>2, <3>3 DEF RestIsEnd
  <2>8. TablesAgree'
    BY <1>0, <2>1, <2>2 DEF TablesAgree
  <2> QED BY <2>6, <2>7, <2>8 DEF AccountInv
<1>3. CASE SkipModule
  <2>1. Head(rest).type # "File" /\ rest # <<>> /\ rest' = Tail(rest)
        /\ UNCHANGED <<disk, file, units, diags>>
    BY <1>3 DEF SkipModule, AtImport
  <2>2. Keys' = Keys
    BY <2>1 DEF Keys
  <2>3. Balance' /\ RestIsEnd'
    BY <2>1, <2>2, BalanceTail
  <2> QED BY <1>0, <2>1, <2>2, <2>3 DEF AccountInv, TablesAgree
<1>4. CASE LinkKnown
  <2>1. /\ Head(rest).type = "File" /\ rest # <<>> /\ rest' = Tail(rest)
        /\ UNCHANGED <<disk, file, diags>> /\ Target \in Keys
        /\ units' = AddImported(units, file, Target)
    BY <1>4 DEF LinkKnown, AtImport, Known, Keys
  <2>2. file \in Keys /\ Target \in Path /\ units[file].imported \in Seq(Path)
    BY <1>0, <2>1, TargetType DEF IInv, InnerLoop, TypeOK, Unit
  <2>3. Keys' = Keys /\ \A p \in Keys : units'[p].ast = units[p].ast
    BY <1>0, <2>1, <2>2, AddImportedDomain DEF TypeOK, Keys
  <2>4. /\ \A p \in Keys : p # file => units'[p].imported = units[p].imported
        /\ units'[file].imported = Append(units[file].imported, Target)
    BY <1>0, <2>1, <2>2, AddedEdge DEF TypeOK, Keys
  <2>5. Balance' /\ RestIsEnd'
    BY <2>1, <2>3, <2>4, BalanceTail
  <2>6. \A i \in DOMAIN units'[file].imported : units'[file].imported[i] \in Keys
    BY <1>0, <2>1, <2>2, <2>4, EdgesKept DEF TablesAgree
  <2>7. TablesAgree'
    BY <1>0, <2>1, <2>3, <2>4, <2>6 DEF TablesAgree
  <2> QED BY <2>5, <2>7 DEF AccountInv
<1>5. CASE OpenImport
  <2> DEFINE us == WithUnit(units, Target)
  <2>1. /\ Head(rest).type = "File" /\ rest # <<>> /\ rest' = Tail(rest)
        /\ UNCHANGED <<disk, file, diags>>
    BY <1>5 DEF OpenImport, AtImport
  <2>2. /\ file \in Keys /\ Target \in Path /\ Target \notin Keys /\ Target \notin smFiles
        /\ Keys' = Keys \union {Target} /\ \A p \in Keys : units'[p].ast = units[p].ast
        /\ ~units'[Target].ast
    BY <1>5, OpenImportUnits
  <2>3. units' = AddImported(us, file, Target)
    BY <1>5, <2>2 DEF OpenImport
  <2>4. /\ DOMAIN us = Keys \union {Target}
        /\ \A p \in Keys : us[p] = units[p]
        /\ us[Target] = NewUnit
    BY <2>2 DEF WithUnit, Keys
  <2>5. \A p \in DOMAIN us : us[p] \in Unit
    BY <1>0, <2>4, NewUnitType DEF TypeOK
  <2> HIDE DEF us
  <2>6. /\ \A p \in DOMAIN us : p # file => units'[p] = us[p]
        /\ units'[file].imported = Append(us[file].imported, Target)
    BY <2>2, <2>3, <2>4, <2>5, AddedEdge
  <2>7. /\ \A p \in Keys : p # file => units'[p].imported = units[p].imported
        /\ units'[file].imported = Append(units[file].imported, Target)
        /\ units'[Target].imported = <<>>
    BY <2>2, <2>4, <2>6 DEF NewUnit
  <2>8. Balance' /\ RestIsEnd'
    BY <2>1, <2>2, <2>7, BalanceTail
  <2>9. \A i \in DOMAIN units'[file].imported : units'[file].imported[i] \in Keys'
    <3>1. /\ units[file].imported \in Seq(Path)
          /\ \A i \in DOMAIN units[file].imported : units[file].imported[i] \in Keys'
      BY <1>0, <2>2 DEF TablesAgree, TypeOK, Unit
    <3> QED BY <2>2, <2>7, <3>1, EdgesKept
  <2>10. TablesAgree'
    <3>1. \A i \in DOMAIN diags' : diags'[i][1] \in Keys'
      BY <1>0, <2>1, <2>2 DEF TablesAgree
    <3>2. ASSUME NEW p \in Keys' PROVE \A i \in DOMAIN units'[p].imported : units'[p].imported[i] \in Keys'
      <4>1. CASE p = file
        BY <2>9, <4>1
      <4>2. CASE p = Target
        BY <2>7, <4>2
      <4>3. CASE p \in Keys /\ p # file
        BY <1>0, <2>2, <2>7, <4>3 DEF TablesAgree
      <4> QED BY <2>2, <3>2, <4>1, <4>2, <4>3
    <3> QED BY <3>1, <3>2 DEF TablesAgree
  <2> QED BY <2>8, <2>10 DEF AccountInv
<1>6. CASE ImportFails
  <2>1. /\ Head(rest).type = "File" /\ rest # <<>> /\ rest' = Tail(rest)
        /\ UNCHANGED <<disk, file, units>> /\ diags' = Append(diags, <<file, Target>>)
    BY <1>6 DEF ImportFails, AtImport, IInv, NoDoubleOpen, Known, Keys
  <2>2. Keys' = Keys /\ file \in Keys /\ Target \in Path /\ file \in Path
    BY <1>0, <2>1, TargetType DEF Keys, IInv, InnerLoop, TypeOK
  <2>3. Balance' /\ RestIsEnd'
    BY <2>1, <2>2, BalanceTail
  <2>4. \A i \in DOMAIN diags' : diags'[i][1] \in Keys
    <3>1. PICK S, D, z : S = Path \X Path /\ D = diags /\ z = <<file, Target>>
      OBVIOUS
    <3>2. D \in Seq(S) /\ z \in S /\ z[1] \in Keys /\ \A i \in DOMAIN D : D[i][1] \in Keys
      BY <1>0, <2>2, <3>1 DEF TypeOK, TablesAgree
    <3>3. /\ Len(D) \in Nat
          /\ DOMAIN D = 1..Len(D) /\ DOMAIN Append(D, z) = 1..(Len(D) + 1)
          /\ \A i \in 1..Len(D) : Append(D, z)[i] = D[i]
          /\ Append(D, z)[Len(D) + 1] = z
      BY <3>2, AppendAt
    <3>4. \A i \in DOMAIN Append(D, z) : Append(D, z)[i][1] \in Keys
      BY <3>2, <3>3
    <3> QED BY <2>1, <3>1, <3>4
  <2>5. TablesAgree'
    BY <1>0, <2>1, <2>2, <2>4 DEF TablesAgree
  <2> QED BY <2>3, <2>5 DEF AccountInv
<1>7. CASE OpenRootFails \/ Finish \/ UNCHANGED vars
  <2>1. UNCHANGED <<disk, units, file, rest, diags>>
    BY <1>7 DEF OpenRootFails, Finish, vars
  <2>2. Keys' = Keys /\ \A p : Visited(p)' = Visited(p)
    BY <2>1 DEF Keys, Visited, ImportsOf
  <2> QED BY <1>0, <2>1, <2>2 DEF AccountInv, RestIsEnd, TablesAgree, Balance, ImportsOf
<1> QED BY <1>1, <1>2, <1>3, <1>4, <1>5, <1>6, <1>7 DEF Next

\* ImportsAccountedFor: each file import that the loop has been through is an
\* edge or a reported failure, as often as it is written.
THEOREM ImportsAreAccountedFor == Spec => []ImportsAccountedFor
<1>1. IInv /\ WorkQueue /\ AccountInv /\ [Next]_vars => (IInv /\ WorkQueue /\ AccountInv)'
  BY NextIInv, NextWorkQueue, NextAccount
<1>2. Init => IInv /\ WorkQueue /\ AccountInv
  BY InitIInv, InitWorkQueue, InitAccount
<1>3. IInv /\ WorkQueue /\ AccountInv => ImportsAccountedFor
  BY DEF AccountInv, TablesAgree, Balance, Count, Named, ImportsAccountedFor
<1> QED BY <1>1, <1>2, <1>3, PTL DEF Spec
=============================================================================
