---------------------------- MODULE ImportGraph ----------------------------
(***************************************************************************)
(* Discovery of the translation units of one compilation.                  *)
(*                                                                         *)
(* rx-frontend opens the root file, makes it the first TranslationUnit,    *)
(* and TranslationUnitContext::traverseFileImports parses unit after unit  *)
(* from a FIFO queue, opening every file that a `import "path"` names and  *)
(* that has no unit yet.  Two tables are kept side by side:                *)
(* SourceManager::OpenFiles (buffers) and TranslationUnitContext::OpenFiles*)
(* (units), both keyed by the joined path, which is never normalised.      *)
(*                                                                         *)
(* A path is the sequence of its components ("." and ".." included); a     *)
(* file's text is reduced to its list of imports.                          *)
(***************************************************************************)
EXTENDS Naturals, Sequences, FiniteSets

CONSTANTS
  Component,   \* path components
  File,        \* canonical paths of the source files that exist
  Root,        \* the canonical path of the input file, from real_path
  Disks,       \* the possible contents of the disk
  Flaky,       \* files whose opening may fail although they exist
  PathMax,     \* longest path, in components, that the OS accepts
  Denotes(_)   \* the canonical path that the OS makes of a spelling

Path == Seq(Component)

ImportType == {"File", "Module"}

Import == [type : ImportType, path : Path]

ASSUME PathAssumption ==
  /\ File \subseteq Path
  /\ Root \in File
  /\ Flaky \subseteq File
  /\ Disks \subseteq [File -> Seq(Import)]
  /\ PathMax \in Nat
  /\ Len(Root) \in 1..PathMax
  /\ Denotes(Root) = Root

VARIABLES
  disk,        \* the imports written in each file; chosen once
  pc,          \* where main() is
  smFiles,     \* keys of SourceManager::OpenFiles
  units,       \* TranslationUnitContext::OpenFiles: key -> unit
  queue,       \* local Queue of traverseFileImports
  file,        \* local File: the unit whose imports are being visited
  rest,        \* its imports still to be visited
  diags        \* the failed imports reported to DC, with their importer

vars == <<disk, pc, smFiles, units, queue, file, rest, diags>>

-----------------------------------------------------------------------------
(* Paths and the file system.                                              *)

\* SourceFile::getBaseDir: the parent path, a purely lexical operation.
BaseDir(p) == SubSeq(p, 1, Len(p) - 1)

\* BaseDir joined with the import path by sys::path::append: "." and ".."
\* are kept, and leading separators of the import path are dropped.
AbsFilePath(p, import) == BaseDir(p) \o import.path

\* MemoryBuffer::getFile finds a regular file under this spelling.
Exists(p) == Len(p) <= PathMax /\ Denotes(p) \in File

MayOpen(p) == Exists(p)
MayFail(p) == ~Exists(p) \/ Denotes(p) \in Flaky

-----------------------------------------------------------------------------
(* The unit table.                                                         *)

Keys == DOMAIN units

\* A fresh TranslationUnit: no AST, no imported units.
NewUnit == [ast |-> FALSE, imported |-> <<>>]

Unit == [ast : BOOLEAN, imported : Seq(Path)]

\* Fault: the unit goes under the resolved path, the buffer under the joined.
WithUnitResolved(us, p) == [q \in DOMAIN us \union {Denotes(p)} |->
                              IF q = Denotes(p) THEN NewUnit ELSE us[q]]

WithUnit(us, p) == [q \in DOMAIN us \union {p} |->
                      IF q = p THEN NewUnit ELSE us[q]]

\* Fault: parsed units are forgotten.
KnownWhileQueued(us, p) == p \in DOMAIN us /\ ~us[p].ast

Known(us, p) == p \in DOMAIN us

\* getProgramAST()->getImports() of the unit under key p.
ImportsOf(d, p) == d[Denotes(p)]

Init ==
  /\ disk \in Disks
  /\ pc = "start"
  /\ smFiles = {}
  /\ units = [p \in {} |-> NewUnit]
  /\ queue = <<>>
  /\ file = Root
  /\ rest = <<>>
  /\ diags = <<>>

(***************************************************************************)
(* main(): open the root and enter traverseFileImports, or exit(1).        *)
(***************************************************************************)
OpenRoot ==
  /\ pc = "start"
  /\ smFiles' = smFiles \union {Root}
  /\ units' = WithUnit(units, Root)
  /\ queue' = <<Root>>
  /\ pc' = "traverse"
  /\ UNCHANGED <<disk, file, rest, diags>>

OpenRootFails ==
  /\ pc = "start"
  /\ MayFail(Root)
  /\ pc' = "exit"
  /\ UNCHANGED <<disk, smFiles, units, queue, file, rest, diags>>

(***************************************************************************)
(* The outer loop: take the front unit, parse it, pop it.                  *)
(***************************************************************************)
AtLoopHead == pc = "traverse" /\ rest = <<>>

ParseFront ==
  /\ AtLoopHead
  /\ queue # <<>>
  /\ file' = Head(queue)
  /\ units' = [units EXCEPT ![Head(queue)].ast = TRUE]
  /\ queue' = Tail(queue)
  /\ rest' = ImportsOf(disk, Head(queue))
  /\ UNCHANGED <<disk, pc, smFiles, diags>>

Finish ==
  /\ AtLoopHead
  /\ queue = <<>>
  /\ pc' = "done"
  /\ UNCHANGED <<disk, smFiles, units, queue, file, rest, diags>>

(***************************************************************************)
(* The inner loop: one iteration per import.                               *)
(***************************************************************************)
AtImport(type) ==
  /\ pc = "traverse"
  /\ rest # <<>>
  /\ Head(rest).type = type
  /\ rest' = Tail(rest)

Target == AbsFilePath(file, Head(rest))

\* Fault: importer and imported swapped.
AddImporter(us, p, q) == [us EXCEPT ![q].imported = Append(@, p)]

AddImported(us, p, q) == [us EXCEPT ![p].imported = Append(@, q)]

\* Fault: `break` instead of `continue` on a module import.
BreakAtModule ==
  /\ pc = "traverse"
  /\ rest # <<>>
  /\ Head(rest).type = "Module"
  /\ rest' = <<>>
  /\ UNCHANGED <<disk, pc, smFiles, units, queue, file, diags>>

SkipModule ==
  /\ AtImport("Module")
  /\ UNCHANGED <<disk, pc, smFiles, units, queue, file, diags>>

\* Fault: Queue.push outside the conditional.
LinkAndQueueKnown ==
  /\ AtImport("File")
  /\ Known(units, Target)
  /\ units' = AddImported(units, file, Target)
  /\ queue' = Append(queue, Target)
  /\ UNCHANGED <<disk, pc, smFiles, file, diags>>

\* The unit exists: only the edge is added.
LinkKnown ==
  /\ AtImport("File")
  /\ Known(units, Target)
  /\ units' = AddImported(units, file, Target)
  /\ UNCHANGED <<disk, pc, smFiles, queue, file, diags>>

\* SM.OpenFile on a path without a unit: its assertion stops the process if
\* the path already has a buffer, otherwise a buffer, a unit, a queue entry
\* and the edge are added.
OpenImport ==
  /\ AtImport("File")
  /\ ~Known(units, Target)
  /\ MayOpen(Target)
  /\ IF Target \in smFiles
     THEN pc' = "abort" /\ UNCHANGED <<smFiles, units, queue>>
     ELSE /\ smFiles' = smFiles \union {Target}
          /\ units' = AddImported(WithUnit(units, Target), file, Target)
          /\ queue' = Append(queue, Target)
          /\ pc' = pc
  /\ UNCHANGED <<disk, file, diags>>

\* SM.OpenFile returns an error: reported, and no unit or edge is made.
ImportFails ==
  /\ AtImport("File")
  /\ ~Known(units, Target)
  /\ MayFail(Target)
  /\ IF Target \in smFiles
     THEN pc' = "abort" /\ UNCHANGED diags
     ELSE /\ diags' = Append(diags, <<file, Target>>)
          /\ pc' = pc
  /\ UNCHANGED <<disk, smFiles, units, queue, file>>

Next ==
  \/ OpenRoot
  \/ OpenRootFails
  \/ ParseFront
  \/ Finish
  \/ SkipModule
  \/ LinkKnown
  \/ OpenImport
  \/ ImportFails

\* The program is a single thread that runs until it returns.
Fairness == WF_vars(Next)

Spec == Init /\ [][Next]_vars /\ Fairness

-----------------------------------------------------------------------------
(* Properties.                                                             *)

\* Every variable has the type its declaration in the source gives it.
TypeOK ==
  /\ disk \in [File -> Seq(Import)]
  /\ pc \in {"start", "exit", "traverse", "abort", "done"}
  /\ smFiles \in SUBSET Path
  /\ Keys \subseteq Path
  /\ \A p \in Keys : units[p] \in Unit
  /\ queue \in Seq(Keys)
  /\ file \in Path
  /\ rest \in Seq(Import)
  /\ diags \in Seq(Path \X Path)

\* The two tables, filled by different classes, never disagree, so the
\* assertion "File is already open" of SourceManager::OpenFile cannot fail:
\* not even for an import that failed before and is tried again.
NoDoubleOpen == smFiles = Keys /\ pc # "abort"

\* The queue holds exactly the units without an AST, each once: no unit is
\* parsed twice and, when the queue runs dry, none is left unparsed (for the
\* passes would then stop at the assertion in getProgramAST).
WorkQueue ==
  /\ \A i, j \in DOMAIN queue : queue[i] = queue[j] => i = j
  /\ {queue[i] : i \in DOMAIN queue} = {p \in Keys : ~units[p].ast}

Occurrences(s, x) == Cardinality({i \in DOMAIN s : s[i] = x})

\* The imports of p that the inner loop has been through.
Visited(p) ==
  IF ~units[p].ast THEN <<>>
  ELSE IF p # file THEN ImportsOf(disk, p)
  ELSE SubSeq(ImportsOf(disk, p), 1, Len(ImportsOf(disk, p)) - Len(rest))

\* Of the file imports visited so far, each one is an edge of the graph or a
\* reported failure, never both and never neither, even when several imports
\* have the same target; and no edge points to a unit that does not exist.
ImportsAccountedFor ==
  \A p \in Keys :
    /\ \A i \in DOMAIN units[p].imported : units[p].imported[i] \in Keys
    /\ \A t \in {AbsFilePath(p, ImportsOf(disk, p)[i]) :
                     i \in DOMAIN ImportsOf(disk, p)} :
         Occurrences(units[p].imported, t) + Occurrences(diags, <<p, t>>) =
           Cardinality({i \in DOMAIN Visited(p) :
                          /\ Visited(p)[i].type = "File"
                          /\ AbsFilePath(p, Visited(p)[i]) = t})

FileTargets(d, p) ==
  {AbsFilePath(p, ImportsOf(d, p)[i]) :
     i \in {k \in DOMAIN ImportsOf(d, p) : ImportsOf(d, p)[k].type = "File"}}

MayTargets(d, p)  == {t \in FileTargets(d, p) : MayOpen(t)}
MustTargets(d, p) == {t \in FileTargets(d, p) : ~MayFail(t)}

Closure == INSTANCE ImportClosure WITH
             RootNode <- Root, May <- MayTargets, Must <- MustTargets,
             graph <- disk, opened <- Keys, complete <- (pc = "done")

\* Discovery opens only what is reachable through imports and ends only when
\* everything reachable that can be opened has been: the queue, the tables
\* and the retries implement the transitive closure.
RefinesClosure == Closure!CSpec

\* No source file is opened twice, which is what the assertion message of
\* SourceManager::OpenFile says.
FileOpenedOnce ==
  \A p, q \in smFiles : Denotes(p) = Denotes(q) => p = q
=============================================================================
