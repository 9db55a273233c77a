------------------------------ MODULE TestPlan ------------------------------
(***************************************************************************)
(* Which tests one invocation runs: the positional files, `--project`, the *)
(* path pattern and the three layers of the typecheck settings, turned     *)
(* into jobs for Roblox and Type Tests for the host.  Multi mode           *)
(* (src/run/test-plan.ts) and workspace mode                               *)
(* (src/workspace/test-selection.ts) answer the same request by different  *)
(* rules; both are here, as operators over a request `a`:                  *)
(*                                                                         *)
(*   cli, root, project  the typecheck settings; project is per project    *)
(*   names    projects `--project` names, {} when the flag is absent; a    *)
(*            name no project has is Unknown                               *)
(*   files    the positional files, {} when there are none                 *)
(*   pattern  the files `--testPathPattern` matches, every file without it *)
(*   disk     the test files that exist, what the exclude globs drop left  *)
(*            out                                                          *)
(*   lenient  the packages with passWithNoTests, all or none in multi mode *)
(*                                                                         *)
(* Globs, regular expressions and paths are abstracted to Owners: the      *)
(* projects under whose roots, and in whose include, a file lies.          *)
(***************************************************************************)
EXTENDS JobOrder, Sequences

CONSTANTS
  ProjectCount,     \* projects are 1..ProjectCount, in resolved order
  PkgOf,            \* the package of each project
  TestFiles,        \* every file a request can name
  TypeTests,        \* those whose name ends in -d
  Owners            \* the projects each file belongs to

Projects == 1..ProjectCount
Packages == {PkgOf[p] : p \in Projects}
Unknown == 0

ASSUME PlanAssumption ==
  /\ ProjectCount \in Nat \ {0}
  /\ DOMAIN PkgOf = Projects
  /\ TypeTests \subseteq TestFiles
  /\ Owners \in [TestFiles -> SUBSET Projects]

Owned(p) == {f \in TestFiles : p \in Owners[f]}

(***************************************************************************)
(* The typecheck settings.  The first layer that sets a field wins, and    *)
(* `only` turns the pass on.                                               *)
(***************************************************************************)
FirstSet(layers) ==
  \E i \in DOMAIN layers :
    layers[i] = "yes" /\ \A j \in 1..(i - 1) : layers[j] = "unset"

Only(a, p) == FirstSet(<<a.cli.only, a.project[p].only, a.root.only>>)

Enabled(a, p) ==
  \/ FirstSet(<<a.cli.enabled, a.project[p].enabled, a.root.enabled>>)
  \/ Only(a, p)

(* A file is a Type Test or a runtime test by its name; the settings decide *)
(* which of the two halves a project contributes.                           *)
ClassifyTestFiles(a, p, found) ==
  [runtime |-> IF Only(a, p) THEN {} ELSE found \ TypeTests,
   types   |-> IF Enabled(a, p) THEN found \cap TypeTests ELSE {}]

(***************************************************************************)
(* Multi mode.  `--project` shadows the file filter: every named project   *)
(* is then handed every positional file.                                   *)
(***************************************************************************)
MultiSelected(a) ==
  IF a.names # {} THEN a.names \cap Projects
  ELSE {p \in Projects : a.files = {} \/ a.files \cap Owned(p) # {}}

CliFilesOf(a, p) == IF a.names # {} THEN a.files ELSE a.files \cap Owned(p)

DiscoverTestFiles(a, p) ==
  IF CliFilesOf(a, p) # {} THEN CliFilesOf(a, p)
  ELSE a.disk \cap Owned(p) \cap a.pattern

PlanProject(a, p) == ClassifyTestFiles(a, p, DiscoverTestFiles(a, p))

(***************************************************************************)
(* Workspace mode.  Names first, then files among the projects that are    *)
(* left.  The path pattern does not select here: a job it leaves nothing   *)
(* of is still sent, told to pass with no tests (IdleJob).                 *)
(***************************************************************************)
WorkspaceNamed(a) ==
  IF a.names = {} THEN Projects ELSE a.names \cap Projects

(* A change of WorkspaceSelected: files before names, so that a file brings *)
(* back a project the names left out.                                       *)
FilesBeforeNames(a) ==
  {p \in Projects : IF a.files = {} THEN p \in WorkspaceNamed(a)
                     ELSE a.files \cap Owned(p) # {}}

WorkspaceSelected(a) ==
  {p \in WorkspaceNamed(a) : a.files = {} \/ a.files \cap Owned(p) # {}}

WorkspaceFiles(a, p) ==
  ClassifyTestFiles(a, p,
    IF a.files # {} THEN a.files \cap Owned(p) ELSE a.disk \cap Owned(p))

IdleJob(a, p) ==
  /\ a.files = {}
  /\ WorkspaceFiles(a, p).runtime \cap a.pattern = {}

(***************************************************************************)
(* What the request picked, per project, in either mode.                   *)
(***************************************************************************)
Selected(mode, a) ==
  IF mode = "multi" THEN MultiSelected(a) ELSE WorkspaceSelected(a)

NothingPicked == [runtime |-> {}, types |-> {}]

Picked(mode, a) ==
  [p \in Projects |->
     IF p \notin Selected(mode, a) THEN NothingPicked
     ELSE IF mode = "multi" THEN PlanProject(a, p) ELSE WorkspaceFiles(a, p)]

(* A name no project has is an error in both modes, a positional file only  *)
(* when no project owns any of them.                                        *)
RequestRefused(mode, a) == Unknown \in a.names \/ Selected(mode, a) = {}

(* A package all of whose projects came back without a runtime test, that   *)
(* has no Type Test and is not told to pass without tests.                  *)
EmptyPackages(a, picked) ==
  {k \in Packages :
     LET mine == {p \in WorkspaceSelected(a) : PkgOf[p] = k} IN
       /\ mine # {}
       /\ k \notin a.lenient
       /\ \A p \in mine : picked[p] = NothingPicked}

JobsOf(picked) == InOrder({p \in Projects : picked[p].runtime # {}})

HasTypes(picked) == \E p \in Projects : picked[p].types # {}

(* What the run does about the plan: run it, refuse the request, fail for   *)
(* want of tests, or pass without any.                                      *)
Verdict(mode, a, picked) ==
  LET nothing == JobsOf(picked) = <<>> /\ ~HasTypes(picked) IN
  IF RequestRefused(mode, a) THEN "refused"
  ELSE IF \/ mode = "workspace" /\ EmptyPackages(a, picked) # {}
          \/ mode = "multi" /\ nothing /\ a.lenient # Packages THEN "untested"
  ELSE IF nothing THEN "lenient" ELSE "run"

(* A run every selected project of which checks types only needs no backend.*)
(* Workspace mode decides it on the flag alone, before it has a plan.       *)
IsTypecheckOnlyRun(mode, a) ==
  IF mode = "multi" THEN \A p \in MultiSelected(a) : Only(a, p)
  ELSE a.cli.only = "yes"

BuildTestPlan(mode, a) ==
  LET picked == Picked(mode, a) IN
  [jobs    |-> JobsOf(picked),
   idle    |-> {p \in Projects : /\ mode = "workspace"
                                 /\ picked[p].runtime # {}
                                 /\ IdleJob(a, p)},
   types   |-> HasTypes(picked),
   local   |-> IsTypecheckOnlyRun(mode, a),
   verdict |-> Verdict(mode, a, picked)]
=============================================================================
