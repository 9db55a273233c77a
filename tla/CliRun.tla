------------------------------- MODULE CliRun -------------------------------
(***************************************************************************)
(* One invocation of the CLI (src/cli.ts) from the parsed flags to the     *)
(* exit code, in multi mode (src/run/multi.ts, src/run/execution.ts) or    *)
(* workspace mode (src/run/workspace.ts, src/workspace-runner.ts): select, *)
(* open the backend, stage, run the jobs and the Type Tests side by side,  *)
(* close the backend, report.                                              *)
(*                                                                         *)
(* The jobs and the Type Tests are two promises under one Promise.all: the *)
(* first to reject ends the wait, and the other stays in flight, past the  *)
(* close of the backend and past the exit code, which main only assigns.   *)
(* The backend's own work is one step here, DispatchAnswers or             *)
(* DispatchFails; the modules of the backends say what may come back.      *)
(***************************************************************************)
EXTENDS TestPlan, RunResults

CONSTANTS
  Root,               \* the coverage unit of a multi run
  CliLayers,          \* what the flags may say of type checking
  Requests(_, _),     \* requests of a mode whose flags say cli
  GatedUnits(_)       \* units of a mode that may have a coverage threshold

Modes == {"multi", "workspace"}

(* A request carries its flags, and is about projects, files and packages   *)
(* that there are; a name may be unknown.                                   *)
ASSUME RequestsAssumption ==
  \A m \in Modes : \A cli \in CliLayers : \A a \in Requests(m, cli) :
    /\ a.cli = cli
    /\ a.names \subseteq Projects \cup {Unknown}
    /\ a.files \subseteq TestFiles /\ a.disk \subseteq TestFiles
    /\ a.lenient \subseteq Packages

NoExit == 9

VARIABLES
  mode,               \* "multi" or "workspace"
  pc,                 \* where the host is
  asked,              \* the request, until the plan is acted upon
  picked,             \* the files the plan picked, as long
  plan,               \* jobs, idle jobs, Type Tests or none, verdict
  backend,            \* "none", "open" or "closed"
  closable,           \* the backend has a close: attached Studio alone
  gated,              \* units with a coverage threshold
  dispatch,           \* "idle", "running", "settled" or "rejected"
  raw,                \* the kinds of the raw entries the dispatch returned
  bailed,             \* the job indices a bail skipped
  rows,               \* the results, paired with their projects
  saved,              \* projects whose snapshots are on disk
  checker,            \* "none", "running", "clean", "errors" or "rejected"
  err,                \* what the run threw: "none", "run" or "infra"
  exit                \* the exit code, NoExit until it is set

selection == <<asked, picked, plan>>
results == <<raw, bailed, rows, saved>>
cliVars == <<mode, pc, selection, backend, closable, gated, dispatch, results,
          checker, err, exit>>

Forgotten == [cli |-> "forgotten"]
NoPlan == [jobs |-> <<>>, idle |-> {}, types |-> FALSE, local |-> FALSE,
           verdict |-> "none"]

UnitOf == [p \in Projects |-> IF mode = "multi" THEN Root ELSE PkgOf[p]]

CliInit ==
  /\ mode \in Modes
  /\ pc = "start"
  /\ \E cli \in CliLayers : asked = [cli |-> cli]
  /\ picked = <<>>
  /\ plan = NoPlan
  /\ backend = "none"
  /\ closable = FALSE
  /\ gated = {}
  /\ dispatch = "idle"
  /\ raw = <<>> /\ bailed = {} /\ rows = <<>> /\ saved = {}
  /\ checker = "none"
  /\ err = "none"
  /\ exit = NoExit

Step(from, to) == pc = from /\ pc' = to

(* The first error is the one the run ends with.                            *)
Throw(what) == err' = IF err = "none" THEN what ELSE err

(* Promise.all swallows what a branch throws once it no longer waits.       *)
ThrowIfAwaited(what) == IF pc = "running" THEN Throw(what) ELSE UNCHANGED err

-----------------------------------------------------------------------------
(***************************************************************************)
(* Before the plan.  Flags, packages and configs that do not validate end  *)
(* the run with code 2 and nothing opened; so does a backend that cannot   *)
(* be resolved.                                                            *)
(***************************************************************************)
FailToStart ==
  /\ Step("start", "ending")
  /\ Throw("run")
  /\ UNCHANGED <<mode, selection, backend, closable, gated, dispatch, results,
                 checker, exit>>

(* --affected-since selected no package.                                    *)
NoneAffected ==
  /\ mode = "workspace"
  /\ Step("start", "ending")
  /\ plan' = [NoPlan EXCEPT !.verdict = "lenient"]
  /\ UNCHANGED <<mode, asked, picked, backend, closable, gated, dispatch,
                 results, checker, err, exit>>

OpenBackend ==
  /\ backend = "none"
  /\ backend' = "open"
  /\ closable' \in BOOLEAN

(* Workspace mode resolves its backend before it has looked at a single     *)
(* test, and none when the flag says there will be nothing to dispatch.     *)
ResolveWorkspaceBackend ==
  /\ mode = "workspace"
  /\ Step("start", "select")
  /\ IF asked.cli.only = "yes" THEN UNCHANGED <<backend, closable>>
     ELSE OpenBackend
  /\ UNCHANGED <<mode, selection, gated, dispatch, results, checker, err, exit>>

(* A package that fails pre-flight, inside the guard that closes.           *)
PreflightFails ==
  /\ mode = "workspace"
  /\ Step("select", "closing")
  /\ Throw("run")
  /\ UNCHANGED <<mode, selection, backend, closable, gated, dispatch, results,
                 checker, exit>>

Select ==
  /\ IF mode = "multi" THEN Step("start", "planned") ELSE Step("select", "planned")
  /\ asked' \in Requests(mode, asked.cli)
  /\ picked' = Picked(mode, asked')
  /\ plan' = BuildTestPlan(mode, asked')
  /\ UNCHANGED <<mode, backend, closable, gated, dispatch, results, checker,
                 err, exit>>

Forget == asked' = Forgotten /\ picked' = <<>>

(* A refused request and an empty plan end the run here: multi mode has     *)
(* opened nothing yet, workspace mode goes through the close.               *)
StopOnPlan ==
  /\ plan.verdict # "run"
  /\ IF mode = "multi" THEN Step("planned", "ending") ELSE Step("planned", "closing")
  /\ Forget
  /\ UNCHANGED <<mode, plan, backend, closable, gated, dispatch, results,
                 checker, err, exit>>

-----------------------------------------------------------------------------
(***************************************************************************)
(* Staging and the run.                                                    *)
(***************************************************************************)
RunsOnHost == IF mode = "multi" THEN plan.local ELSE plan.jobs = <<>>

CheckTypes == checker' = IF plan.types THEN "running" ELSE "none"

RunTypecheckOnly ==
  /\ plan.verdict = "run" /\ RunsOnHost
  /\ Step("planned", "running")
  /\ dispatch' = "settled"
  /\ CheckTypes
  /\ Forget
  /\ UNCHANGED <<mode, plan, backend, closable, gated, results, err, exit>>

ResolveRunBackend ==
  /\ mode = "multi"
  /\ plan.verdict = "run" /\ ~RunsOnHost
  /\ Step("planned", "staging")
  /\ OpenBackend
  /\ Forget
  /\ UNCHANGED <<mode, plan, gated, dispatch, results, checker, err, exit>>

ResolveRunBackendFails ==
  /\ mode = "multi"
  /\ plan.verdict = "run" /\ ~RunsOnHost
  /\ Step("planned", "ending")
  /\ Throw("run")
  /\ Forget
  /\ UNCHANGED <<mode, plan, backend, closable, gated, dispatch, results,
                 checker, exit>>

StartStaging ==
  /\ mode = "workspace"
  /\ plan.verdict = "run" /\ ~RunsOnHost
  /\ Step("planned", "staging")
  /\ Forget
  /\ UNCHANGED <<mode, plan, backend, closable, gated, dispatch, results,
                 checker, err, exit>>

(* The stubs, the instrumented files and the place, then both halves start. *)
(* A plan with Type Tests alone has still staged, and dispatches nothing.   *)
StageAndLaunch ==
  /\ Step("staging", "running")
  /\ gated' \in SUBSET GatedUnits(mode)
  /\ dispatch' = IF plan.jobs = <<>> THEN "settled" ELSE "running"
  /\ CheckTypes
  /\ UNCHANGED <<mode, selection, backend, closable, results, err, exit>>

StageFails ==
  /\ Step("staging", "closing")
  /\ Throw("run")
  /\ UNCHANGED <<mode, selection, backend, closable, gated, dispatch, results,
                 checker, exit>>

(* An answer comes back over a backend that was not closed under it.        *)
CanAnswer == dispatch = "running" /\ ~(closable /\ backend = "closed")

(* One entry per job that ran, in job order.                                *)
RawEntries(skipped, kinds) ==
  LET ran == InOrder(DOMAIN plan.jobs \ skipped)
  IN [i \in DOMAIN kinds |-> [project |-> plan.jobs[ran[i]], kind |-> kinds[i]]]

Entries == RawEntries(bailed, raw)

(* A job told to pass with no tests can do no more than that.               *)
IdleKinds == {"passed", "luau", "garbled"}

(* A bail is a workspace run's answer to a failure of a job that ran.       *)
BailHasCause(skipped, kinds) ==
  skipped # {} => /\ mode = "workspace"
                  /\ \E i \in DOMAIN kinds : kinds[i] \in {"failed", "luau"}

(* Every entry is processed in the step the answer is in: the loop does not *)
(* wait for anything.  An entry that throws rejects the dispatch.           *)
Process(entries) ==
  /\ saved' = SnapshotsOf(entries)
  /\ IF Aborts(entries)
     THEN /\ dispatch' = "rejected"
          /\ ThrowIfAwaited(IF entries[FirstAbort(entries)].kind = "gapless"
                            THEN "infra" ELSE "run")
          /\ UNCHANGED rows
     ELSE /\ dispatch' = "settled"
          /\ rows' = RunProjects(plan.jobs, bailed', entries, plan.idle)
          /\ UNCHANGED err

DispatchAnswers ==
  /\ CanAnswer
  /\ bailed' \in SUBSET DOMAIN plan.jobs
  /\ raw' \in [1..Cardinality(DOMAIN plan.jobs \ bailed') -> Kinds]
  /\ BailHasCause(bailed', raw')
  /\ LET entries == RawEntries(bailed', raw') IN
       /\ \A i \in DOMAIN entries :
            entries[i].project \in plan.idle => entries[i].kind \in IdleKinds
       /\ Process(entries)
  /\ UNCHANGED <<mode, pc, selection, backend, closable, gated, checker, exit>>

(* A stalled or refused task is infrastructure, anything else the run: an   *)
(* unreachable plugin, a timeout, more or fewer entries than jobs.          *)
DispatchFails ==
  /\ dispatch = "running"
  /\ dispatch' = "rejected"
  /\ \E what \in {"run", "infra"} : ThrowIfAwaited(what)
  /\ UNCHANGED <<mode, pc, selection, backend, closable, gated, results,
                 checker, exit>>

(* Type errors are a result; a checker that does not start or is killed at  *)
(* its deadline is an error.                                                *)
CheckerEnds ==
  /\ checker = "running"
  /\ checker' \in {"clean", "errors", "rejected"}
  /\ IF checker' = "rejected" THEN ThrowIfAwaited("run") ELSE UNCHANGED err
  /\ UNCHANGED <<mode, pc, selection, backend, closable, gated, dispatch,
                 results, exit>>

-----------------------------------------------------------------------------
(***************************************************************************)
(* The end.                                                                *)
(***************************************************************************)
Rejected == dispatch = "rejected" \/ checker = "rejected"

(* A change of Settled: the wait is for the Type Tests alone.               *)
CheckerSettled == checker # "running"

Settled == dispatch = "settled" /\ checker # "running"

(* Promise.all: on to the workspace sinks when both have settled, straight  *)
(* to the close on the first rejection.                                     *)
Join ==
  /\ Settled \/ Rejected
  /\ Step("running", "closing")
  /\ UNCHANGED <<mode, selection, backend, closable, gated, dispatch, results,
                 checker, err, exit>>

(* The per-package result files of a workspace run cannot be written.       *)
SinksFail ==
  /\ mode = "workspace"
  /\ Settled /\ ~Rejected
  /\ Step("running", "closing")
  /\ Throw("run")
  /\ UNCHANGED <<mode, selection, backend, closable, gated, dispatch, results,
                 checker, exit>>

(* A change of CloseBackend: it takes an open backend.                      *)
CloseOpened ==
  /\ pc = "closing" /\ backend = "open"
  /\ pc' = IF err = "none" /\ plan.verdict = "run" THEN "report" ELSE "ending"
  /\ backend' = "closed"
  /\ UNCHANGED <<mode, selection, closable, gated, dispatch, results, checker,
                 err, exit>>

CloseBackend ==
  /\ pc = "closing"
  /\ pc' = IF err = "none" /\ plan.verdict = "run" THEN "report" ELSE "ending"
  /\ backend' = IF backend = "open" THEN "closed" ELSE backend
  /\ UNCHANGED <<mode, selection, closable, gated, dispatch, results, checker,
                 err, exit>>

TypesPass == checker \in {"none", "clean"}

OutputMultiResult ==
  /\ Step("report", "done")
  /\ exit' = EmitFinalStatus(MergeProjectResults(rows), TypesPass,
                             ProcessCoverage(rows, plan.jobs, UnitOf, gated))
  /\ UNCHANGED <<mode, selection, backend, closable, gated, dispatch, results,
                 checker, err>>

(* The Build Manifest, a report or a result file cannot be written.         *)
OutputFails ==
  /\ Step("report", "ending")
  /\ Throw("run")
  /\ UNCHANGED <<mode, selection, backend, closable, gated, dispatch, results,
                 checker, exit>>

ExitCode ==
  IF err = "infra" THEN 3
  ELSE IF err = "none" /\ plan.verdict = "lenient" THEN 0 ELSE 2

SetExitCode ==
  /\ Step("ending", "done")
  /\ exit' = ExitCode
  /\ UNCHANGED <<mode, selection, backend, closable, gated, dispatch, results,
                 checker, err>>

HostStep ==
  \/ FailToStart \/ NoneAffected \/ ResolveWorkspaceBackend \/ PreflightFails
  \/ Select \/ StopOnPlan
  \/ RunTypecheckOnly \/ ResolveRunBackend \/ ResolveRunBackendFails
  \/ StartStaging \/ StageAndLaunch \/ StageFails
  \/ Join \/ SinksFail \/ CloseBackend \/ OutputMultiResult \/ OutputFails
  \/ SetExitCode

DispatchEnds == DispatchAnswers \/ DispatchFails

CliNext == HostStep \/ DispatchEnds \/ CheckerEnds

CliSpec == CliInit /\ [][CliNext]_cliVars

(* The host never stops between two steps; a dispatch and a checker both    *)
(* have a deadline.                                                         *)
CliFairSpec ==
  /\ CliSpec
  /\ WF_cliVars(HostStep) /\ WF_cliVars(DispatchEnds) /\ WF_cliVars(CheckerEnds)
-----------------------------------------------------------------------------
(***************************************************************************)
(* Properties.                                                             *)
(***************************************************************************)
Pcs == {"start", "select", "planned", "staging", "running", "closing",
        "report", "ending", "done"}

CliTypeOK ==
  /\ mode \in Modes
  /\ pc \in Pcs
  /\ plan.jobs \in Seq(Projects)
  /\ plan.idle \subseteq Projects
  /\ plan.types \in BOOLEAN /\ plan.local \in BOOLEAN
  /\ plan.verdict \in {"none", "refused", "untested", "lenient", "run"}
  /\ backend \in {"none", "open", "closed"}
  /\ closable \in BOOLEAN
  /\ gated \subseteq GatedUnits(mode)
  /\ dispatch \in {"idle", "running", "settled", "rejected"}
  /\ bailed \subseteq DOMAIN plan.jobs
  /\ saved \subseteq Projects
  /\ checker \in {"none", "running", "clean", "errors", "rejected"}
  /\ err \in {"none", "run", "infra"}
  /\ exit \in {0, 1, 2, 3, NoExit}

(* No backend outlives the run: by the time a code can be set, what was     *)
(* opened has been closed, whichever step failed.                           *)
OpenedIsClosed == pc \in {"report", "ending", "done"} => backend # "open"

(* A run that will not dispatch costs no backend: one that checks types     *)
(* only, and in multi mode one whose plan is refused or empty.              *)
NothingOpenedForNothing ==
  /\ plan.local => backend = "none"
  /\ mode = "multi" /\ plan.verdict # "run" => backend = "none"

(* The plan against the request, in words that do not follow its           *)
(* construction.  Named projects and files leave nothing else in; a file    *)
(* runs under a project that owns it, but for multi mode with --project;    *)
(* type-only projects send no job.  Nothing asked for is left out in        *)
(* silence: without names, files or pattern every test on disk is in the    *)
(* plan, and a plan that passes without a test was allowed to.              *)
RunOf(p) == picked[p].runtime \cup picked[p].types

PlanHonoursRequest ==
  pc = "planned" /\ plan.verdict # "refused" =>
    /\ \A p \in Projects :
         /\ asked.names # {} /\ p \notin asked.names => RunOf(p) = {}
         /\ asked.files # {} => RunOf(p) \subseteq asked.files
         /\ \/ asked.files # {} /\ asked.names # {} /\ mode = "multi"
            \/ RunOf(p) \subseteq Owned(p)
         /\ Only(asked, p) => \A i \in DOMAIN plan.jobs : plan.jobs[i] # p
    /\ asked.files = {} /\ asked.names = {} /\ asked.pattern = TestFiles =>
         \A f \in asked.disk : \A p \in Owners[f] :
           f \in RunOf(p) \/ (IF f \in TypeTests THEN ~Enabled(asked, p)
                              ELSE Only(asked, p))
    /\ plan.verdict = "lenient" =>
         /\ \A p \in Projects : RunOf(p) = {}
         /\ \A p \in Selected(mode, asked) : PkgOf[p] \in asked.lenient

(* The exit code is 0 exactly when the run was allowed to test nothing, or  *)
(* everything it ran passed: no job was skipped, no test failed or was      *)
(* blocked, no snapshot is obsolete or lost, no Type Test failed, and every *)
(* gated unit that brought coverage data at all had its jobs' lines hit.    *)
(* It is 3 exactly for an infrastructure error, 1 for a failure in a run    *)
(* that was carried through, 2 for the rest.                                *)
PassedKinds == {"passed", "blind"}

WithoutData(unit) ==
  \A i \in DOMAIN raw :
    UnitOf[Entries[i].project] = unit => raw[i] \in {"blind", "luau"}

GateHeld(unit) ==
  \/ WithoutData(unit)
  \/ \A i \in DOMAIN plan.jobs : UnitOf[plan.jobs[i]] = unit =>
       /\ plan.jobs[i] \notin plan.idle
       /\ \E j \in DOMAIN raw : /\ Entries[j].project = plan.jobs[i]
                                /\ raw[j] \notin {"blind", "luau"}

EverythingPassed ==
  /\ Len(raw) = Len(plan.jobs)
  /\ \A i \in DOMAIN raw : raw[i] \in PassedKinds
  /\ checker \in {"none", "clean"}
  /\ \A unit \in gated : GateHeld(unit)

ExitTellsOutcome ==
  pc = "done" =>
    /\ exit = 3 <=> err = "infra"
    /\ exit = 2 <=> err = "run" \/ (err = "none" /\ plan.verdict \in {"refused", "untested"})
    /\ exit = 0 <=> /\ err = "none"
                    /\ plan.verdict = "lenient" \/ (plan.verdict = "run" /\ EverythingPassed)

(* Each result is the one of the project it is shown under, whatever a bail *)
(* took out of the middle, and each project has one.                        *)
ResultsStayPaired ==
  rows # <<>> =>
    /\ Len(rows) = Len(raw)
    /\ \A i \in DOMAIN rows :
         /\ rows[i].project = Entries[i].project
         /\ \A j \in DOMAIN rows : rows[i].project = rows[j].project => i = j
    /\ mode = "workspace" =>
         \A k \in Packages :
           k \in BailedPackages(plan.jobs, bailed, PkgOf) <=>
             /\ \E i \in DOMAIN plan.jobs : PkgOf[plan.jobs[i]] = k
             /\ \A i \in DOMAIN rows : PkgOf[rows[i].project] # k

(* One project's script failure costs no other project its snapshots: only  *)
(* an error that ends the run may, and then only those that come after.     *)
SiblingsSurvive ==
  \A i \in DOMAIN raw :
    \/ Entries[i].project \in saved
    \/ raw[i] \in {"luau", "unwritable"}
    \/ \E j \in 1..i : raw[j] \in Aborting /\ exit \in {2, 3, NoExit}

(* What a run keeps apart: its backend, its results, its projects.          *)
CliInv ==
  /\ CliTypeOK /\ OpenedIsClosed /\ NothingOpenedForNothing
  /\ ResultsStayPaired /\ SiblingsSurvive

(* Snapshots land before the exit code is set.  The one exception is a run  *)
(* whose type checker could not be run while the dispatch was out: it ends  *)
(* with code 2, and the dispatch it left behind still writes.               *)
OnlyOrphansWriteLate ==
  [][saved' # saved /\ exit # NoExit => exit = 2 /\ checker = "rejected"]_cliVars

(* Every run sets its code, and what it left in flight ends too.            *)
Terminates ==
  <>[](exit # NoExit /\ dispatch # "running" /\ checker # "running")
=============================================================================
