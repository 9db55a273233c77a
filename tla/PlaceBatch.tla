---------------------------- MODULE PlaceBatch ----------------------------
(***************************************************************************)
(* One task running its share of the packages inside the place             *)
(* (luau/staging/embedded-runner.luau with what it runs a package under:   *)
(* infinite-yield, game-output-capture, runner-result,                     *)
(* cooperative-scheduler, snapshot-patch).                                 *)
(*                                                                         *)
(* Every project of the share runs in the same DataModel, one after        *)
(* another, under a guard that ends a run the engine would let wait        *)
(* forever.  Four threads can be left behind by a run: the guard's worker, *)
(* the executor of Jest's promise, a test's completion dispatch parked by  *)
(* the cooperative scheduler, and whatever the tests themselves spawned.   *)
(*                                                                         *)
(* Luau threads do not preempt each other: the caller's turn goes on from  *)
(* Take to the guard's park, and from there on when it is woken, and only  *)
(* once it has ended are the lines printed in it delivered, before any     *)
(* other thread runs.                                                      *)
(***************************************************************************)
EXTENDS Integers, Sequences, SequencesExt

CONSTANTS
    Batches,            \* the shares: projects as [pkg, budgeted], in order
    Place,              \* the tree the place opens with
    Materialize(_, _),  \* a tree and a package: [tree, ok]
    Reset(_),           \* a tree without what was staged in it
    Trees,              \* the trees the place comes to have
    Clean(_),           \* a tree is the place as it opened, nothing staged
    Staged(_, _),       \* a package and a tree: it is the place with that package
    CanStage(_)         \* the place can take a package

NoPackage == [name |-> "none"]

\* A share is a sequence of projects.
ASSUME BatchesAreShares ==
    \A b \in Batches : /\ Len(b) \in Nat /\ DOMAIN b = 1..Len(b)
                       /\ \A i \in DOMAIN b : b[i].pkg # NoPackage

\* What the materializer promises: a package it takes stands in the place alone,
\* one it refuses leaves nothing behind, and what was staged is found again.
ASSUME MaterializerAssumption ==
    /\ Place \in Trees /\ Clean(Place)
    /\ \A tree \in Trees : Reset(tree) \in Trees /\ Clean(Reset(tree))
    /\ \A tree \in Trees : Clean(tree) =>
         \A b \in Batches : \A i \in DOMAIN b :
           LET staging == Materialize(tree, b[i].pkg) IN
           /\ staging.tree \in Trees
           /\ staging.ok <=> CanStage(b[i].pkg)
           /\ IF CanStage(b[i].pkg) THEN Staged(b[i].pkg, staging.tree)
                                    ELSE Clean(staging.tree)
NoLine == [of |-> 0, text |-> "none"]
Off == 0

VARIABLES
    batch,     \* the share this task runs
    queued,    \* TRUE when it reads the share off a queue, yielding in between
    pc,        \* where the caller is
    at,        \* the project it is at
    prevPkg,   \* the package it takes to be staged
    live,      \* the tree
    worker,    \* per project: the thread of the guarded closure
    executor,  \* per project: the thread that runs its tests
    dispatch,  \* per project: a completion dispatch that gave way
    stray,     \* per project: a thread its tests left waiting for a child
    waiting,   \* per project: its guard parked the caller and nothing woke it
    woken,     \* per project: how often its guard resumed the caller
    result,    \* per project: what its closure returned
    cause,     \* per project: what its guard gave up on it for
    verdict,   \* per project: what its entry says
    mock,      \* the project whose snapshot mock is installed
    capture,   \* the project whose Game Output capture is open
    filed,     \* per project: the runner's own lines in its capture
    echo,      \* the line whose print is expected back
    posted,    \* the runner's prints on their way to the listeners
    crowded    \* history: projects whose lines shared a turn with another line

stageVars == <<prevPkg, live>>
threadVars == <<worker, executor, dispatch, stray>>
guardVars == <<waiting, woken, result, cause>>
outputVars == <<capture, filed, echo, posted, crowded>>
vars == <<batch, queued, pc, at, stageVars, threadVars, guardVars, verdict, mock, outputVars>>

Projects == DOMAIN batch
Entry == batch[at]

Init ==
    /\ batch \in Batches
    /\ queued \in BOOLEAN
    /\ pc = "take" /\ at = 0
    /\ prevPkg = NoPackage /\ live = Place
    /\ worker = [e \in Projects |-> "none"]
    /\ executor = [e \in Projects |-> "none"]
    /\ dispatch = [e \in Projects |-> "none"]
    /\ stray = [e \in Projects |-> "none"]
    /\ waiting = [e \in Projects |-> FALSE]
    /\ woken = [e \in Projects |-> 0]
    /\ result = [e \in Projects |-> "none"]
    /\ cause = [e \in Projects |-> "none"]
    /\ verdict = [e \in Projects |-> "none"]
    /\ mock = Off
    /\ capture = Off
    /\ filed = [e \in Projects |-> <<>>]
    /\ echo = NoLine /\ posted = <<>> /\ crowded = {}

\* The caller's turn is over and what was printed in it has been delivered.
Idle == pc \in {"parked", "between"} /\ posted = <<>>

-----------------------------------------------------------------------------
(* Output: a line the runner files itself is printed as well, and its      *)
(* print comes back a turn later.                                          *)

NoteText(e) == [of |-> e, text |-> "note"]
SchedulingText(e) == [of |-> e, text |-> "scheduling"]

\* The scheduling warning reads the same whoever it is about.
SameText(l, m) == l = m \/ (l.text = "scheduling" /\ m.text = "scheduling")

\* Mutant: the print is not expected back.
Notes_Unarmed(lines) ==
    /\ posted' = posted \o lines
    /\ filed' = [filed EXCEPT ![capture] = @ \o lines]
    /\ crowded' = IF Len(posted') > 1 THEN crowded \cup {posted'[i].of : i \in DOMAIN posted'}
                                      ELSE crowded
    /\ UNCHANGED echo

\* GameOutputCapture.note, for the lines one turn files under the open capture.
Notes(lines) ==
    /\ posted' = posted \o lines
    /\ filed' = [filed EXCEPT ![capture] = @ \o lines]
    /\ echo' = IF lines = <<>> THEN echo ELSE Last(lines)
    /\ crowded' = IF Len(posted') > 1 THEN crowded \cup {posted'[i].of : i \in DOMAIN posted'}
                                      ELSE crowded

\* MessageOut reaches the capture that is open by then; with none open it
\* reaches nobody, and the echo stays expected.
Deliver ==
    /\ pc \in {"parked", "between", "over"}
    /\ posted # <<>>
    /\ posted' = Tail(posted)
    /\ IF capture = Off
       THEN UNCHANGED <<echo, filed>>
       ELSE IF SameText(Head(posted), echo)
            THEN echo' = NoLine /\ UNCHANGED filed
            ELSE /\ filed' = [filed EXCEPT ![capture] = Append(@, Head(posted))]
                 /\ UNCHANGED echo
    /\ UNCHANGED <<batch, queued, pc, at, stageVars, threadVars, guardVars, verdict, mock,
                   capture, crowded>>

-----------------------------------------------------------------------------
(* Staging: executeEntry up to the run                                     *)

\* The tree with the package before this one gone.
Torn(pkg) == IF prevPkg \notin {NoPackage, pkg} THEN Reset(live) ELSE live

\* The next project: the capture opens between the teardown and the staging.
Take ==
    /\ pc = "take" /\ at < Len(batch)
    /\ LET pkg == batch[at + 1].pkg
           staging == IF pkg # prevPkg THEN Materialize(Torn(pkg), pkg)
                                       ELSE [tree |-> live, ok |-> TRUE]
       IN /\ live' = staging.tree
          /\ pc' = IF staging.ok THEN "staged" ELSE "refused"
    /\ at' = at + 1
    /\ capture' = at + 1
    /\ UNCHANGED <<batch, queued, prevPkg, threadVars, guardVars, verdict, mock,
                   filed, echo, posted, crowded>>

\* An entry is reported and the capture closed; staged is what the caller
\* takes to be in the DataModel from here on.
Report(answer, staged) ==
    /\ verdict' = [verdict EXCEPT ![at] = answer]
    /\ prevPkg' = staged
    /\ capture' = Off
    /\ pc' = IF queued THEN "between" ELSE "take"
    /\ UNCHANGED <<batch, queued, at>>

StageFails ==
    /\ pc = "refused"
    /\ Report("staging", Entry.pkg)
    /\ UNCHANGED <<live, threadVars, guardVars, mock, filed, echo, posted, crowded>>

\* getJest, or a module of it that is patched, does not resolve: runEntry
\* throws before its guard, with nothing left patched.
JestMissing ==
    /\ pc = "staged"
    /\ Report("noJest", Entry.pkg)
    /\ UNCHANGED <<live, threadVars, guardVars, mock, filed, echo, posted, crowded>>

\* Reading the queue yields.
Read ==
    /\ pc = "between" /\ posted = <<>>
    /\ pc' = "take"
    /\ UNCHANGED <<batch, queued, at, stageVars, threadVars, guardVars, verdict, mock, outputVars>>

\* The share is done, or the task stops early: on a full envelope, on a bail.
Stop ==
    /\ pc = "take"
    /\ at > 0 \/ queued
    /\ live' = IF prevPkg # NoPackage THEN Reset(live) ELSE live
    /\ pc' = "over"
    /\ UNCHANGED <<batch, queued, at, prevPkg, threadVars, guardVars, verdict, mock, outputVars>>

-----------------------------------------------------------------------------
(* The run: InfiniteYield.guard and what goes on under it                  *)

\* What the closure comes to once it has its thread: Jest does not load, its
\* run ends without ever yielding, or it is under way; else it still waits for
\* an instance.  A run leaves threads of the tests' own behind, or none.
Begun == {<<"ended", "none", "failed">>, <<"ended", "ended", "failed">>,
          <<"ended", "ended", "passed">>, <<"expects", "runs", "none">>}
Waits == <<"waits", "none", "none">>

Moves(e, to) ==
    /\ worker' = [worker EXCEPT ![e] = to[1]]
    /\ executor' = [executor EXCEPT ![e] = to[2]]
    /\ result' = [result EXCEPT ![e] = to[3]]
    /\ \E left \in {"none", "waits"} :
         /\ to[2] = "none" => left = "none"
         /\ stray' = [stray EXCEPT ![e] = left]

\* A guard resumes the caller it parked, once.
Wake(e) ==
    /\ waiting' = [waiting EXCEPT ![e] = FALSE]
    /\ IF waiting[e]
       THEN woken' = [woken EXCEPT ![e] = @ + 1] /\ pc' = "woken"
       ELSE UNCHANGED <<woken, pc>>

\* The patches go on and the closure takes its first turn; the caller parks if
\* that did not end it.
FirstTurn ==
    /\ pc = "staged"
    /\ mock' = at
    /\ \E to \in Begun \cup {Waits} :
         /\ Moves(at, to)
         /\ waiting' = [waiting EXCEPT ![at] = to[1] # "ended"]
         /\ pc' = IF to[1] = "ended" THEN "woken" ELSE "parked"
    /\ UNCHANGED <<batch, queued, at, stageVars, dispatch, woken, cause, verdict, outputVars>>

\* The instance the closure was waiting for turns up.
GoesOn(e) ==
    /\ Idle /\ worker[e] = "waits"
    /\ \E to \in Begun :
         /\ Moves(e, to)
         /\ IF to[1] = "ended" THEN Wake(e) ELSE UNCHANGED <<waiting, woken, pc>>
    /\ UNCHANGED <<batch, queued, at, stageVars, dispatch, cause, verdict, mock, outputVars>>

\* A test waits for a child, and the child may turn up: the packages are staged
\* at the same paths.
TestStuck(e) ==
    /\ Idle /\ executor[e] = "runs" /\ dispatch[e] # "parked"
    /\ executor' = [executor EXCEPT ![e] = "stuck"]
    /\ UNCHANGED <<batch, queued, pc, at, stageVars, worker, dispatch, stray, guardVars, verdict,
                   mock, outputVars>>

ChildAppears(e) ==
    /\ Idle /\ executor[e] = "stuck"
    /\ executor' = [executor EXCEPT ![e] = "runs"]
    /\ UNCHANGED <<batch, queued, pc, at, stageVars, worker, dispatch, stray, guardVars, verdict,
                   mock, outputVars>>

\* The cooperative scheduler: a completion dispatch yields to the engine, and
\* the run awaits it.
GivesWay(e) ==
    /\ Idle /\ executor[e] = "runs" /\ dispatch[e] = "none"
    /\ dispatch' = [dispatch EXCEPT ![e] = "parked"]
    /\ UNCHANGED <<batch, queued, pc, at, stageVars, worker, executor, stray, guardVars, verdict,
                   mock, outputVars>>

Resumes(e) ==
    /\ Idle /\ dispatch[e] = "parked"
    /\ dispatch' = [dispatch EXCEPT ![e] = "none"]
    /\ UNCHANGED <<batch, queued, pc, at, stageVars, worker, executor, stray, guardVars, verdict,
                   mock, outputVars>>

\* The promise settles, which resumes the closure, which ends.
RunEnds(e) ==
    /\ Idle /\ executor[e] = "runs" /\ dispatch[e] # "parked"
    /\ executor' = [executor EXCEPT ![e] = "ended"]
    /\ worker' = [worker EXCEPT ![e] = "ended"]
    /\ \E answer \in {"failed", "passed"} : result' = [result EXCEPT ![e] = answer]
    /\ Wake(e)
    /\ UNCHANGED <<batch, queued, at, stageVars, dispatch, stray, cause, verdict, mock, outputVars>>

StrayGoesOn(e) ==
    /\ Idle /\ stray[e] = "waits"
    /\ stray' = [stray EXCEPT ![e] = "none"]
    /\ UNCHANGED <<batch, queued, pc, at, stageVars, worker, executor, dispatch, guardVars, verdict,
                   mock, outputVars>>

\* The engine warns once about a thread that waits.  The guard that listens
\* takes it for its own; between two runs nobody listens.
InfiniteYield(e) == "waits" \in {worker[e], stray[e]} \/ executor[e] = "stuck"

EngineWarns(e) ==
    /\ Idle /\ InfiniteYield(e)
    /\ stray' = [stray EXCEPT ![e] = IF @ = "waits" THEN "warned" ELSE @]
    /\ IF pc = "parked"
       THEN cause' = [cause EXCEPT ![at] = "warning"] /\ Wake(at)
       ELSE UNCHANGED <<cause, waiting, woken, pc>>
    /\ UNCHANGED <<batch, queued, at, stageVars, worker, executor, dispatch, result, verdict,
                   mock, outputVars>>

\* Mutant: the budget is only looked at while a test waits.
DeadlineFires_WhileStuck ==
    /\ Idle /\ pc = "parked" /\ Entry.budgeted /\ executor[at] = "stuck"
    /\ cause' = [cause EXCEPT ![at] = "budget"]
    /\ Wake(at)
    /\ UNCHANGED <<batch, queued, at, stageVars, threadVars, result, verdict, mock, outputVars>>

\* task.delay wakes the caller the guard parked.
DeadlineFires ==
    /\ Idle /\ pc = "parked" /\ Entry.budgeted
    /\ cause' = [cause EXCEPT ![at] = "budget"]
    /\ Wake(at)
    /\ UNCHANGED <<batch, queued, at, stageVars, threadVars, result, verdict, mock, outputVars>>

-----------------------------------------------------------------------------
(* The end of a run: what the guard, runEntry and executeEntry do with it  *)

Finished == result[at] # "none"
Started == executor[at] # "none"
TimedOut == ~Finished /\ cause[at] = "budget"

\* Mutant: only the closure is closed, not what it was waiting on.
EndsThreads_WorkerOnly ==
    /\ worker' = [worker EXCEPT ![at] = "ended"]
    /\ dispatch' = [dispatch EXCEPT ![at] = "none"]
    /\ UNCHANGED <<executor, stray, result, cause, waiting, woken>>

\* Cancelling the promise ends its executor and lets the closure run to its
\* end, whose wake finds nobody parked; a closure with no promise yet is
\* closed.  The dispatch that gave way is cancelled with the scheduler.
EndsThreads ==
    /\ worker' = [worker EXCEPT ![at] = "ended"]
    /\ executor' = [executor EXCEPT ![at] = IF Started THEN "ended" ELSE @]
    /\ dispatch' = [dispatch EXCEPT ![at] = "none"]
    /\ result' = [result EXCEPT ![at] = IF ~Finished /\ Started THEN "failed" ELSE @]
    /\ woken' = [woken EXCEPT ![at] = IF waiting[at] /\ ~Finished /\ Started THEN @ + 1 ELSE @]
    /\ UNCHANGED <<stray, cause, waiting>>

\* The lines of one run's end: where an abandoned run had got to, and a
\* scheduler that could not be installed.
EndLines(unscheduled) ==
    (IF Finished THEN <<>> ELSE <<NoteText(at)>>)
      \o (IF unscheduled THEN <<SchedulingText(at)>> ELSE <<>>)

\* Mutant: a package whose stage went with its run is taken to be staged still.
StagedAfter_TimedOut == Entry.pkg

StagedAfter == IF TimedOut THEN NoPackage ELSE Entry.pkg

\* The stage of a run that ran out of time goes within its own capture.
Settle ==
    /\ pc = "woken"
    /\ EndsThreads
    /\ \E unscheduled \in BOOLEAN :
         /\ unscheduled => Started
         /\ Notes(EndLines(unscheduled))
    /\ mock' = Off
    /\ live' = IF TimedOut THEN Reset(live) ELSE live
    /\ Report(IF Finished THEN result[at] ELSE cause[at], StagedAfter)

Caller == Take \/ StageFails \/ JestMissing \/ FirstTurn \/ Settle \/ Read \/ Stop

Threads ==
    \E e \in Projects :
      \/ GoesOn(e) \/ TestStuck(e) \/ ChildAppears(e) \/ GivesWay(e) \/ Resumes(e)
      \/ RunEnds(e) \/ StrayGoesOn(e)

Next == Caller \/ Threads \/ (\E e \in Projects : EngineWarns(e)) \/ DeadlineFires \/ Deliver

Spec == Init /\ [][Next]_vars

\* The caller goes on whenever it has the turn, prints are delivered, a budget
\* runs out, and the engine warns about a run that keeps waiting.
FairSpec ==
    /\ Spec
    /\ WF_vars(Caller) /\ WF_vars(Deliver) /\ WF_vars(DeadlineFires)
    /\ \A i \in 1..3 : WF_vars(i \in Projects /\ EngineWarns(i))

-----------------------------------------------------------------------------
(* Properties                                                              *)

Lines == [of : Projects, text : {"note", "scheduling"}]

TypeOK ==
    /\ batch \in Batches /\ queued \in BOOLEAN
    /\ pc \in {"take", "staged", "refused", "parked", "woken", "between", "over"}
    /\ at \in 0..Len(batch)
    /\ prevPkg \in {NoPackage} \cup {batch[e].pkg : e \in Projects}
    /\ worker \in [Projects -> {"none", "waits", "expects", "ended"}]
    /\ executor \in [Projects -> {"none", "runs", "stuck", "ended"}]
    /\ dispatch \in [Projects -> {"none", "parked"}]
    /\ stray \in [Projects -> {"none", "waits", "warned"}]
    /\ waiting \in [Projects -> BOOLEAN]
    /\ woken \in [Projects -> Nat]
    /\ result \in [Projects -> {"none", "failed", "passed"}]
    /\ cause \in [Projects -> {"none", "warning", "budget"}]
    /\ verdict \in [Projects -> {"none", "staging", "noJest", "failed", "passed",
                                 "warning", "budget"}]
    /\ mock \in Projects \cup {Off}
    /\ capture \in Projects \cup {Off}
    /\ filed \in [Projects -> Seq(Lines)]
    /\ echo \in Lines \cup {NoLine}
    /\ posted \in Seq(Lines)
    /\ crowded \subseteq Projects

\* The thread of a run that could still act on the DataModel.
Alive(e) == \/ worker[e] \in {"waits", "expects"}
            \/ executor[e] \in {"runs", "stuck"}
            \/ dispatch[e] = "parked"

\* A run is over before the next begins: no thread of its guard, of Jest's
\* promise or of its scheduler outlives its entry, no guard resumes the caller
\* twice or leaves it parked with nobody to wake it, its snapshot mock is off
\* again, and a run is reported as abandoned only if its closure never
\* returned and, for the budget, only if it had one
\* (infinite-yield.luau's wake and onAbandon, cooperative-scheduler's cancel).
RunsKeepApart ==
    /\ \A e \in Projects : Alive(e) => e = at /\ pc \in {"parked", "woken"}
    /\ \A e \in Projects : woken[e] <= 1
    /\ \A e \in Projects : waiting[e] <=> e = at /\ pc = "parked"
    /\ mock = IF pc \in {"parked", "woken"} THEN at ELSE Off
    /\ \A e \in Projects : verdict[e] = "budget" => batch[e].budgeted
    /\ \A e \in Projects : verdict[e] = "passed" => cause[e] = "none"

\* What holds of the threads of a share, with their types.
BatchInv == TypeOK /\ RunsKeepApart

\* Where in its capture a project says how far it had got.
NotesOf(e) == {i \in DOMAIN filed[e] : filed[e][i] = NoteText(e)}

\* A run that is abandoned says where it had got to exactly once, in the capture
\* of its own entry, and a line of one project is found in another's only if
\* two were filed in one turn, when one echo is expected for two prints
\* (game-output-capture.luau's pendingEcho).
LinesAreOwn ==
    \A e \in Projects :
      /\ verdict[e] \in {"warning", "budget"} => \E i \in DOMAIN filed[e] : NotesOf(e) = {i}
      /\ verdict[e] \in {"staging", "noJest", "failed", "passed"} => NotesOf(e) = {}
      /\ \A i \in DOMAIN filed[e] : filed[e][i].of \in {e} \cup crowded

\* The project at which the caller last took the package of this one to be new.
FirstOf(e) ==
    CHOOSE d \in 1..e :
      /\ \A c \in d..e : batch[c].pkg = batch[e].pkg
      /\ \A c \in d..(e - 1) : verdict[c] # "budget"
      /\ d = 1 \/ batch[d - 1].pkg # batch[e].pkg \/ verdict[d - 1] = "budget"

\* A project runs in the place as it opened plus what its own package's stage
\* stands for, each instance once, whatever ran before it and however that
\* ended; a package is refused only if two instances that are not both folders
\* claim one path; and the task leaves the place without a stage.  The
\* exception is a package that was refused: its next project runs with nothing
\* staged, because executeEntry hands the refused package on as the one the
\* DataModel holds (embedded-runner.luau, executeEntry; materializer.luau).
StageIsOwn ==
    /\ pc \in {"staged", "parked", "woken"} =>
         IF verdict[FirstOf(at)] = "staging" THEN Clean(live) ELSE Staged(Entry.pkg, live)
    /\ pc = "staged" /\ FirstOf(at) = at => CanStage(Entry.pkg)
    /\ pc = "refused" => ~CanStage(Entry.pkg)
    /\ pc = "over" => Clean(live)

\* A share whose projects have a budget is run to its end, whatever its tests
\* do; and a test that waits for a child is not left waiting.
BatchEnds ==
    /\ (\A e \in Projects : batch[e].budgeted) => <>(pc = "over")
    /\ \A i \in 1..3 : (i \in Projects /\ executor[i] = "stuck")
                         ~> (i \in Projects /\ executor[i] # "stuck")
=============================================================================
