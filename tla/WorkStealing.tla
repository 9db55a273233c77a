---------------------------- MODULE WorkStealing ----------------------------
(***************************************************************************)
(* One work-stealing dispatch, end to end: the CLI's task pool             *)
(* (src/backends/open-cloud-pool.ts over roblox-runner's task-pool.ts),    *)
(* the Roblox tasks that drain the shared queue                            *)
(* (luau/staging/embedded-runner.luau with bail.luau and                   *)
(* result-budget.luau), the MemoryStore queue between them, and the        *)
(* collection of the envelopes (open-cloud-entries.ts).                    *)
(*                                                                         *)
(* A slot is one worker of the pool together with the task it is waiting   *)
(* for.  Every await of the TypeScript and every yield of the Luau is a    *)
(* step boundary; what runs between two of them is one step.               *)
(***************************************************************************)
EXTENDS Integers, FiniteSets

CONSTANTS
    Jobs,          \* the packages of the run, one queue item each
    TaskCount,     \* tasks of the wave: resolveBucketCount(parallel, jobs)
    Size,          \* bytes a job's entry adds to an envelope, measured
    Budget,        \* resultBudgetBytes of one envelope
    MayFail,       \* the jobs whose tests may fail (a flaky one may also pass)
    BailEnabled,   \* --bail
    FaultBudgets   \* how often each kind of fault may strike: the combinations allowed

\* What can go wrong from outside the code, by the call it strikes.
FaultKinds ==
    {"backoff",    \* submit refused: 429 or RESOURCE_EXHAUSTED
     "submit",     \* submit failed any other way
     "crash",      \* the task died, or the CLI lost it
     "read",       \* queue:ReadAsync raised
     "retire",     \* queue:RemoveAsync raised
     "requeue",    \* queue:AddAsync raised
     "window",     \* a read outlived its invisibility window
     "ttl",        \* a queue item outlived its TTL
     "signal",     \* the bail signal's SetAsync or GetAsync raised
     "stream"}     \* the streaming map's SetAsync raised

ASSUME JobsAssumption == IsFiniteSet(Jobs) /\ Jobs # {} /\ MayFail \subseteq Jobs
ASSUME TaskCountAssumption == TaskCount \in 1..Cardinality(Jobs)
ASSUME SizeAssumption == Size \in [Jobs -> Nat \ {0}] /\ Budget \in Nat
ASSUME SwitchAssumption == BailEnabled \in BOOLEAN /\ FaultBudgets \subseteq [FaultKinds -> Nat]

MAX_TASKS_PER_PLACE == 10
REQUEUE_ATTEMPTS == 3

SlotCount == IF TaskCount > MAX_TASKS_PER_PLACE THEN MAX_TASKS_PER_PLACE ELSE TaskCount
Slots == 1..SlotCount
\* Mutant: the launch bound forgets the wave itself.
MaxLaunches_JobsOnly == Cardinality(Jobs)

MaxLaunches == TaskCount + Cardinality(Jobs)

NoJob == "no job"
NoSlot == 0
Verdicts == {"pass", "fail"}
ASSUME NoJobAssumption == NoJob \notin Jobs

VARIABLES
    \* The CLI: runStealingTasksAsync and the pool's workers.
    launched,          \* launches claimed so far
    pendingDeferrals,  \* deferrals no launch has claimed yet
    pc,                \* where each slot's worker, or its task, stands
    failure,           \* outcome.failure: the slot whose error is held
    malformed,         \* a task returned something parseStealingEnvelope rejects
    collected,         \* entryByKey: first verdict to arrive for each job
    bailed,            \* some returned envelope says bailed
    outcome,           \* how the dispatch settled
    \* The Roblox side.
    task,              \* local state of the task in each slot
    visible,           \* queue copies of each job that a read can take
    hidden,            \* queue copies read by a task that will not retire them
    signal,            \* the wave's bail signal is set
    streamed,          \* jobs whose summary reached the streaming map
    \* Bookkeeping.
    faults             \* how often each fault has struck

poolVars  == <<launched, pendingDeferrals>>
cliVars   == <<failure, malformed, collected, bailed>>
queueVars == <<visible, hidden>>
vars == <<launched, pendingDeferrals, pc, failure, malformed, collected, bailed,
          outcome, task, visible, hidden, signal, streamed, faults>>

\* The steps of a task, from its first stop check to the envelope it returns.
TaskSteps == {"deciding", "reading", "executing", "requeuing", "retiring", "returning"}
WorkerSteps == {"submitting", "backoff", "exited"}

\* A task's local state: the item it read and whether that read still holds
\* the item, its run.results, ResultBudget tracker, Bail state and stop reason.
Task == [held : Jobs \cup {NoJob}, live : BOOLEAN, attempts : 0..REQUEUE_ATTEMPTS - 1,
         entries : [Jobs -> Verdicts \cup {"none"}], used : Nat, largest : Nat,
         tripped : BOOLEAN, stop : {"none", "bailed", "deferred"}]

FreshTask == [held |-> NoJob, live |-> FALSE, attempts |-> 0,
              entries |-> [j \in Jobs |-> "none"], used |-> 0, largest |-> 0,
              tripped |-> FALSE, stop |-> "none"]

-----------------------------------------------------------------------------
(* The pool.                                                               *)

\* isDone of runStealingTasksAsync.
PoolDone(l, p) == l >= TaskCount /\ (p = 0 \/ l >= MaxLaunches)

\* What a worker does with no await in between once its launch has settled,
\* p deferrals pending: it stops, or it claims a launch and a deferral with it.
Continue(s, p) ==
    /\ task' = [task EXCEPT ![s] = FreshTask]
    /\ IF PoolDone(launched, p)
       THEN /\ pc' = [pc EXCEPT ![s] = "exited"]
            /\ pendingDeferrals' = p
            /\ UNCHANGED launched
       ELSE /\ pc' = [pc EXCEPT ![s] = "submitting"]
            /\ pendingDeferrals' = IF p > 0 THEN p - 1 ELSE p
            /\ launched' = launched + 1

NoFault == UNCHANGED faults
Fault(k) == /\ faults' = [faults EXCEPT ![k] = @ + 1]
            /\ \E budget \in FaultBudgets : \A i \in FaultKinds : faults'[i] <= budget[i]

\* Every worker has claimed its first launch before any of them waits.
Init == /\ launched = SlotCount
        /\ pendingDeferrals = 0
        /\ pc = [s \in Slots |-> "submitting"]
        /\ failure = NoSlot
        /\ malformed = FALSE
        /\ collected = [j \in Jobs |-> "none"]
        /\ bailed = FALSE
        /\ outcome = "running"
        /\ task = [s \in Slots |-> FreshTask]
        /\ visible = [j \in Jobs |-> 1]
        /\ hidden = [j \in Jobs |-> 0]
        /\ signal = FALSE
        /\ streamed = {}
        /\ faults = [k \in FaultKinds |-> 0]

Submitted(s) == /\ pc[s] = "submitting"
                /\ pc' = [pc EXCEPT ![s] = "deciding"]
                /\ UNCHANGED <<poolVars, cliVars, outcome, task, queueVars, signal, streamed, faults>>

\* A refusal classifyBackoff recognises frees the slot and reports nothing.
SubmitRefused(s) == /\ pc[s] = "submitting"
                    /\ Fault("backoff")
                    /\ pc' = [pc EXCEPT ![s] = "backoff"]
                    /\ UNCHANGED <<poolVars, cliVars, outcome, task, queueVars, signal, streamed>>

BackoffEnds(s) == /\ pc[s] = "backoff"
                  /\ Continue(s, pendingDeferrals)
                  /\ UNCHANGED <<cliVars, outcome, queueVars, signal, streamed, faults>>

\* Any other rejection reaches onError, which holds the latest error.
SubmitFails(s) == /\ pc[s] = "submitting"
                  /\ Fault("submit")
                  /\ failure' = s
                  /\ Continue(s, pendingDeferrals)
                  /\ UNCHANGED <<malformed, collected, bailed, outcome, queueVars, signal, streamed>>

-----------------------------------------------------------------------------
(* The task: runWorkStealing.                                              *)

\* ResultBudget.fits, and shouldStop as fits asked of the largest entry so far.
Fits(t, bytes) == t.used = 0 \/ t.used + bytes <= Budget
EnvelopeFull(t) == ~Fits(t, t.largest)

\* Bail.shouldStop: tripped already, or the shared signal was read as set.
StopsOnBail(s) == /\ pc[s] = "deciding"
                  /\ BailEnabled /\ (task[s].tripped \/ signal)
                  /\ task' = [task EXCEPT ![s].tripped = TRUE, ![s].stop = "bailed"]
                  /\ pc' = [pc EXCEPT ![s] = "returning"]
                  /\ UNCHANGED <<poolVars, cliVars, outcome, queueVars, signal, streamed, faults>>

\* Mutant: the budget is asked without asking about the bail first.
SeesNoBail_Skipped(s) == NoFault

\* The signal is not set, or it is and the read that would have shown it raised.
SeesNoBail(s) == /\ ~task[s].tripped
                 /\ IF BailEnabled /\ signal THEN Fault("signal") ELSE NoFault

StopsOnBudget(s) == /\ pc[s] = "deciding"
                    /\ SeesNoBail(s)
                    /\ EnvelopeFull(task[s])
                    /\ task' = [task EXCEPT ![s].stop = "deferred"]
                    /\ pc' = [pc EXCEPT ![s] = "returning"]
                    /\ UNCHANGED <<poolVars, cliVars, outcome, queueVars, signal, streamed>>

GoesOn(s) == /\ pc[s] = "deciding"
             /\ SeesNoBail(s)
             /\ ~EnvelopeFull(task[s])
             /\ pc' = [pc EXCEPT ![s] = "reading"]
             /\ UNCHANGED <<poolVars, cliVars, outcome, task, queueVars, signal, streamed>>

Read(s, j) == /\ pc[s] = "reading"
              /\ visible[j] > 0
              /\ visible' = [visible EXCEPT ![j] = @ - 1]
              /\ task' = [task EXCEPT ![s].held = j, ![s].live = TRUE]
              /\ pc' = [pc EXCEPT ![s] = "executing"]
              /\ UNCHANGED <<poolVars, cliVars, outcome, hidden, signal, streamed, faults>>

\* Mutant: an empty read goes round the loop instead of leaving it.
ReadsEmpty_Polls(s) == /\ pc[s] = "reading"
                       /\ \A j \in Jobs : visible[j] = 0
                       /\ pc' = [pc EXCEPT ![s] = "deciding"]
                       /\ UNCHANGED <<poolVars, cliVars, outcome, task, queueVars, signal, streamed, faults>>

ReadsEmpty(s) == /\ pc[s] = "reading"
                 /\ \A j \in Jobs : visible[j] = 0
                 /\ pc' = [pc EXCEPT ![s] = "returning"]
                 /\ UNCHANGED <<poolVars, cliVars, outcome, task, queueVars, signal, streamed, faults>>

\* A read that raises ends the loop; the service may have hidden an item for it.
ReadFails(s) == /\ pc[s] = "reading"
                /\ Fault("read")
                /\ pc' = [pc EXCEPT ![s] = "returning"]
                /\ \/ UNCHANGED queueVars
                   \/ \E j \in Jobs : /\ visible[j] > 0
                                      /\ visible' = [visible EXCEPT ![j] = @ - 1]
                                      /\ hidden' = [hidden EXCEPT ![j] = @ + 1]
                /\ UNCHANGED <<poolVars, cliVars, outcome, task, signal, streamed>>

\* publishEntry: stream the summary, then Bail.observe broadcasts a first failure.
Publish(s, j, trips) ==
    \/ NoFault /\ streamed' = streamed \cup {j} /\ signal' = (signal \/ trips)
    \/ Fault("stream") /\ signal' = (signal \/ trips) /\ UNCHANGED streamed
    \/ trips /\ Fault("signal") /\ streamed' = streamed \cup {j} /\ UNCHANGED signal

\* The entry has run and fits: commitEntry publishes it, then keeps it.
Commit(s, verdict) ==
    LET t == task[s]
        j == t.held
    IN /\ pc[s] = "executing"
       /\ Fits(t, Size[j])
       /\ verdict = "fail" => j \in MayFail
       /\ Publish(s, j, BailEnabled /\ verdict = "fail" /\ ~t.tripped)
       /\ task' = [task EXCEPT
              ![s].entries[j] = IF @ = "none" THEN verdict ELSE @,
              ![s].used = @ + Size[j],
              ![s].largest = IF Size[j] > @ THEN Size[j] ELSE @,
              ![s].tripped = @ \/ (BailEnabled /\ verdict = "fail")]
       /\ pc' = [pc EXCEPT ![s] = "retiring"]
       /\ UNCHANGED <<poolVars, cliVars, outcome, queueVars>>

\* Mutant: the summary is streamed before the entry is measured.
Drop_Streams(s) == /\ pc[s] = "executing"
                   /\ ~Fits(task[s], Size[task[s].held])
                   /\ task' = [task EXCEPT ![s].stop = "deferred"]
                   /\ pc' = [pc EXCEPT ![s] = "requeuing"]
                   /\ streamed' = streamed \cup {task[s].held}
                   /\ UNCHANGED <<poolVars, cliVars, outcome, queueVars, signal, faults>>

\* The entry has run and does not fit: it is dropped and its item put back.
Drop(s) == /\ pc[s] = "executing"
           /\ ~Fits(task[s], Size[task[s].held])
           /\ task' = [task EXCEPT ![s].stop = "deferred"]
           /\ pc' = [pc EXCEPT ![s] = "requeuing"]
           /\ UNCHANGED <<poolVars, cliVars, outcome, queueVars, signal, streamed, faults>>

RequeueLands(s) == /\ pc[s] = "requeuing"
                   /\ visible' = [visible EXCEPT ![task[s].held] = @ + 1]
                   /\ pc' = [pc EXCEPT ![s] = "retiring"]
                   /\ UNCHANGED <<poolVars, cliVars, outcome, task, hidden, signal, streamed, faults>>

\* The read in slot s is over, the item not retired: it stays hidden until its
\* window ends, unless the window has ended already.
Abandon(s) == hidden' = IF task[s].live THEN [hidden EXCEPT ![task[s].held] = @ + 1]
                                        ELSE hidden

\* Mutant: the read is retired even though no put-back was accepted.
RequeueRefused_Retires(s) ==
    /\ pc[s] = "requeuing"
    /\ Fault("requeue")
    /\ IF task[s].attempts + 1 < REQUEUE_ATTEMPTS
       THEN task' = [task EXCEPT ![s].attempts = @ + 1] /\ UNCHANGED pc
       ELSE pc' = [pc EXCEPT ![s] = "retiring"] /\ UNCHANGED task
    /\ UNCHANGED <<poolVars, cliVars, outcome, queueVars, signal, streamed>>

\* A refused put-back, which may have landed all the same, is tried again; the
\* last refusal leaves the read standing.
RequeueRefused(s) ==
    /\ pc[s] = "requeuing"
    /\ Fault("requeue")
    /\ \/ UNCHANGED visible
       \/ visible' = [visible EXCEPT ![task[s].held] = @ + 1]
    /\ IF task[s].attempts + 1 < REQUEUE_ATTEMPTS
       THEN /\ task' = [task EXCEPT ![s].attempts = @ + 1]
            /\ UNCHANGED <<pc, hidden>>
       ELSE /\ Abandon(s)
            /\ task' = [task EXCEPT ![s].held = NoJob, ![s].live = FALSE]
            /\ pc' = [pc EXCEPT ![s] = "returning"]
    /\ UNCHANGED <<poolVars, cliVars, outcome, signal, streamed>>

\* retireRead: best effort, and of no effect once the window has ended.
Retire(s) == /\ pc[s] = "retiring"
             /\ \/ NoFault /\ UNCHANGED hidden
                \/ Fault("retire") /\ task[s].live /\ Abandon(s)
             /\ task' = [task EXCEPT ![s].held = NoJob, ![s].live = FALSE]
             /\ pc' = [pc EXCEPT ![s] = IF task[s].stop = "none" THEN "deciding" ELSE "returning"]
             /\ UNCHANGED <<poolVars, cliVars, outcome, visible, signal, streamed>>

\* Mutant: the last entry of a job wins.
Return_LastWins(s) ==
    LET t == task[s] IN
    /\ pc[s] = "returning"
    /\ collected' = [j \in Jobs |-> IF t.entries[j] # "none" THEN t.entries[j] ELSE collected[j]]
    /\ bailed' = (bailed \/ t.stop = "bailed")
    /\ Continue(s, IF t.stop = "deferred" THEN pendingDeferrals + 1 ELSE pendingDeferrals)
    /\ UNCHANGED <<failure, malformed, outcome, queueVars, signal, streamed, faults>>

\* The envelope reaches the CLI: onResult keeps it and counts its deferral.
\* Entries are folded in as envelopes arrive, which is the order the map built
\* once the pool has settled reads them in.
Return(s) ==
    LET t == task[s] IN
    /\ pc[s] = "returning"
    /\ collected' = [j \in Jobs |-> IF collected[j] = "none" THEN t.entries[j] ELSE collected[j]]
    /\ bailed' = (bailed \/ t.stop = "bailed")
    /\ Continue(s, IF t.stop = "deferred" THEN pendingDeferrals + 1 ELSE pendingDeferrals)
    /\ UNCHANGED <<failure, malformed, outcome, queueVars, signal, streamed, faults>>

\* The task dies at any step, or the CLI loses sight of it.  Either its promise
\* rejects, or it resolves to something that is no envelope and reads as
\* nothing outstanding until the strict parse.
Crash(s) ==
    /\ pc[s] \in TaskSteps
    /\ Fault("crash")
    /\ \/ failure' = s /\ UNCHANGED malformed
       \/ malformed' = TRUE /\ UNCHANGED failure
    /\ Abandon(s)
    /\ Continue(s, pendingDeferrals)
    /\ UNCHANGED <<collected, bailed, outcome, visible, signal, streamed>>

-----------------------------------------------------------------------------
(* The queue, by itself.                                                   *)

\* The window of a read nobody retired ends and its item can be read again.
WindowEnds(j) == /\ outcome = "running"
                 /\ hidden[j] > 0
                 /\ hidden' = [hidden EXCEPT ![j] = @ - 1]
                 /\ visible' = [visible EXCEPT ![j] = @ + 1]
                 /\ UNCHANGED <<poolVars, pc, cliVars, outcome, task, signal, streamed, faults>>

\* The window ends under a task that still works on the item.
WindowTooShort(s) == /\ pc[s] \in {"executing", "requeuing", "retiring"}
                     /\ task[s].live
                     /\ Fault("window")
                     /\ task' = [task EXCEPT ![s].live = FALSE]
                     /\ visible' = [visible EXCEPT ![task[s].held] = @ + 1]
                     /\ UNCHANGED <<poolVars, pc, cliVars, outcome, hidden, signal, streamed>>

\* An item outlives its TTL before anyone takes it.
TtlEnds(j) == /\ outcome = "running"
              /\ Fault("ttl")
              /\ \/ visible[j] > 0 /\ visible' = [visible EXCEPT ![j] = @ - 1] /\ UNCHANGED hidden
                 \/ hidden[j] > 0 /\ hidden' = [hidden EXCEPT ![j] = @ - 1] /\ UNCHANGED visible
              /\ UNCHANGED <<poolVars, pc, cliVars, outcome, task, signal, streamed>>

-----------------------------------------------------------------------------
(* The end of the dispatch.                                                *)

\* drainStealingPoolAsync rethrows a held failure; the strict parse rejects a
\* malformed result; collectStealingResults decides the rest.
Settle == /\ outcome = "running"
          /\ \A s \in Slots : pc[s] = "exited"
          /\ outcome' = IF failure # NoSlot \/ malformed THEN "failed"
                        ELSE IF bailed THEN "bailed"
                        ELSE IF \E j \in Jobs : collected[j] = "none" THEN "missing"
                        ELSE "complete"
          /\ UNCHANGED <<poolVars, pc, cliVars, task, queueVars, signal, streamed, faults>>

Settled == outcome # "running" /\ UNCHANGED vars

\* What a slot does of its own accord.
SlotStep(s) == \/ Submitted(s) \/ BackoffEnds(s)
               \/ StopsOnBail(s) \/ StopsOnBudget(s) \/ GoesOn(s)
               \/ ReadsEmpty(s) \/ \E j \in Jobs : Read(s, j)
               \/ Drop(s) \/ \E v \in Verdicts : Commit(s, v)
               \/ RequeueLands(s) \/ Retire(s) \/ Return(s)

\* What strikes it from outside.
SlotFault(s) == \/ SubmitRefused(s) \/ SubmitFails(s) \/ ReadFails(s)
                \/ RequeueRefused(s) \/ WindowTooShort(s) \/ Crash(s)

Next == \/ \E s \in Slots : SlotStep(s) \/ SlotFault(s)
        \/ \E j \in Jobs : WindowEnds(j) \/ TtlEnds(j)
        \/ Settle
        \/ Settled

Spec == Init /\ [][Next]_vars

\* The event loop and the Roblox scheduler run what can run, a submit is answered
\* or times out, a backoff is a finite timer and a package's run ends at the
\* latest with the task's deadline.
FairSpec == Spec /\ (\A s \in Slots : WF_vars(SlotStep(s))) /\ WF_vars(Settle)

-----------------------------------------------------------------------------
(* Properties.                                                             *)

TypeOK ==
    /\ launched \in Nat /\ pendingDeferrals \in Nat
    /\ pc \in [Slots -> TaskSteps \cup WorkerSteps]
    /\ failure \in Slots \cup {NoSlot}
    /\ malformed \in BOOLEAN /\ bailed \in BOOLEAN /\ signal \in BOOLEAN
    /\ collected \in [Jobs -> Verdicts \cup {"none"}]
    /\ outcome \in {"running", "failed", "bailed", "missing", "complete"}
    /\ task \in [Slots -> Task]
    /\ visible \in [Jobs -> Nat] /\ hidden \in [Jobs -> Nat]
    /\ streamed \in SUBSET Jobs
    /\ faults \in [FaultKinds -> Nat]

Struck(kinds) == \E k \in kinds : faults[k] > 0

\* The run will be rejected whatever else happens.
Loud == failure # NoSlot \/ malformed

\* Task s holds j in such a way that it will either report it or give it back.
Answers(s, j) == /\ task[s].held = j /\ task[s].live
                 /\ pc[s] \in {"executing", "requeuing"}

\* No job is ever lost in silence: at every step it is in the queue, in the
\* hands of a task that answers for it, in an envelope or collected -- or the run
\* is going to fail, or its queue item ran out of TTL.  This is what putting a
\* dropped item back BEFORE retiring its read buys (runWorkStealing).
JobsAccounted ==
    \A j \in Jobs : \/ visible[j] > 0 \/ hidden[j] > 0
                    \/ \E s \in Slots : Answers(s, j) \/ task[s].entries[j] # "none"
                    \/ collected[j] # "none"
                    \/ Loud \/ Struck({"ttl"})

\* An envelope over the budget carries a single entry: the one that was alone
\* bigger than the budget (commitEntry measures before it keeps).
EnvelopesFit ==
    \A s \in Slots : task[s].used > Budget =>
        \E j \in Jobs : /\ task[s].used = Size[j]
                        /\ \A i \in Jobs : task[s].entries[i] # "none" => i = j

\* A task that defers reports something, so a chain of replacements makes
\* progress with every link ("a worker always takes at least one item").
DeferralsMakeProgress ==
    \A s \in Slots : task[s].stop = "deferred" => \E j \in Jobs : task[s].entries[j] # "none"

\* A deferral waits for its replacement launch only when the launch budget is
\* spent, and the budget holds ("each deferral earns exactly one replacement").
DeferralsClaimed == /\ launched <= MaxLaunches
                    /\ pendingDeferrals > 0 => launched = MaxLaunches

\* A task that knows of a bail takes no further item and asks for no replacement
\* ("a task that fills its envelope AND has bailed must report the bail").
BailOutranksDeferral ==
    \A s \in Slots : task[s].tripped => /\ task[s].stop # "deferred"
                                        /\ pc[s] \notin {"reading", "executing", "requeuing"}

\* Each job is in one place at a time, and so reported once, unless a task died with
\* entries of unretired reads, a queue call failed or a window was too short: only those
\* make the duplicates that aggregateEntriesByKey folds.
OneCopy ==
    \/ Struck({"crash", "retire", "requeue", "window"})
    \/ \A j \in Jobs :
         visible[j] + hidden[j]
           + Cardinality({s \in Slots : task[s].entries[j] # "none"})
           + (IF collected[j] = "none" THEN 0 ELSE 1) <= 1

\* A dispatch that reports jobs as deliberately skipped reports the failure that
\* made it skip them (README: "a bail is a test failure that ended the run") -- unless
\* a package was run twice, since the entry that is kept may be its passing one.
BailHasFailure ==
    outcome = "bailed" => \/ \E j \in Jobs : collected[j] = "fail"
                          \/ Struck({"retire", "requeue", "window"})

\* A package whose live summary was published is in the final results of every
\* run that succeeds: nothing is announced for an entry that was dropped.
StreamedIsReported == outcome \in {"bailed", "complete"} =>
                          \A j \in streamed : collected[j] # "none"

\* With the services behaving, every job comes back: the deferral chain, its launch
\* bound and the put-backs leave no job behind.  The excused faults are those that
\* can keep an item from every task that is left to read it.
ServicesFailed == Struck({"backoff", "read", "requeue", "retire", "window", "ttl"})
NothingMissing == outcome = "missing" => ServicesFailed

\* With the services behaving, the launch budget answers every deferral of the
\* chain; it is tight, since a task that fills its envelope with the last job
\* of the queue still defers.
LaunchBudgetSuffices == ~ServicesFailed => pendingDeferrals = 0

\* A refused submit is waited out and retried, never an error of the run.
BackoffIsHarmless == outcome = "missing" => Struck(FaultKinds \ {"backoff"})

\* What holds of the pool and the queue at every step: no job is lost, and the
\* launches answer the deferrals.
PoolInv == TypeOK /\ JobsAccounted /\ DeferralsClaimed

\* What an envelope may hold and say: within its budget, never empty when it defers,
\* never a deferral behind a bail.
EnvelopesSound == EnvelopesFit /\ DeferralsMakeProgress /\ BailOutranksDeferral

\* With the services behaving, replacement launches and put-backs leave nothing behind.
DeferralsSuffice == NothingMissing /\ LaunchBudgetSuffices

\* What a run has announced it can show: a streamed summary, a bail, one entry a job.
ReportsAreTrue == StreamedIsReported /\ BailHasFailure /\ OneCopy

\* A run is complete where nothing failed, and true to what it announced.
RunIsWhole == DeferralsSuffice /\ ReportsAreTrue

\* Every dispatch settles.
Terminates == <>(outcome # "running")

\* The dispatch keeps what its caller is promised.
Promise == INSTANCE BatchOutcome
KeepsPromise == Promise!Spec
=============================================================================
