--------------------------- MODULE StaticDispatch ---------------------------
(***************************************************************************)
(* A dispatch without a queue (src/backends/open-cloud-dispatch.ts): the   *)
(* jobs are dealt into buckets, every bucket sends one task after another, *)
(* and all buckets are awaited together.  A workspace run re-sends what a  *)
(* full envelope left behind (runDeferrableAsync); a run of one package    *)
(* sends each bucket once and expects an entry per job                     *)
(* (runStaticBucketsAsync).  A task walks its entries as runEmbedded of    *)
(* luau/staging/embedded-runner.luau does; tasks share nothing, so a task's *)
(* whole walk is the step in which its result arrives.                     *)
(***************************************************************************)
EXTENDS Integers, Sequences, FiniteSets

CONSTANTS
    JobCount,      \* jobs of the run; a job is its position in the request
    Parallel,      \* --parallel: [kind |-> "unset" | "auto" | "count", n |-> its floor]
    ResendModes,   \* whether the run has a script factory (a workspace run), as a set
    Size,          \* bytes a job's entry adds to an envelope, measured
    EnvelopeBudget, \* resultBudgetBytes of one envelope
    MayFail,       \* the jobs whose tests may fail
    BailEnabled,   \* --bail
    MaxLosses      \* how many task results may be damaged on the way

Jobs == 1..JobCount

ASSUME JobsAssumption == JobCount \in Nat \ {0} /\ MayFail \subseteq Jobs
ASSUME SizeAssumption == Size \in [Jobs -> Nat \ {0}] /\ EnvelopeBudget \in Nat
ASSUME SwitchAssumption == {BailEnabled} \cup ResendModes \subseteq BOOLEAN /\ MaxLosses \in Nat

PARALLEL_AUTO_CAP == 3

Least(a, b) == IF a <= b THEN a ELSE b

\* How many buckets a run splits into; a count below 1 is refused before any
\* bucket exists.
ResolveBucketCount(parallel, jobCount) ==
    CASE parallel.kind = "unset" -> 1
      [] parallel.kind = "auto"  -> Least(jobCount, PARALLEL_AUTO_CAP)
      [] parallel.kind = "count" -> Least(parallel.n, jobCount)

ASSUME ParallelAssumption ==
    /\ Parallel \in [kind : {"unset", "auto", "count"}, n : Nat \ {0}]
    /\ ResolveBucketCount(Parallel, JobCount) \in Nat \ {0}

Buckets == 1..ResolveBucketCount(Parallel, JobCount)

\* Round robin: job i goes to bucket i % bucketCount.
InBucket(j, b) == (j - 1) % ResolveBucketCount(Parallel, JobCount) = b - 1

\* What filter keeps of s, in the order of s: the elements of S.
Filtered(s, S) ==
    LET kept[i \in 0..Len(s)] ==
            IF i = 0 THEN << >>
            ELSE IF s[i] \in S THEN Append(kept[i - 1], s[i]) ELSE kept[i - 1]
    IN kept[Len(s)]

BucketJobs == [b \in Buckets |-> Filtered([j \in Jobs |-> j], {j \in Jobs : InBucket(j, b)})]

Verdicts == {"pass", "fail"}
NoEntries == [j \in Jobs |-> "none"]

VARIABLES
    resends,      \* which of the two kinds of run this is
    pc,           \* per bucket: its create is pending, its task runs, or it is over
    remaining,    \* per bucket: the jobs of the task on its way, in order
    rounds,       \* per bucket: tasks that have returned an envelope
    collected,    \* per bucket: the entry that arrived for each job
    bailed,       \* per bucket: some envelope of it says bailed
    entryByKey,   \* what the run reports for each job, once all buckets are in
    outcome,      \* how the dispatch settled
    losses        \* damaged results so far

bucketVars == <<remaining, rounds, collected, bailed>>
runVars == <<resends, entryByKey, outcome>>
dispatchVars == <<resends, pc, remaining, rounds, collected, bailed, entryByKey, outcome, losses>>

DispatchInit == /\ resends \in ResendModes
                /\ pc = [b \in Buckets |-> "submitting"]
                /\ remaining = BucketJobs
                /\ rounds = [b \in Buckets |-> 0]
                /\ collected = [b \in Buckets |-> NoEntries]
                /\ bailed = [b \in Buckets |-> FALSE]
                /\ entryByKey = NoEntries
                /\ outcome = "running"
                /\ losses = 0

-----------------------------------------------------------------------------
(* One task's walk over its entries.                                       *)

\* ResultBudget.fits: an empty envelope takes anything.
Fits(w, bytes) == w.used = 0 \/ w.used + bytes <= EnvelopeBudget

EmptyWalk == [kept |-> 0, used |-> 0, largest |-> 0, tripped |-> FALSE, stop |-> "none"]

\* One entry of runEmbedded's loop: stopReason asks the bail, then the budget;
\* the entry runs; commitEntry keeps it or refuses it.
Visit(w, size, verdict) ==
    IF w.stop # "none" THEN w
    ELSE IF w.tripped THEN [w EXCEPT !.stop = "bailed"]
    ELSE IF ~Fits(w, w.largest) \/ ~Fits(w, size) THEN [w EXCEPT !.stop = "deferred"]
    ELSE [w EXCEPT !.kept = @ + 1, !.used = @ + size,
                   !.largest = IF size > @ THEN size ELSE @,
                   !.tripped = BailEnabled /\ verdict = "fail"]

\* The envelope of a task sent the jobs of s, when job j finishes as v[j].
Envelope(s, v) ==
    LET walk[i \in 0..Len(s)] ==
            IF i = 0 THEN EmptyWalk ELSE Visit(walk[i - 1], Size[s[i]], v[s[i]])
    IN walk[Len(s)]

\* How the tests of each job may turn out this time.
Runs == {v \in [Jobs -> Verdicts] : \A j \in Jobs : v[j] = "fail" => j \in MayFail}

-----------------------------------------------------------------------------
(* A bucket.                                                               *)

Accepted(b) == /\ pc[b] = "submitting"
               /\ pc' = [pc EXCEPT ![b] = "running"]
               /\ UNCHANGED <<bucketVars, runVars, losses>>

\* The create, the task or the read of its result fails: the bucket rejects.
Rejects(b) == /\ pc[b] \in {"submitting", "running"}
              /\ pc' = [pc EXCEPT ![b] = "rejected"]
              /\ UNCHANGED <<bucketVars, runVars, losses>>

\* addEntriesToMap: the first entry of a job stays.
Added(b, arrived, v) ==
    [j \in Jobs |-> IF collected[b][j] = "none" /\ j \in arrived THEN v[j] ELSE collected[b][j]]

Outstanding(b, held) == Filtered(remaining[b], {j \in Jobs : held[j] = "none"})

\* Mutant: the loop gives up on its last but one round.
StopsResending_Early(b, deferred, outstanding) ==
    \/ ~deferred
    \/ Len(outstanding) \in {0, Len(remaining[b])}
    \/ rounds[b] + 2 >= Len(BucketJobs[b])

\* Nothing deferred, nothing outstanding, nothing new, or one round per job spent.
StopsResending(b, deferred, outstanding) ==
    \/ ~deferred
    \/ Len(outstanding) \in {0, Len(remaining[b])}
    \/ rounds[b] + 1 = Len(BucketJobs[b])

\* One round of drainDeferralsAsync: the entries are kept, and what the task
\* deferred is sent again.  A damaged result reports none of its entries by key.
Returns(b) ==
    /\ pc[b] = "running"
    /\ resends
    /\ \E v \in Runs, damaged \in BOOLEAN :
         LET walk == Envelope(remaining[b], v)
             arrived == IF damaged THEN {} ELSE {remaining[b][i] : i \in 1..walk.kept}
             held == Added(b, arrived, v)
             outstanding == Outstanding(b, held)
         IN /\ losses' = IF damaged THEN losses + 1 ELSE losses
            /\ losses' <= MaxLosses
            /\ collected' = [collected EXCEPT ![b] = held]
            /\ bailed' = [bailed EXCEPT ![b] = @ \/ walk.stop = "bailed"]
            /\ rounds' = [rounds EXCEPT ![b] = @ + 1]
            /\ IF StopsResending(b, walk.stop = "deferred", outstanding)
               THEN pc' = [pc EXCEPT ![b] = "drained"] /\ UNCHANGED remaining
               ELSE /\ pc' = [pc EXCEPT ![b] = "submitting"]
                    /\ remaining' = [remaining EXCEPT ![b] = outstanding]
    /\ UNCHANGED runVars

\* runBucketAsync: one task, whose envelope must hold an entry per job.
ReturnsAll(b) ==
    /\ pc[b] = "running"
    /\ ~resends
    /\ \E v \in Runs, damaged \in BOOLEAN :
         /\ losses' = IF damaged THEN losses + 1 ELSE losses
         /\ losses' <= MaxLosses
         /\ IF damaged
            THEN pc' = [pc EXCEPT ![b] = "rejected"] /\ UNCHANGED collected
            ELSE /\ pc' = [pc EXCEPT ![b] = "drained"]
                 /\ collected' = [collected EXCEPT ![b] = Added(b, {j \in Jobs : InBucket(j, b)}, v)]
    /\ rounds' = [rounds EXCEPT ![b] = @ + 1]
    /\ UNCHANGED <<remaining, bailed, runVars>>

-----------------------------------------------------------------------------
(* The run.                                                                *)

\* Mutant: the run fails only once every bucket has.
RunFails_AllRejected == /\ outcome = "running"
                        /\ \A b \in Buckets : pc[b] = "rejected"
                        /\ outcome' = "failed"
                        /\ UNCHANGED <<resends, pc, bucketVars, entryByKey, losses>>

\* Promise.all rejects with the first bucket that does; the others go on.
RunFails == /\ outcome = "running"
            /\ \E b \in Buckets : pc[b] = "rejected"
            /\ outcome' = "failed"
            /\ UNCHANGED <<resends, pc, bucketVars, entryByKey, losses>>

AllDrained == outcome = "running" /\ \A b \in Buckets : pc[b] = "drained"

\* Whichever bucket a job's entry came in with; runStaticBucketsAsync writes it
\* back to the job's own position.
Merged == [j \in Jobs |->
    LET found == {b \in Buckets : collected[b][j] # "none"}
    IN IF found = {} THEN "none" ELSE collected[CHOOSE b \in found : TRUE][j]]

Merge == /\ AllDrained
         /\ entryByKey' = Merged
         /\ entryByKey' # entryByKey
         /\ UNCHANGED <<resends, pc, bucketVars, outcome, losses>>

\* Mutant: entries that never came are not looked for.
Verdict_NoGaps == IF \E b \in Buckets : bailed[b] THEN "bailed" ELSE "complete"

\* collectStealingResults.
Verdict == IF \E b \in Buckets : bailed[b] THEN "bailed"
           ELSE IF \E j \in Jobs : entryByKey[j] = "none" THEN "missing"
           ELSE "complete"

Collect == /\ AllDrained
           /\ entryByKey = Merged
           /\ outcome' = Verdict
           /\ UNCHANGED <<resends, pc, bucketVars, entryByKey, losses>>

BucketStep(b) == Accepted(b) \/ Returns(b) \/ ReturnsAll(b)

\* Every bucket has settled; what the run makes of it is Settles' business.
Over == /\ \A b \in Buckets : pc[b] \in {"drained", "rejected"}
        /\ UNCHANGED dispatchVars

DispatchNext == \/ \E b \in Buckets : BucketStep(b) \/ Rejects(b)
                \/ RunFails \/ Merge \/ Collect
                \/ Over

DispatchSpec == DispatchInit /\ [][DispatchNext]_dispatchVars

\* Every create is answered, every task returns or its poll gives up, and the
\* event loop runs the continuations.
DispatchFairness == /\ \A b \in Buckets : WF_dispatchVars(BucketStep(b))
                    /\ WF_dispatchVars(RunFails) /\ WF_dispatchVars(Merge) /\ WF_dispatchVars(Collect)

DispatchFairSpec == DispatchSpec /\ DispatchFairness

-----------------------------------------------------------------------------
(* Properties.                                                             *)

DispatchTypeOK == /\ pc \in [Buckets -> {"submitting", "running", "drained", "rejected"}]
                  /\ remaining \in [Buckets -> Seq(Jobs)]
                  /\ \A b \in Buckets : rounds[b] \in 0..Len(BucketJobs[b])
                  /\ resends \in ResendModes
                  /\ collected \in [Buckets -> [Jobs -> Verdicts \cup {"none"}]]
                  /\ bailed \in [Buckets -> BOOLEAN]
                  /\ entryByKey \in [Jobs -> Verdicts \cup {"none"}]
                  /\ outcome \in {"running", "failed", "bailed", "missing", "complete"}
                  /\ losses \in Nat

\* No job is left behind by a full envelope: as long as every result arrives
\* whole, one round per job is enough for each bucket, whatever the sizes ("a task
\* always runs at least one entry, so it cannot take more rounds than there are jobs").
RoundsSuffice == outcome = "missing" => losses > 0

\* A job reported as skipped by a bail stands behind a reported failure of its
\* own bucket: re-sends keep the order, a bail is never lost to a deferral, and "a sibling
\* bucket runs its whole share out even once this one has stopped".
SkippedBehindFailure ==
    outcome = "bailed" /\ losses = 0 =>
        \A j \in Jobs : entryByKey[j] = "none" =>
            \E i \in 1..j - 1, b \in Buckets :
                InBucket(i, b) /\ InBucket(j, b) /\ entryByKey[i] = "fail"

\* What the caller is promised, with the run's merged entries as what has arrived.
Promise == INSTANCE BatchOutcome WITH Jobs <- Jobs, collected <- entryByKey, outcome <- outcome
KeepsPromise == Promise!Spec

\* Every dispatch settles, and no bucket is left running behind it.
Settles == <>(outcome # "running" /\ \A b \in Buckets : pc[b] \in {"drained", "rejected"})
=============================================================================
