# Verification of jest-roblox-cli

TLA+ models of the concurrent and distributed parts of this repository, checked
with TLC on small instances and, for the properties that matter most, proved
with TLAPS for every value of the constants. Paths are relative to the
repository root: `src/` is the command line (Node), `packages/` its workspace
packages, `luau/` what runs inside a Roblox place, `plugin/` the Studio plugin.

- [1. The system](#1-the-system)
- [2. Modules](#2-modules)
- [3. Runs](#3-runs)
- [4. Fairness](#4-fairness)
- [5. What is proved, and how](#5-what-is-proved-and-how)
- [6. Disagreements found](#6-disagreements-found)
- [7. What is not modelled](#7-what-is-not-modelled)
- [8. Plan](#8-plan)
- [9. Running everything](#9-running-everything)

`PROJECT.json` lists components, runs, mutants, hazards and theorems, and maps
each definition to the lines it stands for.

## 1. The system

`jest-roblox` runs Jest suites written for Roblox. The command line resolves
the configuration, stages places, and hands *jobs* (packages or projects) to a
*backend*, which makes Roblox execute them and returns one result per job:

| backend | where the tests run | how they are reached |
|---|---|---|
| `open-cloud` | Luau-execution tasks on Roblox's servers | HTTP; MemoryStore queue and maps |
| `studio` | a Studio that is already open | WebSocket, dialled by an installed plugin |
| `studio-cli` | a Studio the command line launches | WebSockets from a play session |

### Components, their state and their operations

**Work-stealing dispatch** (`src/backends/open-cloud-pool.ts`,
`packages/roblox-runner/src/task-pool.ts`, `luau/staging/embedded-runner.luau`,
`luau/staging/result-budget.luau`, `luau/staging/bail.luau`,
`src/backends/open-cloud-entries.ts`).
*State*: launches claimed and deferrals pending; the worker of each slot; the
queue items, visible or hidden by a read; each task's envelope, bail flag and
stop reason; the shared bail signal; the collected entries.
*Operations*: submit, back off, fail; decide whether to stop; read, run, measure,
commit or put back, retire; return an envelope; collect.
*Interactions*: up to ten workers in one event loop, and as many Roblox tasks,
share a MemoryStore queue and the bail signal; envelopes come back over HTTP.
*Hard*: two counters changed on both sides of awaits; a read that outlives its
invisibility window; a put-back refused after it landed; bail and a full envelope
at once.
*Correct when*: no job is lost in silence, none is run twice while the services
behave, an envelope fits what Roblox returns, the deferral chain ends, and a bail
is a failure somebody can see.

**Execution recovery** (`src/backends/execution-recovery.ts`, `execution-hedge.ts`,
`execution-boot-watch.ts`, `luau/execution-claim.luau`).
*State*: up to four submissions of one execution and what their observers have
seen; the one-rescue allowance; the watch's generation and the observations it
handed out; on Roblox's side one MemoryStore key all the tasks claim.
*Operations*: create, observe, reread, hedge, retry, rescue, give up; claim, run,
return a sentinel; arm the watch, read the claim.
*Hard*: a create that timed out may have made a task; the loser of the claim may
answer first, with output that looks like a result; the watch is re-armed under
an outstanding read.
*Correct when*: the tests run at most once, and the caller is told that run's
result or an error, exactly once.

**Result relay** (`src/backends/result-relay.ts`, `luau/execution-result-relay.luau`).
*State*: the sorted map's chunks, the deletes in flight, the reader's progress,
the task's position, the poll. *Operations*: publish a chunk and wait until it is
gone; read, delete, resume after a timeout; poll, reread, abort. *Hard*: the delete
of a chunk is its acknowledgement, so a delete that lands late, twice or never,
and an expiry, all look alike to the publisher. *Correct when*: an acknowledged
chunk was read, nothing is left in the map, and a whole result is never
overwritten by an error.

**Studio session, `studio` backend** (`src/backends/studio.ts`,
`plugin-connections.ts`, `plugin/src/init.server.luau`, `reconnect-loop.luau`).
*State*: each installed copy's dial loop and socket; the pool's candidates and what
they announced; the selection's two timers; the run and the socket it went to.
*Operations*: dial, open, close, back off; announce; start a run, select, dispatch,
answer, time out, close. *Hard*: several copies are installed, some stale; sockets drop and are redialled
in the middle of a selection or a run; an answer to an earlier run arrives late.
*Correct when*: a fitting copy that is connected is taken, one copy executes a
run, a run takes its own answer only, and every run settles.

**Studio run, `studio-cli` backend** (`src/backends/studio-cli.ts`,
`studio-cli-bootstrap.ts`, `studio-cli-deadlines.ts`,
`plugin/src/test-in-run-mode.server.luau`). *State*: the bootstrap script, the play
session's attributes (side channel, claim), each copy's wait and socket, the
command line's boot, run and nil-return timers. *Operations*: launch, bootstrap,
return (or return nil), connect, relay arguments, claim, defer, refuse, serve,
time out. *Hard*: `ExecuteRunModeAsync` may return nil while the session goes on,
and the arguments must then travel by another way to the right one of several
copies; five timeouts in two processes have to nest. *Correct when*: a
copy that cannot serve never answers for one that does, a copy that is told to
relay is still there, the give-up waits for every copy, and every run settles.

**Studio launch and teardown, `studio-cli` backend** (`src/backends/studio-cli.ts`,
`studio-cli-process.ts`, `hidden-helper.ts`, `studio-lock.ts`). *State*: the Studio of a run
and its pid, the helper that may launch it, the place's lock file, the watch of the lock.
*Operations*: clear the lock, spawn directly or through the helper, hear the pid, tear down
hard or gracefully, poll the lock, escalate. *Hard*: all launches of a project share one
lock file, which a killed Studio leaves behind; a kill may be asked for before the pid is
known. *Correct when*: a Studio that answered closes its place before it is killed, none is
forgotten, and nothing keeps the process of a settled run.

**VM hosts** (`plugin/src/test-in-run-mode.server.luau`, `luau/vm-parallel.luau`).
*State*: the hosts still trusted, the staged package, the exchange's answers and
deadline, and what each host still runs. *Operations*: collect ready hosts, stage a
package, slice, fire, collect, drop hosts that hung. *Hard*: a host that misses the
deadline runs on while the next package is staged into the same DataModel.
*Correct when*: an answer belongs to the package it is reported for, and no host
runs two packages at once.

**Static-bucket dispatch** (`src/backends/open-cloud-dispatch.ts`,
`open-cloud-buckets.ts`, `open-cloud-entries.ts`). *State*: per bucket the jobs
still to send, the rounds used and what came back. *Operations*: send a bucket, take
its envelope, re-send what a full one left behind, reject, merge, collect. *Hard*: a
round may cover nothing, bail and a full envelope may meet, a rejected bucket has
siblings under way. *Correct when*: a job is missing only behind a damaged result,
skipped only behind a failure of its own bucket, and every dispatch settles.

**Submission and capacity** (`packages/roblox-runner/src/ocale-runner.ts`,
`submit-budget.ts`, `capacity-submit-client.ts`, `task-submission.ts`). *State*: the
budget's deadline, the start of the wait under way, the evidence seen; the request's
place in the SDK's queue. *Operations*: queue, send, wait out a quota, watch the
tasks that block, give up. *Hard*: waits nest, are credited when they end, and
evidence restarts the clock in the middle of one. *Correct when*: no wait is
credited twice, none is charged that the service asked for, nothing is sent late.

**Runner in the place** (`luau/staging/embedded-runner.luau`, `infinite-yield.luau`,
`game-output-capture.luau`, `cooperative-scheduler.luau`, `runner-result.luau`,
`snapshot-patch.luau`). *State*: the staged package, the threads of each project, the
guard of the current run, the open capture and the echo it expects. *Operations*:
take an entry, stage it, run it under the guard, give way, wake on a warning or the
budget, end the threads, report. *Hard*: tests that wait forever share one DataModel
with the packages after them; a line printed in one turn is delivered in a later
one. *Correct when*: no thread of a run outlives its entry, a package runs on its own
stage, a line is in its own capture.

**Staging** (`luau/staging/materializer.luau`; `src/staging/place-builder.ts`,
`place-reuse.ts`, `src/utils/input-digest-cache.ts`). *State*: the tree and what was
put into it; on the host the place file, its reuse record and the digests of its
inputs. *Operations*: materialize, reset; compute the key, reuse or build, record.
*Hard*: pooled mounts and markers with children of their own that collide; several
runs over one cache directory, inputs edited while they are digested. *Correct
when*: a package that is staged has exactly its parts, one that is refused leaves
nothing, and a place that is handed out again is built from the inputs as they are.

**Coverage pipeline** (`src/coverage-pipeline/`). *State*: the shadow tree, the coverage maps
and the manifest of the tree, the place and the build record. *Operations*: decide to keep
the shadow, re-instrument, mirror, remove orphans, reuse or rebuild the place, write
manifest and record. *Hard*: every run trusts what the last one wrote, which may have
stopped anywhere; sources are edited and reverted. *Correct when*: place and maps
are those of the sources as they are, and a settled tree is reused.

**Place version and upload cache** (`src/backends/open-cloud-place-version.ts`,
`upload-cache.ts`). *State*: the cache file, the versions on the server. *Operations*:
hash, look up, upload, probe the boot, record, invalidate. *Hard*: the file is read
twice and the cache is shared by runs that lock nothing. *Correct when*: tests are
pinned to a version that has booted and holds what was hashed.

**Run orchestration and results** (`src/cli.ts`, `src/run/`, `src/workspace-runner.ts`,
`src/executor.ts`, `src/results/`, `src/output-merge.ts`, with the typecheck settings
and the selection of `src/config/`). *State*: the plan, the backend, the dispatch and
the type checker under one `Promise.all`, the results, the exit code. *Operations*: select,
resolve the backend, stage, dispatch, check types, close, process entries, merge,
gate coverage, set the code. *Hard*: an error in one branch leaves the other in
flight; a bail takes entries out of the middle of a list that is paired by position;
multi and workspace mode answer the same request by different rules. *Correct
when*: the code is 0 exactly when all that was asked passed, the backend is closed,
results are shown under their own project, and one project's failure costs no other
its snapshots.

**Shared utilities**: the atomic write with its sweep (`src/utils/atomic-write.ts`).
*State*: temporary files, named by pid and nonce. *Hard*: no lock, and pids that are
given out again. *Correct when*: the target is always whole and no sweep takes the
file of a write under way.

The components that are not modelled, and what is left out of the others, are in
[section 7](#7-what-is-not-modelled).

### How they interact

The orchestration (`src/run/`, `src/executor.ts`) opens a backend, asks it for
results once and closes it, while the type checker runs beside it. Under
`open-cloud` a workspace run goes to the work-stealing dispatch, or to static buckets
without a queue; every task of either is a *submission* and then one execution. A run
that carries its place as a Binary Input, an option production code does not select, has
that *one execution* driven by execution recovery (`open-cloud.ts:235-241`), whose
observations come from two racing sources: the poll of the task and the result relay.
In any other run an execution is the one task and its poll. Inside the task the runner
stages and runs one package after another. Before all this the staging and coverage
pipelines build the place and the upload cache pins its version. The models follow
these seams:

    CliRun --extends--> TestPlan, RunResults           one invocation
                             | extend
                         JobOrder
         | DispatchAnswers / DispatchFails
    WorkStealing, StaticDispatch --implement--> BatchOutcome
         |               | composed with Submission in CloudDispatch
    ExecutionRecovery --implements--> OneExecution     what a launch relies on
         | extends            | observe
    ExecutionClaim        ResultRelay                  Roblox's side / the second source
         | runs
    PlaceBatch --parameters from--> PlaceStage         inside the place

    StudioSession                                      studio
    StudioCliRun --extends--> HostFanOut               studio-cli, with its hosts

    CoverageCache, PlaceReuse, UploadCache, AtomicWrite   files kept from run to run
    StudioLaunch                                       studio-cli's Studio and its place lock

CliRun sees a backend as entries or a rejection. WorkStealing and StaticDispatch see
a launch as landing, being refused, failing, or its task dying; CloudDispatch opens
one bucket's creates up. ExecutionRecovery sees `executeWithResultRelayAsync` as one
observer that finishes, times out or fails; ResultRelay opens that observer up.

## 2. Modules

A step boundary is an `await` of the TypeScript or a yield of the Luau; what runs
between two of them is one action. Failures from outside carry a budget
(`FaultBudget`, `MaxFaults`), so that a run can be given exactly the ones its
question is about. Definitions keep the source's names where they can. A
definition named `X_Something`, commented "Mutant", is a plausible bug of `X` that
no specification uses: `PROJECT.json` says which property it breaks.

### WorkStealing, MCWorkStealing, BatchOutcome

One dispatch, end to end. A *slot* is a worker of the pool together with the task
it waits for: `pc[s]` runs through the worker's steps (`submitting`, `backoff`,
`exited`) and the task's (`deciding`, `reading`, `executing`, `requeuing`,
`retiring`, `returning`).

| code | model |
|---|---|
| `launched`, `pendingDeferrals`, `isDone` of `runStealingTasksAsync` | the variables of the same names, `PoolDone` |
| worker loop of `task-pool.ts` | `Submitted`, `SubmitRefused`, `BackoffEnds`, `SubmitFails`, `Continue` |
| `runWorkStealing` of `embedded-runner.luau` | `StopsOnBail`, `StopsOnBudget`, `GoesOn`, `Read`, `Commit`, `Drop`, `Requeue*`, `Retire`, `Return` |
| `ResultBudget` | `Fits`, `EnvelopeFull` over measured sizes |
| `Bail`, the shared signal | `tripped`, `signal`, `Publish` |
| MemoryStore queue | `visible`, `hidden`: copies of each item; `WindowEnds`, `WindowTooShort`, `TtlEnds` |
| `aggregateEntriesByKey`, `collectStealingResults` | `collected`, `Settle` |

Abstractions: an entry is its verdict; a size is a number the instance chooses;
entries are folded into `collected` as envelopes arrive, in the order the map built
at the end would read them. `MCWorkStealing` holds the sizes and fault budgets of
the instances. `BatchOutcome` is what the executor is promised: verdicts that
arrived are not replaced, and "complete" and "missing" mean it.

### ExecutionClaim, ExecutionRecovery, OneExecution

`ExecutionClaim` is Roblox's side: tasks that call `UpdateAsync` on one key up to
`ClaimAttempts` times, where a call may land and report an error. Time is two
moments, the end of the start window and, later, the end of the key's retention.
`ExecutionRecovery` extends it with the command line: `seen` and `reread` are what
each submission's observers have come to, `canRescue`/`rescued` the shared
allowance of `withSubmissionRescue`, `generation`, `reads`, `settled` and `holding` the boot
watch (the promises it handed out, and the one the race is holding). `Outcome`
states what an attempt's promise resolves to once a rescue may stand behind it.
`watchesSubmission` is the option of that name, chosen with the initial state: TRUE is
what the command line passes, FALSE the function's default; `MCExecutionRecovery` follows
the second to the end of the race. `OneExecution` is the promise: at most one
task runs, and the answer is its result or an error, once.

### ResultRelay

The publisher and the reader of one result in `Chunks` parts. Requests of the
reader are sent, land and are answered in separate steps, because a request that
was given up may land all the same: `deletes` are deletes that were sent and may still land,
`got` is what the reader holds, `part` what the publisher is at. `native` is the
poll of the task; `phase` is the caller's race between the two and the recovery
after a timeout.

### StudioSession

The `studio` backend. Per copy: the reconnect loop (`dial`, `delay`, `socket`,
`opened`) with its doubling, capped delay. Per socket: `link` and the frames in
both directions. The pool: `candidates`, `hello`, and the two windows of a
selection (`connect`, `grace`). The run: `phase`, `run`, `selected`, `outcome`.
`ranOn` and `completed` are history. The `version_mismatch` reply of a copy is not
modelled: only a socket that announced a fitting protocol is dispatched to, so no
copy has occasion to send it. `SeesClose` is the first of Error and Closed: its handler
disconnects the listeners of that socket before it reports the attempt
(`init.server.luau:235-249`). That `failed` ignores a second report by itself
(`reconnect-loop.luau:36-38`) is therefore not exercised.

### HostFanOut, StudioCliRun

`HostFanOut` is `fanOutToHosts`: packages one after another, each staged into the
one DataModel; an exchange per package with its batch number and deadline; `threads[h]`
the slices host `h` still runs, in this exchange or an old one. A host
fires its answer against whatever is staged *by then*, which is what makes late
answers dangerous; `kept` is the history of what the run returned.

`StudioCliRun` extends it with the bootstrap, the copies, the claim attribute, the
nil-return relay and the command line's timers. `server` is the copy that can serve
the run, or `NoCopy`; `keyed` says whether the run asks for its plugin by key. Assumptions:

- at most one installed copy can serve: two copies with equal versions and no key
  both pass the handshake, and nothing in the code chooses between them;
- stale copies run this version of the copy's code with another version number;
- `GetTestArgs` is nil exactly when `ExecuteRunModeAsync` returns nil, and a nil
  return comes within `Skew` of the bootstrap;
- settling and tearing down are one step (microtasks of one event-loop turn; what the
  teardown does to Studio is StudioLaunch's subject), and the coordinator's own steps take
  no time;
- a workspace run's fan-out is not bounded by an envelope on Studio, so only
  `--bail` stops it early; its configs have no nested mounts, which makes
  `planSlices` plain round robin. The single-package split (`runInVmHosts`) is one
  exchange of the same protocol and is not modelled separately.

### StaticDispatch, Submission, CloudDispatch

`StaticDispatch` has one record per bucket: `pc`, `remaining`, `rounds`, `collected`,
`bailed`. A task's whole walk over its entries is the step in which its envelope
arrives (`Envelope`, a recursive function over the jobs sent), since tasks of this
dispatch share nothing. `resends` is the mode: TRUE for a workspace run
(`runDeferrableAsync`), FALSE for a run of one package (`runStaticBucketsAsync`). It
implements `BatchOutcome` with the merged entries for what has arrived.

`Submission` is one create over a clock that starts with it: the policy, the budget's
`deadline`, the start of the wait that is under way, the evidence seen, the request's
`stage`. `charged` is history: the silence that no wait the service asked for excuses.
A third policy, an idempotent create without a budget (`task-submission.ts:226`), is left
out: nothing under `src/src` asks for it.

`CloudDispatch` extends both: the creates of one bucket, `Watched`, go through a
Submission (`Begin` starts it anew for each create); the creates of the other
buckets, which have a controller of their own, keep only their outcome.

### PlaceStage, PlaceBatch, MCPlaceBatch

`PlaceStage` is the materializer as operators on trees: `Materialized` puts a stage
into a place or refuses it, `WithoutClones` takes it out, and `Wanted`/`Agree`
say independently of any order of steps what a stage means. It is recursive and has
no theorems. `PlaceBatch` is a share of projects in one place and takes `Materialize`
and `Reset` as parameters, with what is promised of them (`MaterializerAssumption`: a
package the place can take then stands in it alone, one that is refused leaves nothing
behind, a reset leaves the place as it opened), so that its proofs hold for any
materializer. `MCPlaceBatch` passes PlaceStage's, and says when a tree is the place with
a package by `Wanted` and `Agree`; TLC evaluates the promise for its 76 shares before it
explores a state. A turn of Luau is one step; the lines printed in
it are in `posted` until it ends. Abstractions: of the output only the runner's own
lines; a stray thread of a test is decided when its tests start; a reset cannot fail;
a marker naming a pool entry that is missing and the run contexts of scripts are
left out; and in the stages the children of one staged folder have names of their own (a
clone would keep two of one name, where `AddChild` lets them meet). Several VM hosts are HostFanOut's subject, and the plain `runner.luau` of
multi mode, with its setup timing, coverage and last-seen hooks, is not modelled.

### CoverageCache, MCCoverageCache

One single-package shadow over any number of runs. A file is in the shadow as
`Probed`, `Plain`, torn or not at all, of some version; `manifest`, `record`, `map` and
`place` are what is on disk, `prev`, `hash`, `todo`, `recipe` what the run holds.
The options a run demands of the tree (globs, ignore list, instrumenter version) are
one thing, the set of files probed. `stale`, `drifted`, `unrecorded` and `edited` are
history and excuse by name what an interrupted run left, an input changed under a
run, and a place rebuilt without a record: reused with no record at all (`Unvouched`) it
promises nothing, reused on an older record everything but its input. rojo is
assumed deterministic. Excluded files are listed
a little earlier in the code than in the model.

### JobOrder, TestPlan, RunResults, CliRun, MCCliRun

`TestPlan` is the selection as operators over a request, multi mode and workspace
mode side by side; `RunResults` is what becomes of raw entries. Both keep jobs in the order
of their projects (`JobOrder`). Of the two snapshot counts only whether they are zero is
kept, and coverage is merged as the set of what was hit, since neither the sums nor the
order of the entries reaches the exit code. `CliRun` is one
invocation that uses both, with the dispatch and the checker as two branches of which
the first rejection ends the wait. A bail takes any subset of jobs out. Abstractions: globs and paths are `Owners`; a project's
coverage is one line only its own tests reach, and a gate holds if every job of the
unit hit its own; building the place is part of `StageAndLaunch` and `StageFails`; a
mismatch between jobs and entries is one of the ways of `DispatchFails`; an explicit
runtime include never matches a `.d` file; a single-executable build's check for a
type checker is left out. The request is forgotten once the plan is made, to keep the
state space small.

### AtomicWrite, UploadCache, PlaceReuse, StudioLaunch, MCKeptFiles

Four modules about files that command lines share without agreeing on them, each with any
number of processes, killed at any point.

`AtomicWrite`: `Lists`, `Judges` and `Removes` are the sweep, with the look at a pid and
the delete as separate steps; `Creates`, `Fills`, `Renames` the write. Pids are
reused as soon as their process is gone. Four random bytes are assumed not to be
drawn twice.

`UploadCache`: the cache is `writeFileSync` in place, so it may be found torn, and a
second writer may leave a tail of the first (`overlaid`). A version is its number;
`server` keeps the bytes of each. `proven` and `swapped` are history.

`PlaceReuse`: `StartBuild` to `SaveDigests` is the key, `ReadRecord` and `ComparePlace`
the decision, `RojoStarts` to `NoteBuild` the build. Inputs all have the same size,
so only stamps tell contents apart; `odd` marks an input that was written under an
older stamp, the three cases `input-digest-cache.ts` gives up. rojo reads its inputs at
one moment, and equal inputs build equal places. A build whose key cannot be computed
goes on as one without a key. The versions and manifests that go into the key too
are constant within a history.

`StudioLaunch`: command lines launch Studio onto one place file, one after another or at
once. `Spawns` clears the lock and launches directly or through a helper; `HelperLaunches`,
`HelperPrints` and `HearsPid` are the way a helper's Studio becomes known; `WaitAnswered`,
`LockPolled` and `WaitFails` the graceful and the hard teardown, `Terminate` what both end in.
Studio, the helper and the signals are external: Studio writes its lock when it opens the
place and removes it when it closes it, and a kill leaves it. There is no clock: the grace
cap and the wait after SIGTERM may pass at any moment. `shared` is history: the launches
that were not alone with the place. A second launch clears the lock of the first, whose
graceful close may then be cut short; the properties of the lock are about launches that had
the place to themselves.

`MCKeptFiles` runs these four and CoverageCache as alternatives (`subject`): they
share no file, and one run asks one question of all of them.

## 3. Runs

Every property of a passing run has a mutant of the code that breaks it.

| run | question | instance | why it is enough |
|---|---|---|---|
| `ws_tasks` | do envelopes, the deferral chain and `--bail` hold together while tasks and calls fail, is a job ever lost in silence, and is `BatchOutcome` implemented? | 3 jobs, 2 tasks, envelope budget 2, sizes 1, 1, 3; one of three fault budgets: signal, stream, crash, submit, backoff and read once each; or retire, TTL and window once each; or a window and three refused put-backs | one entry overflows alone, two fill exactly; two of three jobs may fail; two tasks meet on the queue and the signal; three refusals are what it takes to leave a read standing |
| `ws_backoff` | is a backoff harmless? (no) | one refused submit | the shortest counterexample |
| `er_recovery` | does one execution run once, does the caller get its result, is a hedge ever started on a stale claim read, and does it end? | all four submissions, two claim attempts, the watch armed by the creates; armed before them as well, with one claim attempt | the code's own bounds, except three claim attempts reduced to two: one that errs and one that follows. The claim's retries do not touch the watch, so the second arming is followed to the end with one |
| `rr_relay` | is an acknowledgement always a read, and is a whole result kept? | 3 chunks, 3 faults | a chunk before, at and after the one in doubt; a fault for each of publisher, reader and store |
| `ss_session` | one window, one copy, one run, its own answer; does every run settle? | 2 copies (one fits), 2 sockets, 2 runs, 1 fault, delay 1..2, grace 2 | two runs for late answers; a stale and a fitting copy; the delay grows once and is capped once |
| `sc_run` | does the right copy answer, do the deadlines nest, are hosts and packages kept apart? | 2 copies, 2 hosts, 2 packages of 2 entries, 1 fault; waits in the code's order | a host that hangs in one package and a package after it; a copy that fits and one that does not, or none |
| `sc_budget` | does the coordinator report before the command line gives up? (not with two packages) | host wait 4 of a run timeout of 7; prompt session | with `Packages = 1` the property holds |
| `cd_dispatch` | do buckets, re-sends and bail lose nothing, is no create given up or sent at the wrong time, and does the dispatch implement `BatchOutcome` and settle? | 5 jobs in 2 buckets, sizes 5, 1, 2, 3, 2 against an envelope of 3, jobs 1 and 4 may fail, 1 lost launch; silence budget 2, capacity limit 3, waits 1 and 2, deadline 3, 2 retries, two sets of blocking tasks | one job overflows alone, two fill exactly, two do not fit together; the budget is shorter than one wait and longer than the other, the waits run into the maximum; the blockers may stay the same or change |
| `cc_interrupted` | does a warm run converge on a cold one after an interruption? (no) | one module, two versions, two edits, one stop | the shortest counterexample |
| `kept_files` | is what one run leaves on disk ever trusted wrongly by another? | coverage: 2 edits, 2 stops, 2 versions, 2 recipes. Upload cache: 2 command lines, 3 runs, 3 contents of which 2 boot, 2 rebuilds. Atomic write: 2 writers, 2 pids, 3 writes, 2 kills. Place reuse: 2 builders, 1 input, 2 texts, 3 builds, 2 touches, clock up to 2. Studio: 2 command lines, each direct or through a helper | an edit and its revert with a stop at each point between; a writer, a reader and one that overtakes; a pid that is given out twice; a build that overlaps another and one after both; a lock left for the next launch and one that is shared |
| `cli_run` | is what was asked for what is run, reported and told by the exit code? | every request over 3 projects in 2 packages with 6 files, both modes, three layers of typecheck settings | two packages for a neighbour to fail, two projects in one for results to be paired wrongly; files owned by one, two and no project |
| `pb_batch` | do projects that share a place keep apart? | 72 shares of one project, a stage each, and four mixed ones of up to three projects with pooled mounts and collisions | every small stage against the place; a project that hangs, one staged over it, and one that finds that one's stage, refused ones among them |

`CHECK_DEADLOCK FALSE` is set for the runs of ExecutionRecovery, ResultRelay,
StudioCliRun, CliRun and PlaceBatch: an execution that has answered, a relay whose
caller has gone, a run whose Studio was killed, a process that has exited and a task
that has returned are over. WorkStealing (`Settled`), StaticDispatch (`Over`) and
the kept files (`Rest`) stutter explicitly when they are done, and StudioSession
never stops, so those runs check for deadlock.

### What each property says

One property of a run often has several named parts; the parts are what the comments
beside their definitions explain.

| property | says | hazard |
|---|---|---|
| `PoolInv` | `JobsAccounted`: a job is in the queue, in a task, collected, or the run has failed or let it expire. `DeferralsClaimed`: a deferral is claimed by a launch, or the budget of launches is spent | two counters of the pool changed around awaits; an item put back before its read is retired |
| `EnvelopesSound` | `EnvelopesFit`, `DeferralsMakeProgress`, `BailOutranksDeferral` | bail races the envelope's limit |
| `RunIsWhole` | `NothingMissing`, `LaunchBudgetSuffices`, `StreamedIsReported`, `BailHasFailure`, `OneCopy`; each names the faults that excuse it | an item that comes back; a bail nobody can see the reason of |
| `KeepsPromise` (twice) | the dispatch implements `BatchOutcome` | an entry that is replaced; a run that is called complete |
| `RecoveryInv` | `ThreeSubmissions`: at most three creates, one rescue among them; `GivesUpLast`: a failure is told only after every submission that may still answer was read again | the lost reply of a create |
| `RunsOnce`, `AnswersForTheRun` | the tests run once; the answer is that run's (`OneExecution`) | the lost reply of a claim; a loser that answers first |
| `SubmitsOnEvidence` | a hedge rests on a claim read sent after the last accepted submission; nothing is submitted once the caller has its answer | a read that outlived what it speaks of |
| `ChunksInStep` | `AckMeansRead`, `LeavesNothing` | a delete that is also an acknowledgement |
| `CompletedIsKept`, `Delivers` | a whole result is not overwritten; a task's result is read to the end | an error that follows a result |
| `CopiesInv` | `OneCopyPerRun` | copies that come and go |
| `SelectionIsSound` | `OneAtATime` (one window, one attempt), `NoFittingCopyOverlooked` | a drop in the middle of a selection |
| `AnswersItsRun` | an outcome is the answer to that run | a late answer over a new socket |
| `WaitsInv` | `RelayFindsCopy`, `ExpiresAfterCopies`, `NoRefusalWhileServed` | timeouts in two processes that must nest |
| `HostsKeepApart` | `OwnPackage`, `OnePackagePerHost` | a host that runs on after its deadline |
| `CloudInv` | `RoundsSuffice`: a job is missing only behind a result that was lost; `SkippedBehindFailure`: a skipped job has a reported failure before it in its bucket | bucket-wise re-sends against bail |
| `KeepsToBudget` | `ExpiresOnlyWhenSilent`, `NeverOutstays` | nested waits that are credited twice or not at all |
| `CreatesKeepTime` | `EvidenceNeverShortens`, `NoLateCreate` | evidence in the middle of a wait; a create sent after its caller's limit |
| `CacheInv` | `ManifestDescribesShadow`, with the interrupted runs that excuse it named; `PlaceIsCurrent`, `MapsMatchPlace` | a tree one run writes and the next trusts; a place reused for other sources |
| `SettledRunsReuse` | a run that finds nothing changed rebuilds nothing | a cache that is never hit |
| `UploadsAreSound` | what is recorded, and what tests are sent to, has booted and holds what was hashed | a file read twice; a cache nobody locks |
| `WritesAreWhole` | the target is whole; a sweep takes no live write's file | a pid that is given out again |
| `ReuseIsSound` | `DigestsHold`, `ReusedIsCurrent` | an input edited between stat, read and record |
| `LaunchesAreSound` | `LockIsOwn`, `ClosesInPeace`: a Studio alone with its place finds no lock but its own gone, and is killed early only once it let the place go; `NoStudioForgotten`; `LoopDrains` | a lock a killed Studio left; a kill asked for before the pid came |
| `CliInv` | `OpenedIsClosed`, `NothingOpenedForNothing`, `ResultsStayPaired`, `SiblingsSurvive` | a bail that takes entries out of a list paired by position; one project's failure |
| `PlanHonoursRequest` | nothing that was not asked for runs, and nothing asked for is left out in silence | two modes that answer one request by different rules |
| `ExitTellsOutcome` | the exit code is 0 exactly when all that was asked passed | partial results and merges |
| `OnlyOrphansWriteLate` | snapshots land before the exit code, but for the dispatch a rejected checker leaves behind | `Promise.all` and what it leaves in flight |
| `BatchInv` | `RunsKeepApart`: no thread, guard or mock of a run outlives its entry | threads that wait forever in a shared DataModel |
| `StageIsOwn` | a project's tests see exactly what its package stages | a stage failure, a mount with children that collide |
| `LinesAreOwn` | a line is in the capture of the project that wrote it, but for two written in one turn | prints that are delivered a turn later |
| `Terminates`, `EndsAnyway`, `EveryRunSettles`, `Settles`, `BatchEnds` | everybody who waits stops waiting | somebody waits forever |

## 4. Fairness

Fairness is asked only of what the code's own scheduling, or a deadline of its
own, brings about.

| specification | weakly fair | why | not asked |
|---|---|---|---|
| `WorkStealing!FairSpec` | each slot's own steps, `Settle` | the event loop and the Roblox scheduler run what is ready; a submit is answered or times out; a backoff is a timer; a package's run ends at the latest with the task's deadline | that a window ends, that the queue has an item |
| `ExecutionRecovery!FairSpec` | `HostStep` | creates, polls and rereads run under deadlines of the command line | anything of Roblox, or of the watch: a task may never start and a claim read never answer |
| `ResultRelay!FairSpec` | `Publish`, `Relay` | the task runs on; the reader's requests are sent, land and are answered | anything of the poll of the task, or of the caller |
| `StudioSession!FairSpec` | timers, the clock, the plugin's loop, arrival of connections and closes | Node's and Studio's timers; TCP delivers or closes | that a run is started, a session finished, a button pressed, an answer ever sent |
| `StudioCliRun!FairSpec` | returns of the bootstrap, copies' polls, frames heard, timers and clock, the coordinator's steps | scripts poll in loops; every wait has a deadline | that Studio boots, the play session starts, or a host finishes |
| `CloudDispatch!CloudFairSpec` | the submission's own timers and continuations; what a create came to reaches its bucket; the watched task's return; each other bucket's steps; merge and collect | timers fire; an accepted task returns or its poll gives up at its deadline | that the service ever accepts a create, or ever reports new capacity |
| `CliRun!CliFairSpec` | `HostStep`, `DispatchEnds`, `CheckerEnds` | the event loop; the backends end by their own deadlines (what the runs above check); the checker is a process with a timeout | how either of the two ends |
| `PlaceBatch!FairSpec` | the caller, delivery of prints, the deadline, the engine's warning for each waiting project | the Luau scheduler, `LogService`, `task.delay`, and the engine's warning about an endless wait, which the guard listens to | that a test ends or that a child it waits for ever appears |

In `StudioCliRun` each fairness condition is of `Unsettled /\ A`: once the wait has
settled Studio is killed and nothing is owed. The files' specifications have no
fairness: their properties are safety, and a process may be killed at any point.

Time: `Tick` moves every armed timer at once and only while no expired timer is
waiting to fire. `Prompt` in StudioCliRun keeps latencies within a tick, copies within
`Skew` of the bootstrap, and the coordinator's own computation at zero, so that
what a property says of two deadlines is about the deadlines. A host's
running time is unbounded. In Submission the clock is the one `SubmitBudget` is given,
and starts with each create.

## 5. What is proved, and how

TLAPS checks the theorems below for every value of the constants that the `ASSUME`s
of the modules allow (finite sets, positive bounds, names kept apart, and for
`StageIsOwn` alone what PlaceBatch is promised of a materializer). Nothing else is
assumed. Each invariant used in a proof was checked with TLC first.

**`WorkStealing_proofs`.** `Typed` (types, and "a task that works on an item works
on a job of the run") is inductive and gives `TypeCorrect`. `StagesOK` adds that a
slot without a task holds no task state and that a task inside its loop has no
reason to stop yet. On top of it:

- `NoJobLost` (`JobsAccounted`): every step either moves a job from one accounted
  place to the next, or makes the run fail, or is the end of a TTL. The order
  "put back, then retire" is what the `Drop`/`RequeueLands`/`Retire` case rests on.
- `EveryDeferralClaimed` (`DeferralsClaimed`): `Continue` claims a deferral with
  each launch, and leaves one pending only when the budget is spent; inductive with
  the types. With the two above it is `PoolIsSound` (`PoolInv`).
- `EnvelopesBounded` (`EnvelopesFit /\ DeferralsMakeProgress`): `Sound` says of an
  envelope that it has bytes exactly when it has entries, that it exceeds the budget
  only with a single entry, and that a task that defers has delivered one.
- `BailFirst` (`BailOutranksDeferral`): a task that has tripped stands at its next
  stop decision or after it. Together: `EnvelopesAreSound` (`EnvelopesSound`).
- `DispatchKeepsPromise` (`KeepsPromise`): `Init` and every step map to
  `BatchOutcome` with the identity on `collected` and `outcome`; only `Return`
  collects, and only while some slot has not exited.
- `RunsAreWhole` (`RunIsWhole`) joins three theorems. `EachJobOnce` (`OneCopy`) rests on
  `InOnePlace`: a job is in the queue once, or with one task, or collected; the step
  that needs it is the put-back, which leaves the task's hands as it enters the queue.
  `AnnouncementsAreTrue` follows a verdict from the task to the collection
  (`ReportStands`): a streamed summary has its entry, and whoever knows of a bail
  knows it from a failure on record, unless the run fails or a package ran twice.
  `DeferralsLeaveNothing` needs a count. `Balanced` gives every copy in the queue,
  every item being worked on, every entry of an envelope and every deferral the weight
  one; a deferral is paid for with an entry, so the weight never exceeds the number of
  jobs, and a deferral left over when the budget is spent would exceed it. `Served`
  then says that while the queue has an item some slot will read it.

**`ExecutionRecovery_proofs`.** `Held`: while the window is open the key names the
only task that can have run; once it is shut nothing is granted. That is
`AtMostOneRun` (`RunsOnce`), whatever is lost, delayed or retried. `Armings`
bounds the watch's generations and gives `TypeCorrect`: a create that was accepted is not
rescued, so the first submission or its rescue arms, never both. `Evidence`: a
result that was observed is the result of a task that ran.
`RecoveryIsOneExecution` (`AnswersForTheRun`) follows with the identity on `ran`
and `answer`. `Spent` says where the one rescue went: to an attempt whose create was
ambiguous. `Quiet` says that only a submission that stalled is read again, and that once a
failure is told every submission is over: none is being created or polled, and those that
stalled were read again without a result. Together they are `RecoveryIsBounded`
(`RecoveryInv`). `Counted` says that while the race is on the watch has been armed once for
each submission that was accepted, at most one; so the generation the race holds counts
them, and `SubmissionsFollowEvidence` (`SubmitsOnEvidence`) follows, whichever way the
watch is armed.

**`RunOutcome_proofs`**, from the end of a task to the exit code. For the relay, `InStep`:
task and reader are never more than one chunk apart, a chunk the task waits for is in the
map until the reader has it, and the only delete that may be under way is of that chunk. It gives `TypeCorrect`,
`AcknowledgedIsRead`, `NothingLeftBehind` and with them `RelayInStep`
(`ChunksInStep`); `WholeResultIsKept` (`CompletedIsKept`) is an action property.

For one invocation, `RunInv` follows a run: `AskedFor` and `Planned` (what the plan was
made from, and that a project has one job at most), `Course` (how far the two halves are
and what the run has thrown: a run past its wait with the dispatch still out is one whose
checker was rejected), `CodeSet` (where the code comes from) and `Brought` (one entry for each
job that ran, the snapshots of those before the first that throws, the rows of all of them).
From it:

- `RunKeepsApart` (`CliInv`). The order of the jobs is a CHOOSE over enumerations
  (`InOrder`), and that every set of jobs has one (`EnumerationExists`, `InOrderFacts`) is
  what pairs each row with its own project and tells which packages a bail left out.
- `PlanIsTheRequest` (`PlanHonoursRequest`): `PickedWithinRequest` and `PickedIsComplete`
  say of each project what the two modes leave in and out, `LenientFacts` that a plan
  passes empty only where that is allowed.
- `ExitIsTheOutcome` (`ExitTellsOutcome`): results that all passed are the results of all
  the jobs, since a bail has a failure for its cause (`PassedMeansAll`), and a gate holds
  exactly when each job of its unit hit its own lines or none brought data (`GateFacts`).
- `NothingWrittenLate` (`OnlyOrphansWriteLate`), an action property.

They assume that a request is about projects, files and packages that there are
(`RequestsAssumption`), and nothing of their number.

**`StudioSession_proofs`.** First three invariants that touch little of each other's
state. `LoopInv` (types of the loop and one attempt at a time) gives `OneAttempt`.
`Selection` gives `WindowsFollowEachOther` and `FittingCopyIsTaken`: every change to
the pool passes through the selection's check. With `OneOfEach` that is
`SelectionsAreSound` (`SelectionIsSound`). `AnswerInv` says of every frame
under way what `AnswersItsRun` says of an outcome; it gives `OnlyOwnAnswers`.
`OneCopyRuns` (`CopiesInv`) takes three more: `Wired` says that one copy holds a connection
that is dialing, up or still has a run to deliver, and that a free one carries nothing;
`Fitting`, that a connection which announced itself as fitting or was sent a run is held by
a copy that speaks the protocol; `Once`, that a run under way is on one connection, and on
none once a copy has executed it or while its selection goes on. The types are inductive
only with `Once`: a selection sends the run it was started for, and there is one.

**`StudioCliRun_proofs`.** `FanOutAlone`: a step of the session is a step of the
fan-out or leaves its core alone. `Ownership` says of threads and answers under
way which package they belong to, and that the staged package is the exchange's:
`OwnAnswersOnly` (`OwnPackage`). `Division` says that the hosts in use hold disjoint
shares of what is unanswered, so that a host whose whole slice has answered runs
nothing: `HostsRunOnePackage` (`OnePackagePerHost`). Both are `HostsStayApart`
(`HostsKeepApart`). The lemmas `SlicesDisjoint` and `SliceNonEmpty` are about round
robin: distinct ranks give disjoint, non-empty slices.

`WaitsNest` (`WaitsInv`) relates the timers of three machines. `WaitInv` says that a copy
that is to be told to relay has used up no more of its wait than the session is old
(`Relaying`), that the command line has not waited longer after a nil return than any copy
that may still report ready (`NilWaiting`), and that a copy that defers has its whole wait
before it as long as the fitting one may still claim the run (`Refusals`); `Exchange` keeps
the frames of the exchange in order. It rests on `NestAssumption`: no copy lags so far behind
another that the other's wait is over, and a copy's wait for the session ends before the
command line's. That is what the comments on the waits say (`studio-cli-deadlines.ts:18-20`,
`test-in-run-mode.server.luau:7`), and the constants in the code meet it.

**`CloudDispatch_proofs`.** For the submission, the invariant `IInv` is the clock's meaning. For a budgeted
submission, `Window`: what the inactivity deadline still grants is the silence left
of the budget, counted from the instant up to which waits were credited, and the
absolute maximum lies ahead (`Bounded`); for a plain one, the caller's limit has not
passed (`InTime`). The nested case is what needs it: evidence may restart the clock
while a wait is under way, and the wait's end must then credit only what came after.
`Submissions` is the invariant; `StaysWithinBudget` (`KeepsToBudget`) and
`CreatesAreInTime` (`CreatesKeepTime`, from `EvidenceExtends` and `CreatesAreTimely`)
follow, for any budget, waits, polls and sets of blocking tasks. For the buckets,
`MergedOnce`: no entry is merged before every bucket is in, and then all of them at once;
so every step of StaticDispatch is a step of `BatchOutcome` or none (`BucketsKeepPromise`,
`KeepsPromise`). For the composition, a step of `CloudDispatch` goes on with the watched
bucket's create or begins the next one, and `Begin` restores `IInv` whatever the last
create used up (`EveryCreateKeepsToBudget`, `EveryCreateKeepsTime`).

`NoJobLeftBehind` (`CloudInv`) is about the envelopes. A task's walk over the jobs it was sent
is a recursive function, so what it computes is proved over the steps of the walk (`Walks`,
`Steps`): the least step at which a claim fails would follow one at which it holds. `Walked`
says that a walk keeps a prefix of what it was sent, all of it until it stops and never
nothing, and stops for a bail only behind a failure. `DispatchInv` says of each bucket that it
holds only its own jobs, that what it is about to send is what it still owes, and that a
bucket that is through lacks nothing, or after a bail only jobs behind a failure.

**`PlaceBatch_proofs`.** `IInv` is `TypeOK /\ RunsKeepApart /\ Followed`. `Followed`
goes through the projects in order: one that is not taken yet is untouched
(`Fresh`), the current one is where the caller's position says it is, its guard being
the only thing that may wake the caller, and one that was reported has no live
threads and no mock. `RunsAreOver` (`BatchInv`) holds for any materializer, any shares
and any tests, since `Materialize` and `Reset` are parameters. `LinesStayHome`
(`LinesAreOwn`) takes `LineInv`: the capture is the current entry's while it runs
(`Captured`), what is posted in a turn is the one line whose echo is expected or was crowded
(`Expected`), and an entry that has not been abandoned has no note in its capture.
`StageStandsAlone` (`StageIsOwn`) is the one that needs `MaterializerAssumption`. What
`executeEntry` hands on between two entries is one variable, `prevPkg`, which also names
a package that was refused; `StageInv` says what it stands for (`HandedOn`: nothing at
first and after a timeout, the last entry's package otherwise) and names the project at
which the tree's package was asked for (`Stands`), the only such one (`FirstIsOne`).

**`KeptFiles_proofs`.** Five invariants for five kinds of files, each for any
number of processes or runs that may be killed at any point.

- `TargetStaysWhole` (`WritesAreWhole`): a write's own temporary name is not in a
  sweep's list while the write lives, since it was created after the list was
  made or judged alive, and no nonce repeats; so what is renamed was filled.
- `CacheCostsSpeedOnly` (`UploadsAreSound`): an entry on file, an entry in a run's
  hand and a version a run is informed of each name a version that has booted and holds the
  bytes that were hashed, unless the file was rebuilt between its two reads.
- `ReusedPlacesAreCurrent` (`ReuseIsSound`): a digest is recorded only under a stamp older
  than the clock (`Dated`), so a later edit carries another stamp; a build that runs
  alone puts into the place what it digested (`Steady`), and a record matches
  the place it was written for (`Matches`).
- `StudiosAreWoundDown` (`LaunchesAreSound`): two Studios that may both come to have the
  place are both noted as sharing it (`Apartness`), so for a launch that is not, no
  other Studio writes or removes the lock between its clearing and its own close (`WayIsFree`).
  That nothing is forgotten follows from the stages a launch goes through (`LaunchStages`).
- `CacheIsSound` (`CacheInv`): what a run will record describes the shadow as the manifest
  on disk does (`RunDescribes`), probes and map are of one read (`MapsFollow`), what the
  run has been through is as a cold run would have it (`ShadowFresh`), and a whole
  place holds the shadow up to what was touched since (`PlaceFollows`). A run that has
  touched a copy has marked itself changed, so a reused place is of this shadow.
- `SettledRunsBuildNothing` (`SettledRunsReuse`), an action property: what a complete run leaves has
  nothing left to do for its options (`NothingToDo`), and a run over it records what there is
  (`HashesFresh`), until an edit or another run touches something.

**Only model-checked.** Liveness under fairness (`Terminates`, `EndsAnyway`,
`Delivers`, `EveryRunSettles`, `Settles`, `BatchEnds`), which is beyond the prover.
That PlaceStage's trees keep `MaterializerAssumption`: they need recursive operators, which
the prover does not support, so TLC evaluates it for the packages and trees of `pb_batch`. Every other property of a passing run is a theorem. Induction
over data cannot be cited from the library; where a proof needs it (how many jobs a walk
over an envelope returns, that a set of jobs has an order) it is done by hand, with the least
element of a set of counterexamples. The violation runs are counterexamples,
which need no proof.

## 6. Disagreements found

Three runs end in a counterexample: in each the code does something that a comment
says it does not. `PROJECT.json` quotes the lines.

1. `ws_backoff`: a launch counts itself and claims its deferral before the submit
   (`open-cloud-pool.ts:203-207`). A refused submit is waited out, but the loop
   then finds `isDone()` true and the launch is not made again; the run ends with
   jobs missing.
2. `sc_budget`: the coordinator's deadline for its hosts is bounded by the run's
   timeout "on purpose", but it applies to every package anew. Two packages that
   each meet a hanging host outlast the run's timeout, and no entry is reported.
3. `cc_interrupted`: a run re-instruments version 2 of a module over the shadow of
   version 1 and is stopped before it writes the manifest; the source goes back to
   version 1; the next run finds the hash of the manifest, skips the file, and
   builds a place with version 2 in it. A warm run does not "converge on what a cold
   run would have produced" (`shadow-reconcile.ts:72-73`).

Met while modelling, and kept here for whoever works on these lines; no run checks
them:

- After a failed retire a package may run twice. If it passes and then fails, the
  second run trips `--bail` while the first, passing entry is the one reported
  (`open-cloud-entries.ts:128`): a bailed run with no failing test in it. `BailHasFailure`
  excuses it by name.
- `plugin-connections.ts:10-13` justifies the 750 ms of the grace window with a reconnect
  cadence of 0.1 s; the plugin doubles its delay up to 5 s while nothing listens,
  so a stale copy can open and close the window before the fitting one dials again.
- `test-in-run-mode.server.luau:271`: "up to `limit`" hosts; `collectReadyHosts` returns
  all that are ready, so `vmParallel` 2 uses three hosts if three are ready.
- `run/staging.ts:162`: "Runs before any backend exists"; `run/multi.ts` resolves the
  backend first. It is closed all the same (`OpenedIsClosed`).
- `upload-cache.ts:23-25`: "exactly the bytes this file hashed"; the place is read
  twice, and one rebuilt in between is uploaded under the hash of the old one.
- `place-builder.ts:366-367`: "can only ever cost time, never correctness"; an input
  edited between key and build and reverted later, or two runs that build one place
  file at once, leave a place the record does not describe. `ReusedIsCurrent` names both.
- `build-manifest.ts:10-13`: the two manifests are "cross-linked by buildId"; the
  reuse check of the next run reads the record without the id it expects
  (`coverage-place.ts:168`). A run over input version 2 writes its manifest and stops before
  its record; the next, over version 1 again, rebuilds the place and stops before its
  manifest; a third, over version 2, finds the manifest's input unchanged and the place
  as the oldest record has it, and reuses a place with version 1 in it. Found while
  proving `CacheIsSound`; `PlaceIsCurrent` names the case (`unrecorded`).
- `coverage-place.ts:183-188`: a place is reused only if it is on disk and "its bytes match
  the prior build manifest's record", so that an interrupted build is not taken for a
  whole one. Where there is no record at all the manifest's place is reused as it is
  (`coverage-place.ts:168-171`), also one that a build was interrupted over: `Unvouched`
  names the case.
- `studio-cli-process.ts:45-50`: a hard teardown kills Studio. A helper stopped between launching
  Studio and printing its pid leaves that Studio running; `NoStudioForgotten` names the case.
- `studio-cli-process.ts:145-147`: the lock that is cleared is one "a killed Studio"
  left; with two command lines on one place it may be a live Studio's, whose graceful close the
  first command line then takes for done.
- `infinite-yield.luau:90-93`: open cloud is unaffected by warnings of others; but a stray
  thread of an earlier package, warned about during a later guard, ends that
  later run.
- `embedded-runner.luau`: after a stage failure `executeEntry` returns the entry's
  package as the one the DataModel holds (:485), so that the package's next project
  runs without a stage; two lines noted in one turn share one expected echo, so the
  print of the first lands in the next package's capture (`LinesAreOwn` excuses it); an
  item read twice by one worker runs a second time with its config stripped, since
  both reads share the entry; and a print of `reset`'s destructors does reach a
  capture while prints are delivered in a later turn.
- Multi mode (`runner.luau`): an error in `beginCoverage` leaves the setup timing
  patched; `require(Jest)` throwing leaves capture and snapshot patch installed,
  although "ALL post-patch work" must be inside the guard (`embedded-runner.luau:230`).
- A workspace run whose `--testPathPattern` matches nothing dispatches idle jobs and
  exits 0, where multi mode exits 2; a coverage gate vanishes when its unit brings
  no coverage; a positional file no project owns is dropped in silence when another
  file matches; a multi-mode run of type tests alone still resolves a backend and
  stages unless `only` is set; a dispatch left behind by a rejected checker may write
  snapshots after exit code 2 (`OnlyOrphansWriteLate`); invalidating an uploaded version
  is by key and may drop another run's newer entry, or be undone by one.

## 7. What is not modelled

| component | why |
|---|---|
| queue and map clients, janitor | HTTP calls without state of their own; WorkStealing and ResultRelay model what their callers see. Nothing under `src/src` calls the janitor |
| language packages | parsers, printers and path mapping: pure functions over text |

Left out of the modelled components:

- *work-stealing*: the streaming poll (it reports, and nothing reads it back) and the growth
  of the pool's concurrency after capacity evidence;
- *Studio*: finding Studio and installing the plugin; the desktop a hidden Studio is put on;
  `planSlices` with nested mounts; the split of a single package over hosts;
- *coverage*: bake stubs and the code-split key, bundles, nested directories, the spine, the
  workspace variant of the preparation, and the data transformations (probes, source maps,
  reports);
- *staging*: the synthesizer and the passes that write the stages;
- *the place*: multi mode's single guard over all projects (`runner.luau`), setup
  timing, coverage attribution; `promise.luau` is vendored;
- *orchestration*: setup and help, timing and progress, configuration loading, validation and
  the layering of other options than the typecheck settings, formatting and printing;
- *type checking*: grouping by directory, the launch timer of the spawned process, parsing
  of its output;
- *utilities*: the concurrency limiter, whose callers do not depend on its order.

Much of the rest of the repository is of this kind: formatters, schema, parsers and syntax-tree
visitors, where each line maps input text to output text and a model would repeat it.

## 8. Plan

Done, most important first: the work-stealing dispatch, execution recovery, the
result relay, the Studio session, the Studio run with its hosts; then static
buckets with the submission budget, the coverage cache, the place's batch and its
materializer, one invocation of the command line, the files runs share, and the launch and
teardown of Studio.

Next, in this order:

1. `MaterializerAssumption` as a theorem about the materializer, which takes PlaceStage's trees
   as recursive functions over paths.
2. The workspace variant of the coverage preparation: one shadow per package, and packages
   that leave the workspace between runs.
3. Multi mode's runner, as a second user of PlaceBatch's guard.
4. The streaming poll of summaries, and the growth of the pool's concurrency after capacity evidence.
5. `planSlices` with nested mounts, against a reference definition of "no two hosts share a
   mount".

## 9. Running everything

From this directory:

    tlc -workers 2 -config WS_tasks.cfg MCWorkStealing.tla     # one run; see PROJECT.json
    tlapm WorkStealing_proofs.tla                              # one module's proofs

`CD_dispatch` takes two and a half minutes, `ER_recovery` a little over two, `KF_files` a
little over two as well, `PB_batch` a little under two, `SC_run` a minute and a quarter, the other runs one minute at most. To
see a mutant fail, replace the body of the definition it names by a use of the
mutant, and run the configuration `PROJECT.json` gives.
