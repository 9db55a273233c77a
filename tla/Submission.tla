----------------------------- MODULE Submission -----------------------------
(***************************************************************************)
(* One task create (packages/roblox-runner/src): the submission policies   *)
(* of task-submission.ts, the budget controller of submit-budget.ts and    *)
(* the capacity transport of capacity-submit-client.ts, over a clock that  *)
(* counts from the submission's start.                                     *)
(*                                                                         *)
(* A "budgeted" submission lets the SDK retry for as long as its budget    *)
(* lasts: it may be silent for Budget, and last Budget + Capacity in all.  *)
(* Time the service asked for is credited -- a wait in the SDK's own queue *)
(* (pause), the wait of a spent quota and the wait for a running task      *)
(* (defer) -- and new evidence of capacity starts the silence over         *)
(* (progress).  A "plain" submission retries edge refusals only, a bounded *)
(* number of times, each wait inside the task's deadline.                  *)
(***************************************************************************)
EXTENDS Integers, FiniteSets

CONSTANTS
    Budget,        \* submitBudget: inactivity a budgeted submission survives
    Capacity,      \* submitCapacityBudget: credit it may use beyond that
    CapacityWait,  \* CAPACITY_WAIT_MS: longest watch of one set of blockers
    CapacityPoll,  \* CAPACITY_POLL_MS: wait between two looks at them
    Waits,         \* retry delays the SDK or a refusal may ask for
    EdgeFloor,     \* EDGE_RETRY_FLOOR_MS
    Deadline,      \* a plain submission's deadline
    MaxRetries,    \* sends after the first
    RequestLimit,  \* longest a create may stay unanswered
    BlockerSets    \* sets of running tasks a refusal may name

ASSUME TimesAssumption == /\ {Budget, CapacityWait, CapacityPoll, EdgeFloor, RequestLimit} \subseteq Nat \ {0}
                          /\ {Capacity, Deadline, MaxRetries} \subseteq Nat
                          /\ Waits \subseteq Nat \ {0}

Policies == {"budgeted", "plain"}
Maximum == Budget + Capacity

Lesser(a, b) == IF a <= b THEN a ELSE b
Greater(a, b) == IF a >= b THEN a ELSE b

VARIABLES
    policy,        \* which of the two the caller asked for
    now,           \* time since the submission started
    deadline,      \* inactivityDeadline
    waitingSince,  \* waitingSince
    seen,          \* fingerprints that have renewed the budget
    stage,         \* what the submission waits for
    wake,          \* when its present wait, or the request, ends at the latest
    watchEnds,     \* deadlineAt of the present watch of blockers
    blockers,      \* the blockers being watched
    sends,         \* creates sent so far
    result,        \* how the submission settled
    charged        \* bookkeeping: uncredited time since the last new evidence

budgetVars == <<deadline, waitingSince, seen>>
watchVars == <<watchEnds, blockers>>
vars == <<policy, now, deadline, waitingSince, seen, stage, wake, watchEnds, blockers,
          sends, result, charged>>

\* Waits a budgeted submission has been given credit for: "quota" and "polling"
\* in advance, "queued" when it ends.
Credited == {"queued", "quota", "polling"}
Sleeping == {"quota", "polling", "backoff"}

Init == /\ policy \in Policies
        /\ now = 0
        /\ deadline = Budget
        /\ waitingSince = 0
        /\ seen = {}
        /\ stage = "ready"
        /\ wake = 0
        /\ watchEnds = 0
        /\ blockers = {}
        /\ sends = 0
        /\ result = "pending"
        /\ charged = 0

\* Another create under the same policy, with a clock and a budget of its own.
Begin == /\ now' = 0 /\ deadline' = Budget /\ waitingSince' = 0 /\ seen' = {}
         /\ stage' = "ready" /\ wake' = 0 /\ watchEnds' = 0 /\ blockers' = {}
         /\ sends' = 0 /\ result' = "pending" /\ charged' = 0
         /\ UNCHANGED policy

Pending == result = "pending"
Budgeted == policy = "budgeted"

-----------------------------------------------------------------------------
(* The budget controller.                                                  *)

\* pause takes hold only where there is capacity time to spend.
Paused == stage = "queued" /\ Capacity > 0

\* When the armed timer fires.
ExpiresAt == IF Paused THEN Maximum ELSE Lesser(deadline, Maximum)

Defer(ms) == deadline' = Lesser(Maximum, deadline + ms) /\ UNCHANGED <<waitingSince, seen>>

\* What has been seen: a set of blockers, or the end of one of them.
Evidence(kind, tasks) == [kind |-> kind, tasks |-> tasks]

\* Mutant: known evidence renews the budget again.
Progress_Repeats(fingerprint) ==
    /\ deadline' = now + Budget /\ waitingSince' = now
    /\ seen' = seen \cup {fingerprint}
    /\ charged' = IF fingerprint \in seen THEN charged ELSE 0

Progress(fingerprint) ==
    IF fingerprint \in seen
    THEN UNCHANGED <<budgetVars, charged>>
    ELSE /\ deadline' = now + Budget
         /\ waitingSince' = now
         /\ seen' = seen \cup {fingerprint}
         /\ charged' = 0

-----------------------------------------------------------------------------
(* The create, as the SDK drives it.                                       *)

Sleep(kind, ms) == stage' = kind /\ wake' = now + ms

\* The SDK holds the request back in its own queue (pauseBudgetWhileWaiting).
Enqueue == /\ Pending /\ Budgeted /\ stage = "ready"
           /\ stage' = "queued"
           /\ waitingSince' = now
           /\ UNCHANGED <<policy, now, deadline, seen, wake, watchVars, sends, result, charged>>

Dequeue == /\ Pending /\ stage = "queued"
           /\ Sleep("sending", RequestLimit)
           /\ sends' = sends + 1
           /\ deadline' = IF Capacity > 0 THEN deadline + (now - waitingSince) ELSE deadline
           /\ UNCHANGED <<policy, now, waitingSince, seen, watchVars, result, charged>>

Send == /\ Pending /\ stage = "ready"
        /\ Sleep("sending", RequestLimit)
        /\ sends' = sends + 1
        /\ UNCHANGED <<policy, now, budgetVars, watchVars, result, charged>>

Settle(r) == /\ Pending /\ stage = "sending"
             /\ result' = r
             /\ UNCHANGED <<policy, now, budgetVars, stage, wake, watchVars, sends, charged>>

\* The task exists, or the refusal is one nobody retries.
IsAccepted == Settle("accepted")
IsRefused == Settle("refused")

MayRetry == sends <= MaxRetries

\* A failure the SDK retries after a delay of its own; the delay stays charged.
Fails(ms) == /\ Pending /\ Budgeted /\ stage = "sending" /\ MayRetry
             /\ Sleep("backoff", ms)
             /\ UNCHANGED <<policy, now, budgetVars, watchVars, sends, result, charged>>

\* A refusal with nothing remaining says how long to wait (quotaWaitMs).
QuotaSpent(ms) == /\ Pending /\ Budgeted /\ stage = "sending" /\ MayRetry
                  /\ Defer(ms)
                  /\ Sleep("quota", ms)
                  /\ UNCHANGED <<policy, now, watchVars, sends, result, charged>>

\* RESOURCE_EXHAUSTED names the tasks that occupy the place (blockingTaskUrls).
PlaceFull(tasks) == /\ Pending /\ Budgeted /\ stage = "sending" /\ MayRetry
                    /\ Progress(Evidence("blockers", tasks))
                    /\ stage' = "watching"
                    /\ blockers' = tasks
                    /\ watchEnds' = now + CapacityWait
                    /\ UNCHANGED <<policy, now, wake, sends, result>>

\* One of them is over: the refused create is worth another try.
BlockerEnds(task, ms) == /\ Pending /\ stage = "watching" /\ task \in blockers
                         /\ Progress(Evidence("terminal", {task}))
                         /\ Sleep("backoff", ms)
                         /\ UNCHANGED <<policy, now, watchVars, sends, result>>

\* An unreadable blocker, or the end of the watch, sends the refusal back.
WatchStops(ms) == /\ Pending /\ stage = "watching"
                  /\ Sleep("backoff", ms)
                  /\ UNCHANGED <<policy, now, budgetVars, watchVars, sends, result, charged>>

\* They all still run: look again after a credited wait.
WatchOn == /\ Pending /\ stage = "watching"
           /\ now < watchEnds
           /\ LET ms == Lesser(CapacityPoll, watchEnds - now)
              IN Defer(ms) /\ Sleep("polling", ms)
           /\ UNCHANGED <<policy, now, watchVars, sends, result, charged>>

\* Mutant: the wait is not measured against the deadline.
EdgeRefused_AnyWait(ms) ==
    /\ Pending /\ ~Budgeted /\ stage = "sending" /\ MayRetry
    /\ Sleep("backoff", Greater(ms, EdgeFloor))
    /\ UNCHANGED <<policy, now, budgetVars, watchVars, sends, result, charged>>

\* createTaskAsync: an edge refusal is waited out if the wait fits the deadline.
EdgeRefused(ms) ==
    /\ Pending /\ ~Budgeted /\ stage = "sending" /\ MayRetry
    /\ LET wait == Greater(ms, EdgeFloor)
       IN IF wait <= Greater(0, Deadline - now)
          THEN Sleep("backoff", wait) /\ UNCHANGED result
          ELSE result' = "refused" /\ UNCHANGED <<stage, wake>>
    /\ UNCHANGED <<policy, now, budgetVars, watchVars, sends, charged>>

Wakes == /\ Pending /\ stage \in Sleeping /\ now >= wake
         /\ stage' = IF stage = "polling" THEN "watching" ELSE "ready"
         /\ UNCHANGED <<policy, now, budgetVars, wake, watchVars, sends, result, charged>>

\* raceAsync: the timer wins and cancels what is under way.
Expires == /\ Pending /\ Budgeted
           /\ now >= ExpiresAt
           /\ result' = "expired"
           /\ UNCHANGED <<policy, now, budgetVars, stage, wake, watchVars, sends, charged>>

-----------------------------------------------------------------------------
(* Time.                                                                   *)

\* Timers fire in time, the end of a watch aborts the look that is under way.
Tick == /\ Pending
        /\ stage # "ready"
        /\ stage \in Sleeping \cup {"sending"} => now < wake
        /\ stage = "watching" => now < watchEnds
        /\ Budgeted => now < ExpiresAt
        /\ now' = now + 1
        /\ charged' = IF stage \in Credited THEN charged ELSE charged + 1
        /\ UNCHANGED <<policy, budgetVars, stage, wake, watchVars, sends, result>>

\* The request timeout ends a create nobody answered.
TimesOut == /\ Pending /\ stage = "sending" /\ now >= wake
            /\ result' = "refused"
            /\ UNCHANGED <<policy, now, budgetVars, stage, wake, watchVars, sends, charged>>

Answer == \/ IsAccepted \/ IsRefused
          \/ \E ms \in Waits : Fails(ms) \/ QuotaSpent(ms) \/ EdgeRefused(ms)
          \/ \E tasks \in BlockerSets : PlaceFull(tasks)

Watch == \/ \E ms \in Waits : WatchStops(ms) \/ \E task \in blockers : BlockerEnds(task, ms)
         \/ WatchOn

Next == Enqueue \/ Dequeue \/ Send \/ Answer \/ Watch \/ Wakes \/ Expires \/ TimesOut \/ Tick

Spec == Init /\ [][Next]_vars

\* Timers fire and the SDK carries on with what it has been answered; that a
\* request is answered, or a blocker ends, nobody promises.
Fairness == WF_vars(Dequeue \/ Send \/ Wakes \/ TimesOut \/ Expires \/ Tick \/ Watch)

-----------------------------------------------------------------------------
(* Properties.                                                             *)

TypeOK == /\ policy \in Policies
          /\ {now, deadline, waitingSince, wake, watchEnds, sends, charged} \subseteq Nat
          /\ stage \in Sleeping \cup {"ready", "queued", "sending", "watching"}
          /\ result \in {"pending", "accepted", "refused", "expired"}

\* A submission that is given up has been silent for its whole budget, every wait
\* the service asked for left out, or has used up its absolute limit.
ExpiresOnlyWhenSilent == result = "expired" => charged >= Budget \/ now >= Maximum

\* No wait is credited twice and no evidence counts twice: a budgeted submission that
\* is still pending has neither been silent for longer than its budget nor passed
\* its absolute limit.
NeverOutstays == Pending /\ Budgeted => charged <= Budget /\ now <= Maximum

\* Both bounds of the budget: given up neither early nor late.
KeepsToBudget == ExpiresOnlyWhenSilent /\ NeverOutstays

\* New evidence of capacity never takes back time: restarting the budget in the
\* middle of a submission leaves no credit unspent.
EvidenceNeverShortens == [][seen \subseteq seen' /\ seen' # seen => deadline' >= deadline]_vars

\* No create is sent once the caller's limit has passed.
NoLateCreate == [][sends' > sends => now <= (IF Budgeted THEN Maximum ELSE Deadline)]_vars

\* Neither takes back time it has granted, nor sends what comes too late.
CreatesKeepTime == EvidenceNeverShortens /\ NoLateCreate
=============================================================================
