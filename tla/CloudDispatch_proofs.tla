-------------------------- MODULE CloudDispatch_proofs --------------------------
(***************************************************************************)
(* Proofs about a dispatch without a queue.  First Submission: how long a  *)
(* create may stay pending, for every budget, every allowance and every    *)
(* delay the service asks for.  Window is the invariant behind it: what    *)
(* the inactivity deadline still grants is exactly the silence that is     *)
(* left, counted from the instant up to which waits have been credited.    *)
(* Then StaticDispatch: what its buckets bring is merged once, which is    *)
(* what the caller was promised; and each task on its way carries exactly  *)
(* what its bucket still owes, less from round to round, so that no job is *)
(* left behind.  That takes induction over the entries of a task.  Last    *)
(* their composition, CloudDispatch: every create of a bucket keeps to a   *)
(* budget of its own, and the run reports what its buckets brought.        *)
(***************************************************************************)
EXTENDS CloudDispatch, WellFoundedInduction, TLAPS

\* Credit given in advance that has not been waited out yet.
Ahead == IF stage \in {"quota", "polling"} THEN wake - now ELSE 0

\* The instant up to which waits have been credited or charged.
Clock == IF Paused THEN waitingSince ELSE now + Ahead

\* Above the absolute limit the deadline may lag behind: no timer uses it there.
Window == /\ deadline <= Clock + Budget - charged
          /\ deadline >= Lesser(Maximum, Clock + Budget - charged)

Bounded == /\ charged <= Budget
           /\ now <= Maximum
           /\ charged <= Clock
           /\ Ahead >= 0
           /\ Window

\* A plain submission sleeps only to an instant inside its deadline.
InTime == /\ stage \in {"ready", "backoff", "sending"}
          /\ stage = "ready" => now <= Deadline
          /\ stage = "backoff" => now <= wake /\ wake <= Deadline

Typed == TypeOK /\ waitingSince <= now

IInv == /\ Typed
        /\ Pending /\ Budgeted => Bounded
        /\ Pending /\ ~Budgeted => InTime
        /\ ExpiresOnlyWhenSilent

LEMMA Constants ==
    /\ Budget \in Nat /\ Budget > 0 /\ Capacity \in Nat
    /\ CapacityPoll \in Nat /\ CapacityPoll > 0 /\ CapacityWait \in Nat
    /\ EdgeFloor \in Nat /\ RequestLimit \in Nat /\ Deadline \in Nat /\ MaxRetries \in Nat
    /\ \A ms \in Waits : ms \in Nat /\ ms > 0
    /\ Maximum \in Nat /\ Maximum = Budget + Capacity
  BY TimesAssumption DEF Maximum

\* A fresh submission has its whole budget.
LEMMA InitInv == Init => IInv
<1>. SUFFICES ASSUME Init PROVE IInv OBVIOUS
<1>2. Typed BY Constants DEF Init, Typed, TypeOK, Policies, Sleeping
<1>3. Pending /\ Budgeted => Bounded
  BY Constants DEF Init, Bounded, Window, Clock, Ahead, Paused, Lesser
<1>4. Pending /\ ~Budgeted => InTime BY Constants DEF Init, InTime
<1>5. ExpiresOnlyWhenSilent BY DEF Init, ExpiresOnlyWhenSilent
<1>. QED BY <1>2, <1>3, <1>4, <1>5 DEF IInv

-----------------------------------------------------------------------------
(* What the budget controller does with an invariant deadline.                *)

\* A credited wait keeps the deadline a natural number, whatever it adds.
LEMMA DeferTyped ==
    ASSUME TypeOK, NEW ms \in Nat, Defer(ms)
    PROVE  deadline' \in Nat /\ UNCHANGED waitingSince
  BY Constants DEF TypeOK, Defer, Lesser

\* New evidence starts a whole budget at once; known evidence changes nothing.
LEMMA ProgressTyped ==
    ASSUME Typed, NEW e, Progress(e)
    PROVE  /\ {deadline', waitingSince', charged'} \subseteq Nat
           /\ waitingSince' <= now
           /\ \/ UNCHANGED <<deadline, waitingSince, charged>>
              \/ deadline' = now + Budget /\ waitingSince' = now /\ charged' = 0
  BY Constants DEF Typed, TypeOK, Progress, budgetVars

LEMMA TypesKept == ASSUME Typed, [Next]_vars PROVE Typed'
<1>. USE DEF Typed
<1>1. CASE Enqueue BY <1>1 DEF Enqueue, TypeOK, watchVars
<1>2. CASE Dequeue BY <1>2, Constants DEF Dequeue, TypeOK, watchVars, Sleep
<1>3. CASE Send BY <1>3, Constants DEF Send, TypeOK, watchVars, budgetVars, Sleep
<1>4. CASE Answer
  <2>1. CASE IsAccepted \/ IsRefused
    BY <2>1 DEF IsAccepted, IsRefused, Settle, TypeOK, watchVars, budgetVars
  <2>2. ASSUME NEW ms \in Waits, Fails(ms) PROVE Typed'
    BY <2>2, Constants DEF Fails, TypeOK, watchVars, budgetVars, Sleep, Sleeping
  <2>3. ASSUME NEW ms \in Waits, QuotaSpent(ms) PROVE Typed'
    BY <2>3, Constants, DeferTyped DEF QuotaSpent, TypeOK, watchVars, Sleep, Sleeping
  <2>4. ASSUME NEW ms \in Waits, EdgeRefused(ms) PROVE Typed'
    BY <2>4, Constants DEF EdgeRefused, TypeOK, watchVars, budgetVars, Sleep, Sleeping, Greater
  <2>5. ASSUME NEW tasks \in BlockerSets, PlaceFull(tasks) PROVE Typed'
    <3>1. Progress(Evidence("blockers", tasks)) BY <2>5 DEF PlaceFull
    <3>. QED BY <2>5, <3>1, ProgressTyped, Constants DEF PlaceFull, TypeOK
  <2>. QED BY <1>4, <2>1, <2>2, <2>3, <2>4, <2>5 DEF Answer
<1>5. CASE Watch
  <2>1. ASSUME NEW ms \in Waits, WatchStops(ms) PROVE Typed'
    BY <2>1, Constants DEF WatchStops, TypeOK, watchVars, budgetVars, Sleep, Sleeping
  <2>2. ASSUME NEW ms \in Waits, NEW task \in blockers, BlockerEnds(task, ms) PROVE Typed'
    <3>1. Progress(Evidence("terminal", {task})) BY <2>2 DEF BlockerEnds
    <3>. QED BY <2>2, <3>1, ProgressTyped, Constants
         DEF BlockerEnds, TypeOK, watchVars, Sleep, Sleeping
  <2>3. CASE WatchOn
    <3>. DEFINE ms == Lesser(CapacityPoll, watchEnds - now)
    <3>1. ms \in Nat BY <2>3, Constants DEF WatchOn, Lesser, TypeOK
    <3>2. deadline' \in Nat /\ UNCHANGED waitingSince BY <2>3, <3>1, DeferTyped DEF WatchOn
    <3>3. wake' \in Nat /\ stage' = "polling" BY <2>3, <3>1 DEF WatchOn, Sleep, TypeOK
    <3>. QED BY <2>3, <3>2, <3>3 DEF WatchOn, TypeOK, watchVars, Sleeping
  <2>. QED BY <1>5, <2>1, <2>2, <2>3 DEF Watch
<1>6. CASE Wakes BY <1>6 DEF Wakes, TypeOK, watchVars, budgetVars, Sleeping
<1>7. CASE Expires \/ TimesOut BY <1>7 DEF Expires, TimesOut, TypeOK, watchVars, budgetVars
<1>8. CASE Tick BY <1>8 DEF Tick, TypeOK, watchVars, budgetVars
<1>9. CASE UNCHANGED vars BY <1>9 DEF vars, TypeOK
<1>. QED BY <1>1, <1>2, <1>3, <1>4, <1>5, <1>6, <1>7, <1>8, <1>9 DEF Next
-----------------------------------------------------------------------------
(* Pending budgeted submissions.                                              *)

\* Evidence finds the clock at now, or leaves the deadline where it was.
LEMMA ProgressBounded ==
    ASSUME Typed, Bounded, ~Paused, Ahead = 0, NEW e, Progress(e)
    PROVE  /\ charged' <= now /\ charged' <= Budget
           /\ deadline' <= now + Budget - charged'
           /\ deadline' >= Lesser(Maximum, now + Budget - charged')
           /\ deadline' >= deadline
  BY Constants DEF Typed, TypeOK, Bounded, Window, Clock, Progress, budgetVars, Lesser

LEMMA DeferBounded ==
    ASSUME Typed, Bounded, ~Paused, Ahead = 0, NEW ms \in Nat, Defer(ms)
    PROVE  /\ deadline' <= now + ms + Budget - charged
           /\ deadline' >= Lesser(Maximum, now + ms + Budget - charged)
  BY Constants DEF Typed, TypeOK, Bounded, Window, Clock, Defer, Lesser

LEMMA BoundedKept ==
    ASSUME Typed, Pending, Budgeted, Bounded, Next, Pending'
    PROVE  Bounded'
<1>. USE DEF Typed
<1>0. Typed' BY TypesKept
<1>1. CASE Enqueue
  BY <1>1, Constants DEF Enqueue, TypeOK, Bounded, Window, Clock, Ahead, Paused, Lesser
<1>2. CASE Dequeue
  BY <1>2, Constants DEF Dequeue, TypeOK, Sleep, Bounded, Window, Clock, Ahead, Paused, Lesser
<1>3. CASE Send
  BY <1>3, Constants DEF Send, TypeOK, Sleep, budgetVars, Bounded, Window, Clock, Ahead, Paused
<1>4. CASE Answer
  <2>0. stage = "sending" => ~Paused /\ Ahead = 0 BY DEF Paused, Ahead
  <2>1. CASE IsAccepted \/ IsRefused
    BY <2>1 DEF IsAccepted, IsRefused, Settle, Pending
  <2>2. ASSUME NEW ms \in Waits, Fails(ms) PROVE Bounded'
    BY <2>2, Constants DEF Fails, TypeOK, budgetVars, Sleep, Bounded, Window, Clock, Ahead, Paused
  <2>3. ASSUME NEW ms \in Waits, QuotaSpent(ms) PROVE Bounded'
    <3>1. /\ deadline' <= now + ms + Budget - charged
          /\ deadline' >= Lesser(Maximum, now + ms + Budget - charged)
      BY <2>0, <2>3, DeferBounded, Constants DEF QuotaSpent
    <3>2. ~Paused' /\ Ahead' = ms /\ Clock' = now + ms
      BY <2>3, Constants DEF QuotaSpent, Sleep, Paused, Ahead, Clock, TypeOK
    <3>3. UNCHANGED <<now, charged>> BY <2>3 DEF QuotaSpent
    <3>. QED BY <2>0, <2>3, <3>1, <3>2, <3>3, Constants
         DEF QuotaSpent, Bounded, Window, Lesser, Clock, TypeOK
  <2>4. ASSUME NEW ms \in Waits, EdgeRefused(ms) PROVE Bounded'
    BY <2>4 DEF EdgeRefused
  <2>5. ASSUME NEW tasks \in BlockerSets, PlaceFull(tasks) PROVE Bounded'
    <3>1. Progress(Evidence("blockers", tasks)) /\ stage = "sending" BY <2>5 DEF PlaceFull
    <3>2. ~Paused' /\ Ahead' = 0 /\ UNCHANGED now /\ Clock' = now
      BY <2>5, Constants DEF PlaceFull, Paused, Ahead, Clock, TypeOK
    <3>3. /\ charged' <= now /\ charged' <= Budget
          /\ deadline' <= now + Budget - charged'
          /\ deadline' >= Lesser(Maximum, now + Budget - charged')
      BY <2>0, <3>1, ProgressBounded
    <3>. QED BY <3>2, <3>3 DEF Bounded, Window, Lesser
  <2>. QED BY <1>4, <2>1, <2>2, <2>3, <2>4, <2>5 DEF Answer
<1>5. CASE Watch
  <2>0. stage = "watching" => ~Paused /\ Ahead = 0 BY DEF Paused, Ahead
  <2>1. ASSUME NEW ms \in Waits, WatchStops(ms) PROVE Bounded'
    BY <2>1, Constants
    DEF WatchStops, TypeOK, budgetVars, Sleep, Bounded, Window, Clock, Ahead, Paused
  <2>2. ASSUME NEW ms \in Waits, NEW task \in blockers, BlockerEnds(task, ms) PROVE Bounded'
    <3>1. Progress(Evidence("terminal", {task})) /\ stage = "watching" BY <2>2 DEF BlockerEnds
    <3>2. ~Paused' /\ Ahead' = 0 /\ UNCHANGED now /\ Clock' = now
      BY <2>2, Constants DEF BlockerEnds, Sleep, Paused, Ahead, Clock, TypeOK
    <3>3. /\ charged' <= now /\ charged' <= Budget
          /\ deadline' <= now + Budget - charged'
          /\ deadline' >= Lesser(Maximum, now + Budget - charged')
      BY <2>0, <3>1, ProgressBounded
    <3>. QED BY <3>2, <3>3 DEF Bounded, Window, Lesser
  <2>3. CASE WatchOn
    <3>. DEFINE ms == Lesser(CapacityPoll, watchEnds - now)
    <3>0. ms \in Nat BY <2>3, Constants DEF WatchOn, Lesser, TypeOK
    <3>1. Defer(ms) /\ stage = "watching" BY <2>3 DEF WatchOn
    <3>2. ~Paused' /\ Ahead' = ms /\ Clock' = now + ms /\ UNCHANGED <<now, charged>>
      BY <2>3, <3>0 DEF WatchOn, Sleep, Paused, Ahead, Clock, TypeOK
    <3>. HIDE DEF ms
    <3>3. /\ deadline' <= now + ms + Budget - charged
          /\ deadline' >= Lesser(Maximum, now + ms + Budget - charged)
      BY <2>0, <3>0, <3>1, DeferBounded
    <3>. QED BY <2>0, <3>0, <3>1, <3>2, <3>3, Constants DEF Bounded, Window, Lesser, Clock, TypeOK
  <2>. QED BY <1>5, <2>1, <2>2, <2>3 DEF Watch
<1>6. CASE Wakes
  BY <1>6, Constants
  DEF Wakes, Sleeping, TypeOK, budgetVars, Bounded, Window, Clock, Ahead, Paused, Lesser
<1>7. CASE Expires \/ TimesOut BY <1>7 DEF Expires, TimesOut, Pending
<1>8. CASE Tick
  <2>1. now < ExpiresAt /\ now' = now + 1 /\ UNCHANGED <<deadline, waitingSince, stage, wake>>
    BY <1>8 DEF Tick, budgetVars
  <2>2. charged' = IF stage \in Credited THEN charged ELSE charged + 1 BY <1>8 DEF Tick
  <2>3. CASE Paused
    BY <2>1, <2>2, <2>3, Constants
    DEF Credited, ExpiresAt, TypeOK, Bounded, Window, Clock, Ahead, Paused, Lesser
  <2>4. CASE stage \in {"quota", "polling"}
    <3>1. now < wake BY <1>8, <2>4 DEF Tick, Sleeping
    <3>. QED BY <2>1, <2>2, <2>4, <3>1, Constants
         DEF Credited, ExpiresAt, TypeOK, Bounded, Window, Clock, Ahead, Paused, Lesser
  <2>5. CASE stage = "queued" /\ Capacity = 0
    BY <2>1, <2>2, <2>5, Constants
    DEF Credited, ExpiresAt, TypeOK, Bounded, Window, Clock, Ahead, Paused, Lesser
  <2>6. CASE stage \notin Credited
    BY <2>1, <2>2, <2>6, Constants
    DEF Credited, ExpiresAt, TypeOK, Bounded, Window, Clock, Ahead, Paused, Lesser
  <2>. QED BY <2>3, <2>4, <2>5, <2>6, Constants DEF Credited, Paused
<1>. QED BY <1>1, <1>2, <1>3, <1>4, <1>5, <1>6, <1>7, <1>8 DEF Next
-----------------------------------------------------------------------------
(* The other submissions, and the ones that are over.                         *)

LEMMA InTimeKept ==
    ASSUME Typed, Pending, ~Budgeted, InTime, Next, Pending'
    PROVE  InTime'
<1>. USE DEF InTime, Typed
<1>1. CASE Send BY <1>1 DEF Send, Sleep
<1>2. CASE Answer
  <2>1. ASSUME NEW ms \in Waits, EdgeRefused(ms) PROVE InTime'
    BY <2>1, Constants DEF EdgeRefused, Pending, Sleep, Greater, TypeOK
  <2>. QED BY <1>2, <2>1
       DEF Answer, IsAccepted, IsRefused, Settle, Pending, Fails, QuotaSpent, PlaceFull
<1>3. CASE Watch BY <1>3 DEF Watch, WatchStops, BlockerEnds, WatchOn
<1>4. CASE Wakes BY <1>4 DEF Wakes, Sleeping, TypeOK
<1>5. CASE Expires \/ TimesOut BY <1>5 DEF Expires, TimesOut, Pending
<1>6. CASE Tick BY <1>6 DEF Tick, Sleeping, TypeOK
<1>. QED BY <1>1, <1>2, <1>3, <1>4, <1>5, <1>6 DEF Next, Enqueue, Dequeue

LEMMA PolicyKept == ASSUME Next PROVE Pending /\ (Budgeted' <=> Budgeted)
BY DEF Next, Enqueue, Dequeue, Send, Answer, IsAccepted, IsRefused, Settle, Fails, QuotaSpent,
       EdgeRefused, PlaceFull, Watch, WatchStops, BlockerEnds, WatchOn, Wakes, Expires, TimesOut,
       Tick, Pending, Budgeted

\* The timer fires at the end of the silence that is left, or of everything.
LEMMA SilentKept ==
    ASSUME Typed, Pending, Budgeted => Bounded, Next
    PROVE  ExpiresOnlyWhenSilent'
<1>1. CASE Expires
  <2>1. now >= ExpiresAt /\ Bounded /\ UNCHANGED <<now, charged>> BY <1>1 DEF Expires
  <2>2. charged >= Budget \/ now >= Maximum
    BY <2>1, Constants
    DEF Typed, TypeOK, ExpiresAt, Bounded, Window, Clock, Paused, Lesser, Ahead
  <2>. QED BY <2>1, <2>2 DEF ExpiresOnlyWhenSilent
<1>2. CASE ~Expires
  BY <1>2
  DEF Next, Enqueue, Dequeue, Send, Answer, IsAccepted, IsRefused, Settle, Fails, QuotaSpent,
      EdgeRefused, PlaceFull, Watch, WatchStops, BlockerEnds, WatchOn, Wakes, TimesOut, Tick,
      Pending, ExpiresOnlyWhenSilent
<1>. QED BY <1>1, <1>2

\* Every step keeps the deadline worth the silence that is left.
LEMMA NextInv == IInv /\ [Next]_vars => IInv'
<1>. SUFFICES ASSUME IInv, [Next]_vars PROVE IInv' OBVIOUS
<1>1. CASE Next
  <2>1. Pending /\ (Budgeted' <=> Budgeted) BY <1>1, PolicyKept
  <2>2. Typed' BY TypesKept DEF IInv
  <2>3. Pending' /\ Budgeted' => Bounded' BY <1>1, <2>1, BoundedKept DEF IInv
  <2>4. Pending' /\ ~Budgeted' => InTime' BY <1>1, <2>1, InTimeKept DEF IInv
  <2>5. ExpiresOnlyWhenSilent' BY <1>1, <2>1, SilentKept DEF IInv
  <2>. QED BY <2>2, <2>3, <2>4, <2>5 DEF IInv
<1>2. CASE UNCHANGED vars
  BY <1>2 DEF vars, IInv, Typed, TypeOK, Pending, Budgeted, Bounded, Window, Clock, Ahead,
              Paused, InTime, ExpiresOnlyWhenSilent
<1>. QED BY <1>1, <1>2

\* Window holds throughout, for every submission.
THEOREM Submissions == Spec => []IInv
BY InitInv, NextInv, PTL DEF Spec

\* A submission that is given up has been silent for its whole budget or has used
\* up its absolute limit, and one still pending has done neither: no wait is
\* credited twice, and no evidence counts twice.
THEOREM StaysWithinBudget == Spec => []KeepsToBudget
<1>1. IInv => ExpiresOnlyWhenSilent BY DEF IInv
<1>2. IInv => NeverOutstays BY DEF IInv, Bounded, NeverOutstays
<1>. QED BY <1>1, <1>2, Submissions, PTL DEF KeepsToBudget

\* New evidence of capacity never takes back time that was granted.
LEMMA EvidenceStep ==
  IInv /\ [Next]_vars => [seen \subseteq seen' /\ seen' # seen => deadline' >= deadline]_vars
<1>. SUFFICES ASSUME IInv, Next, seen' # seen PROVE deadline' >= deadline BY DEF vars
<1>0. Pending BY PolicyKept
<1>1. ASSUME NEW tasks \in BlockerSets, PlaceFull(tasks) PROVE deadline' >= deadline
  <2>1. Budgeted /\ stage = "sending" /\ Progress(Evidence("blockers", tasks))
    BY <1>1 DEF PlaceFull
  <2>. QED BY <1>0, <2>1, ProgressBounded DEF IInv, Paused, Ahead
<1>2. ASSUME NEW ms \in Waits, NEW task \in blockers, BlockerEnds(task, ms)
      PROVE  deadline' >= deadline
  <2>1. stage = "watching" /\ Progress(Evidence("terminal", {task})) BY <1>2 DEF BlockerEnds
  <2>2. Budgeted BY <1>0, <2>1 DEF IInv, InTime
  <2>. QED BY <1>0, <2>1, <2>2, ProgressBounded DEF IInv, Paused, Ahead
<1>. QED BY <1>1, <1>2
     DEF Next, Enqueue, Dequeue, Send, Answer, IsAccepted, IsRefused, Settle, Fails,
         QuotaSpent, Defer, EdgeRefused, Watch, WatchStops, WatchOn, Wakes, Expires, TimesOut,
         Tick, budgetVars

\* So whatever evidence comes, a submission keeps what it was granted.
THEOREM EvidenceExtends == Spec => EvidenceNeverShortens
BY EvidenceStep, Submissions, PTL DEF Spec, EvidenceNeverShortens

\* No create is sent once its caller's limit has passed.
LEMMA SendStep ==
  IInv /\ [Next]_vars => [sends' > sends => now <= (IF Budgeted THEN Maximum ELSE Deadline)]_vars
<1>. SUFFICES ASSUME IInv, Next, sends' > sends
              PROVE  now <= (IF Budgeted THEN Maximum ELSE Deadline)
  BY DEF vars
<1>0. Pending BY PolicyKept
<1>1. CASE Budgeted BY <1>0, <1>1 DEF IInv, Bounded
<1>2. CASE ~Budgeted
  <2>1. stage = "ready" \/ sends' = sends
    BY <1>2 DEF Next, Enqueue, Dequeue, Send, Answer, IsAccepted, IsRefused, Settle, Fails,
         QuotaSpent, PlaceFull, EdgeRefused, Watch, WatchStops, BlockerEnds, WatchOn, Wakes,
         Expires, TimesOut, Tick, IInv, InTime, Pending
  <2>2. sends \in Nat BY DEF IInv, Typed, TypeOK
  <2>. QED BY <1>0, <1>2, <2>1, <2>2 DEF IInv, InTime
<1>. QED BY <1>1, <1>2

\* So a create is sent while its caller still waits for it, or not at all.
THEOREM CreatesAreTimely == Spec => NoLateCreate
BY SendStep, Submissions, PTL DEF Spec, NoLateCreate

\* A submission takes back no time it has granted and sends nothing too late
\* (submit-budget.ts, task-submission.ts).
THEOREM CreatesAreInTime == Spec => CreatesKeepTime
  BY EvidenceExtends, CreatesAreTimely DEF CreatesKeepTime

-----------------------------------------------------------------------------
(* The buckets.                                                            *)

\* What is merged is merged once: nothing before all buckets are in, and what they
\* brought from then on.
MergedOnce ==
    /\ collected \in [Buckets -> [Jobs -> Verdicts \cup {"none"}]]
    /\ entryByKey # NoEntries => entryByKey = Merged /\ \A b \in Buckets : pc[b] = "drained"

\* What the buckets brought, put together, is again a map of verdicts.
LEMMA MergedTyped ==
  ASSUME collected \in [Buckets -> [Jobs -> Verdicts \cup {"none"}]]
  PROVE  Merged \in [Jobs -> Verdicts \cup {"none"}]
<1>. SUFFICES ASSUME NEW j \in Jobs PROVE Merged[j] \in Verdicts \cup {"none"}
  BY DEF Merged
<1>. DEFINE found == {b \in Buckets : collected[b][j] # "none"}
<1>1. Merged[j] = IF found = {} THEN "none" ELSE collected[CHOOSE b \in found : TRUE][j]
  BY DEF Merged
<1>2. CASE found = {} BY <1>1, <1>2
<1>3. CASE found # {}
  <2>1. (CHOOSE b \in found : TRUE) \in found BY <1>3
  <2>. QED BY <1>1, <1>3, <2>1
<1>. QED BY <1>2, <1>3

\* Entries that are added leave a bucket's map a map of verdicts.
LEMMA AddedTyped ==
  ASSUME collected \in [Buckets -> [Jobs -> Verdicts \cup {"none"}]],
         NEW b \in Buckets, NEW arrived, NEW v \in Runs
  PROVE  Added(b, arrived, v) \in [Jobs -> Verdicts \cup {"none"}]
BY DEF Added, Runs

\* Nothing is merged at first.
LEMMA MergedOnceInit == DispatchInit => MergedOnce
BY DEF DispatchInit, MergedOnce, NoEntries

\* Only Merge writes the entries, and after it no bucket collects any more.
LEMMA MergedOnceStep == MergedOnce /\ [DispatchNext]_dispatchVars => MergedOnce'
<1>. SUFFICES ASSUME MergedOnce, [DispatchNext]_dispatchVars PROVE MergedOnce'
  OBVIOUS
<1>. USE DEF MergedOnce
<1>1. ASSUME NEW b \in Buckets, Accepted(b) \/ Rejects(b) PROVE MergedOnce'
  BY <1>1 DEF Accepted, Rejects, bucketVars, runVars, Merged, NoEntries
<1>2. ASSUME NEW b \in Buckets, Returns(b) PROVE MergedOnce'
  <2>1. entryByKey = NoEntries /\ entryByKey' = NoEntries
    BY <1>2 DEF Returns, runVars, NoEntries
  <2>2. PICK v \in Runs : \E arrived : collected' = [collected EXCEPT ![b] = Added(b, arrived, v)]
    BY <1>2 DEF Returns
  <2>. QED BY <2>1, <2>2, AddedTyped
<1>3. ASSUME NEW b \in Buckets, ReturnsAll(b) PROVE MergedOnce'
  <2>1. entryByKey = NoEntries /\ entryByKey' = NoEntries
    BY <1>3 DEF ReturnsAll, runVars, NoEntries
  <2>2. PICK v \in Runs : \/ UNCHANGED collected
                         \/ \E arrived : collected' = [collected EXCEPT ![b] = Added(b, arrived, v)]
    BY <1>3 DEF ReturnsAll
  <2>. QED BY <2>1, <2>2, AddedTyped
<1>4. CASE Merge
  BY <1>4 DEF Merge, AllDrained, bucketVars, Merged
<1>5. CASE RunFails \/ Collect \/ UNCHANGED dispatchVars
  BY <1>5 DEF RunFails, Collect, dispatchVars, bucketVars, Merged, NoEntries
<1>. QED BY <1>1, <1>2, <1>3, <1>4, <1>5 DEF DispatchNext, BucketStep, Over

\* Every step of the dispatch is a step of the promise or none.
LEMMA StepKeepsPromise ==
  MergedOnce /\ [DispatchNext]_dispatchVars => [Promise!Next]_<<entryByKey, outcome>>
<1>. SUFFICES ASSUME MergedOnce, [DispatchNext]_dispatchVars
              PROVE  [Promise!Next]_<<entryByKey, outcome>>
  OBVIOUS
<1>1. CASE \E b \in Buckets : BucketStep(b) \/ Rejects(b)
  BY <1>1 DEF BucketStep, Accepted, Rejects, Returns, ReturnsAll, runVars
<1>2. CASE Over \/ UNCHANGED dispatchVars
  BY <1>2 DEF Over, dispatchVars
<1>3. CASE RunFails
  BY <1>3 DEF RunFails, Promise!Next, Promise!Settle, Promise!Outcomes
<1>4. CASE Merge
  <2>1. outcome = "running" /\ UNCHANGED outcome /\ entryByKey' = Merged /\ entryByKey = NoEntries
    BY <1>4 DEF Merge, AllDrained, MergedOnce
  <2>2. \A j \in Jobs : entryByKey[j] = "none" BY <2>1 DEF NoEntries
  <2>3. entryByKey' \in [Jobs -> Promise!Verdicts \cup {"none"}]
    BY <2>1, MergedTyped DEF MergedOnce, Verdicts, Promise!Verdicts
  <2>. QED BY <2>1, <2>2, <2>3 DEF Promise!Next, Promise!Deliver
<1>5. CASE Collect
  BY <1>5 DEF Collect, AllDrained, Verdict, Promise!Next, Promise!Settle, Promise!Outcomes
<1>. QED BY <1>1, <1>2, <1>3, <1>4, <1>5 DEF DispatchNext

\* A step of the composition is, for the dispatch, a step of its own or none.
LEMMA StepOfDispatch == [CloudNext]_cloudVars => [DispatchNext]_dispatchVars
<1>. SUFFICES ASSUME [CloudNext]_cloudVars PROVE [DispatchNext]_dispatchVars
  OBVIOUS
<1>1. ASSUME Watched \in Buckets PROVE [DispatchNext]_dispatchVars
  BY <1>1 DEF CloudNext, cloudVars, Submits, CreateAccepted, CreateFails, WatchedReturns,
              Elsewhere, DispatchNext, BucketStep
<1>2. Watched \in Buckets BY ParallelAssumption DEF Watched, Buckets
<1>. QED BY <1>1, <1>2

\* The caller of a dispatch without a queue gets what BatchOutcome promises: what
\* arrived is not replaced, and "complete" and "missing" mean it, whatever is
\* damaged, re-sent, bailed or rejected (runDeferrableAsync, collectStealingResults).
THEOREM BucketsKeepPromise == CloudSpec => KeepsPromise
<1>1. CloudInit => MergedOnce /\ Promise!Init
  BY MergedOnceInit DEF CloudInit, DispatchInit, Promise!Init, NoEntries
<1>2. MergedOnce /\ [CloudNext]_cloudVars => MergedOnce'
  BY MergedOnceStep, StepOfDispatch
<1>3. MergedOnce /\ [CloudNext]_cloudVars => [Promise!Next]_<<entryByKey, outcome>>
  BY StepKeepsPromise, StepOfDispatch
<1>. QED BY <1>1, <1>2, <1>3, PTL DEF CloudSpec, KeepsPromise, Promise!Spec

-----------------------------------------------------------------------------
(* Induction over the positions of a sequence.  The library's theorem takes *)
(* the formula as an operator; here it is the set of the positions it holds *)
(* at, and the library's well-founded order of the naturals does the rest.  *)

\* Every set of naturals has a least element.
LEMMA LeastExists ==
  ASSUME NEW T, T \subseteq Nat, T # {}
  PROVE  \E m \in T : \A k \in T : m <= k
<1>. DEFINE R == {p \in Nat \X Nat : p[1] < p[2]}
<1>1. IsWellFoundedOn(R, Nat) BY NatLessThanWellFounded DEF OpToRel
<1>2. \E x \in T : \A y \in T : ~ (<<y, x>> \in R)
  <2>. HIDE DEF R
  <2>. QED BY <1>1, WFMin
<1>3. PICK x \in T : \A y \in T : ~ (<<y, x>> \in R) BY <1>2
<1>4. ASSUME NEW y \in T PROVE x <= y
  <2>1. <<y, x>> \in Nat \X Nat OBVIOUS
  <2>. QED BY <1>3, <2>1
<1>. QED BY <1>4

\* What holds at 0 and goes over from every position to the next holds up to n.
LEMMA Induction ==
  ASSUME NEW n \in Nat, NEW T, 0 \in T, \A i \in 1..n : i - 1 \in T => i \in T
  PROVE  \A i \in 0..n : i \in T
<1>. SUFFICES ASSUME (0..n) \ T # {} PROVE FALSE OBVIOUS
<1>. DEFINE U == (0..n) \ T
<1>1. U \subseteq Nat /\ U # {} OBVIOUS
<1>2. PICK m \in U : \A k \in U : m <= k
  <2>. HIDE DEF U
  <2>. QED BY <1>1, LeastExists
<1>3. m \in 1..n /\ m - 1 \in T BY <1>2
<1>. QED BY <1>3

\* f starts as w and takes one step after another.
Steps(f, n, W, w, step) == /\ f \in [0..n -> W]
                           /\ f[0] = w
                           /\ \A i \in 1..n : f[i] = step[i][f[i - 1]]

\* Whatever the steps, there is a function that takes them.
LEMMA Recursion ==
  ASSUME NEW n \in Nat, NEW W, NEW w \in W, NEW step \in [1..n -> [W -> W]]
  PROVE  \E f : Steps(f, n, W, w, step)
<1>. DEFINE T == {k \in 0..n : \E g : Steps(g, k, W, w, step)}
<1>1. 0 \in T
  <2>. DEFINE g == [i \in 0..0 |-> w]
  <2>1. Steps(g, 0, W, w, step) BY DEF Steps
  <2>. HIDE DEF g
  <2>. QED BY <2>1
<1>2. ASSUME NEW k \in 1..n, k - 1 \in T PROVE k \in T
  <2>1. PICK g : Steps(g, k - 1, W, w, step) BY <1>2
  <2>2. /\ g \in [0..k - 1 -> W] /\ g[0] = w /\ k \in Nat /\ k > 0 /\ k <= n
        /\ \A i \in 1..k - 1 : g[i] = step[i][g[i - 1]]
    BY <2>1 DEF Steps
  <2>. DEFINE h == [i \in 0..k |-> IF i = k THEN step[k][g[k - 1]] ELSE g[i]]
  <2>3. step[k][g[k - 1]] \in W BY <2>2
  <2>4. h \in [0..k -> W] BY <2>2, <2>3
  <2>5. h[0] = w BY <2>2
  <2>6. ASSUME NEW i \in 1..k PROVE h[i] = step[i][h[i - 1]]
    <3>1. h[i - 1] = g[i - 1] BY <2>2
    <3>2. CASE i = k BY <3>1, <3>2
    <3>3. CASE i # k BY <2>2, <3>1, <3>3
    <3>. QED BY <3>2, <3>3
  <2>. HIDE DEF h
  <2>7. Steps(h, k, W, w, step) BY <2>4, <2>5, <2>6 DEF Steps
  <2>. QED BY <2>7
<1>3. \A i \in 0..n : i \in T
  <2>. HIDE DEF T
  <2>. QED BY <1>1, <1>2, Induction
<1>. QED BY <1>3

\* f tells what is kept of each prefix of s.
KeptSoFar(f, X, s, S) ==
    /\ f \in [0..Len(s) -> Seq(X)]
    /\ f[0] = << >>
    /\ \A i \in 1..Len(s) : f[i] = IF s[i] \in S THEN Append(f[i - 1], s[i]) ELSE f[i - 1]

\* Filtered decides about one element after another.
LEMMA FilteredSteps ==
  ASSUME NEW X, NEW s \in Seq(X), NEW S
  PROVE  \E f : KeptSoFar(f, X, s, S) /\ Filtered(s, S) = f[Len(s)]
<1>. DEFINE Taken(t, i) == IF s[i] \in S THEN Append(t, s[i]) ELSE t
            Def(g) == [i \in 0..Len(s) |-> IF i = 0 THEN << >> ELSE Taken(g[i - 1], i)]
            step == [i \in 1..Len(s) |-> [t \in Seq(X) |-> Taken(t, i)]]
            f == CHOOSE g : g = Def(g)
<1>1. ASSUME NEW i \in 1..Len(s), NEW t \in Seq(X) PROVE Taken(t, i) \in Seq(X)
  <2>1. s[i] \in X OBVIOUS
  <2>2. Append(t, s[i]) \in Seq(X) BY <2>1
  <2>. QED BY <2>2, Zenon
<1>2. Len(s) \in Nat /\ << >> \in Seq(X) OBVIOUS
<1>3. Filtered(s, S) = f[Len(s)] BY DEF Filtered
<1>. HIDE DEF Taken
<1>4. step \in [1..Len(s) -> [Seq(X) -> Seq(X)]] BY <1>1
<1>5. PICK g : Steps(g, Len(s), Seq(X), << >>, step)
  <2>. HIDE DEF step
  <2>. QED BY <1>2, <1>4, Recursion
<1>6. g \in [0..Len(s) -> Seq(X)] /\ g[0] = << >> BY <1>5 DEF Steps
<1>7. ASSUME NEW i \in 1..Len(s) PROVE g[i] = Taken(g[i - 1], i)
  <2>1. g[i] = step[i][g[i - 1]]
    <3>. HIDE DEF step
    <3>. QED BY <1>5 DEF Steps
  <2>2. g[i - 1] \in Seq(X) BY <1>2, <1>6
  <2>. QED BY <2>1, <2>2
<1>8. g = Def(g)
  <2>1. g = [i \in 0..Len(s) |-> g[i]] BY <1>6
  <2>2. ASSUME NEW i \in 0..Len(s)
        PROVE  g[i] = IF i = 0 THEN << >> ELSE Taken(g[i - 1], i)
    <3>1. i # 0 => i \in 1..Len(s) BY <1>2
    <3>. QED BY <1>6, <1>7, <3>1, Zenon
  <2>. QED BY <2>1, <2>2, Zenon
<1>9. f = Def(f)
  <2>. HIDE DEF Def
  <2>. QED BY <1>8
<1>. HIDE DEF f, step
<1>10. f[0] = << >> BY <1>2, <1>9
<1>11. ASSUME NEW i \in 1..Len(s) PROVE f[i] = Taken(f[i - 1], i)
  <2>1. i \in 0..Len(s) /\ i # 0 BY <1>2
  <2>. QED BY <2>1, <1>9
<1>12. f = [i \in 0..Len(s) |-> f[i]] BY <1>9
<1>. HIDE DEF Def
<1>. DEFINE T == {i \in 0..Len(s) : f[i] \in Seq(X)}
<1>13. 0 \in T
  <2>1. f[0] \in Seq(X) BY <1>2, <1>10, Zenon
  <2>. QED BY <1>2, <2>1
<1>14. ASSUME NEW i \in 1..Len(s), i - 1 \in T PROVE i \in T
  <2>1. f[i] \in Seq(X) BY <1>1, <1>11, <1>14
  <2>. QED BY <1>2, <2>1
<1>15. \A i \in 0..Len(s) : i \in T
  <2>. HIDE DEF T
  <2>. QED BY <1>2, <1>13, <1>14, Induction
<1>16. f \in [0..Len(s) -> Seq(X)] BY <1>12, <1>15
<1>17. KeptSoFar(f, X, s, S) BY <1>10, <1>11, <1>16 DEF Taken, KeptSoFar
<1>. QED BY <1>3, <1>17


Elements(s) == {s[i] : i \in 1..Len(s)}
Increasing(s) == \A i, k \in 1..Len(s) : i < k => s[i] < s[k]

\* An element greater than all others goes last.
LEMMA AppendedOrder ==
  ASSUME NEW t \in Seq(Nat), Increasing(t), NEW e \in Nat, \A x \in Elements(t) : x < e
  PROVE  Increasing(Append(t, e)) /\ Elements(Append(t, e)) = Elements(t) \cup {e}
<1>. DEFINE u == Append(t, e)
<1>1. /\ Len(t) \in Nat /\ Len(u) = Len(t) + 1 /\ u[Len(t) + 1] = e
      /\ \A i \in 1..Len(t) : u[i] = t[i] /\ t[i] \in Nat
  OBVIOUS
<1>. HIDE DEF u
<1>2. 1..Len(u) = 1..Len(t) \cup {Len(t) + 1} BY <1>1
<1>3. Increasing(u)
  <2>. SUFFICES ASSUME NEW i \in 1..Len(u), NEW k \in 1..Len(u), i < k PROVE u[i] < u[k]
    BY DEF Increasing
  <2>1. i \in 1..Len(t) BY <1>1
  <2>2. CASE k \in 1..Len(t) BY <1>1, <2>1, <2>2 DEF Increasing
  <2>3. CASE k = Len(t) + 1
    <3>1. t[i] \in Elements(t) BY <2>1 DEF Elements
    <3>. QED BY <1>1, <2>1, <2>3, <3>1
  <2>. QED BY <1>2, <2>2, <2>3
<1>4. Elements(u) = Elements(t) \cup {e}
  <2>1. ASSUME NEW x \in Elements(u) PROVE x \in Elements(t) \cup {e}
    <3>1. PICK i \in 1..Len(u) : x = u[i] BY <2>1 DEF Elements
    <3>. QED BY <1>1, <1>2, <3>1 DEF Elements
  <2>2. ASSUME NEW x \in Elements(t) PROVE x \in Elements(u)
    <3>1. PICK i \in 1..Len(t) : x = t[i] BY <2>2 DEF Elements
    <3>2. x = u[i] /\ i \in 1..Len(u) BY <1>1, <1>2, <3>1
    <3>. QED BY <3>2 DEF Elements
  <2>3. e \in Elements(u) 
    <3>1. e = u[Len(t) + 1] /\ Len(t) + 1 \in 1..Len(u) BY <1>1
    <3>. QED BY <3>1 DEF Elements
  <2>. QED BY <2>1, <2>2, <2>3
<1>. QED BY <1>3, <1>4 DEF u

\* What Filtered keeps of an increasing sequence: the elements of S, in order; it is
\* shorter by at least one where an element is left out.
LEMMA FilteredFacts ==
  ASSUME NEW s \in Seq(Nat), Increasing(s), NEW S
  PROVE  /\ Filtered(s, S) \in Seq(Nat)
         /\ Increasing(Filtered(s, S))
         /\ Elements(Filtered(s, S)) = Elements(s) \cap S
         /\ Len(Filtered(s, S)) <= Len(s)
         /\ \A i \in 1..Len(s) : s[i] \notin S => Len(Filtered(s, S)) < Len(s)
<1>0. PICK f : KeptSoFar(f, Nat, s, S) /\ Filtered(s, S) = f[Len(s)] BY FilteredSteps
<1>1. /\ f \in [0..Len(s) -> Seq(Nat)]
      /\ f[0] = << >>
      /\ \A i \in 1..Len(s) : f[i] = IF s[i] \in S THEN Append(f[i - 1], s[i]) ELSE f[i - 1]
  BY <1>0 DEF KeptSoFar
<1>. DEFINE Upto(i) == {s[k] : k \in 1..i}
            Good(i) == /\ Increasing(f[i])
                       /\ Elements(f[i]) = Upto(i) \cap S
                       /\ Len(f[i]) <= i
                       /\ \A k \in 1..i : s[k] \notin S => Len(f[i]) < i
            T == {i \in 0..Len(s) : Good(i)}
<1>2. Len(s) \in Nat /\ \A i \in 1..Len(s) : s[i] \in Nat OBVIOUS
<1>3. 0 \in T
  <2>1. Len(f[0]) = 0 BY <1>1
  <2>2. Increasing(f[0]) /\ Elements(f[0]) = {} BY <2>1 DEF Increasing, Elements
  <2>. QED BY <1>2, <2>1, <2>2
<1>4. ASSUME NEW i \in 1..Len(s), i - 1 \in T PROVE i \in T
  <2>1. i \in Nat /\ i - 1 \in 0..Len(s) /\ i > 0 /\ i \in 0..Len(s) BY <1>2
  <2>2. f[i - 1] \in Seq(Nat) /\ Len(f[i - 1]) \in Nat
    <3>1. f[i - 1] \in Seq(Nat) BY <1>1, <2>1
    <3>. QED BY <3>1
  <2>3. Upto(i) = Upto(i - 1) \cup {s[i]} BY <2>1
  <2>4. Good(i - 1) BY <1>4
  <2>5. CASE s[i] \in S
    <3>1. f[i] = Append(f[i - 1], s[i]) BY <1>1, <2>5
    <3>2. \A x \in Elements(f[i - 1]) : x < s[i]
      <4>1. \A k \in 1..(i - 1) : s[k] < s[i] BY <1>2, <2>1 DEF Increasing
      <4>. QED BY <2>4, <4>1
    <3>3. Increasing(f[i]) /\ Elements(f[i]) = Elements(f[i - 1]) \cup {s[i]}
      <4>. HIDE DEF Good, Upto
      <4>1. Increasing(f[i - 1]) BY <2>4 DEF Good
      <4>. QED BY <1>2, <2>2, <3>1, <3>2, <4>1, AppendedOrder
    <3>4. Len(f[i]) = Len(f[i - 1]) + 1 BY <1>2, <2>2, <3>1
    <3>5. Elements(f[i]) = Upto(i) \cap S
      <4>. HIDE DEF Upto
      <4>. QED BY <2>3, <2>4, <2>5, <3>3
    <3>6. \A k \in 1..i : s[k] \notin S => Len(f[i]) < i BY <2>1, <2>2, <2>4, <2>5, <3>4
    <3>. QED BY <2>1, <2>2, <2>4, <3>3, <3>4, <3>5, <3>6
  <2>6. CASE s[i] \notin S
    <3>1. f[i] = f[i - 1] BY <1>1, <2>6
    <3>2. Elements(f[i]) = Upto(i) \cap S
      <4>. HIDE DEF Upto
      <4>. QED BY <2>3, <2>4, <2>6, <3>1
    <3>. QED BY <2>1, <2>2, <2>4, <3>1, <3>2
  <2>. QED BY <2>5, <2>6
<1>5. Good(Len(s))
  <2>1. \A i \in 0..Len(s) : i \in T
    <3>. HIDE DEF T
    <3>. QED BY <1>2, <1>3, <1>4, Induction
  <2>2. Len(s) \in 0..Len(s) BY <1>2
  <2>. HIDE DEF Good
  <2>. QED BY <2>1, <2>2
<1>6. Upto(Len(s)) = Elements(s) BY DEF Elements
<1>. QED BY <1>0, <1>1, <1>2, <1>5, <1>6

-----------------------------------------------------------------------------
(* A task's walk over its entries.                                         *)

Walks == [kept : Nat, used : Nat, largest : Nat, tripped : BOOLEAN,
          stop : {"none", "bailed", "deferred"}]

\* What a walk over the first i entries of s has come to: it keeps a prefix, which is
\* everything until it stops and never nothing, and bails only behind a failure.
Walked(w, i, s, v) ==
    /\ w \in Walks
    /\ w.kept <= i
    /\ w.kept = 0 => i = 0 /\ w.used = 0 /\ w.largest = 0 /\ w.stop = "none" /\ ~w.tripped
    /\ w.stop = "none" => w.kept = i
    /\ w.tripped => v[s[w.kept]] = "fail"
    /\ w.stop = "bailed" => w.tripped

\* A visit leaves a walk a walk.
LEMMA VisitTyped ==
  ASSUME NEW w \in Walks, NEW size \in Nat, NEW verdict
  PROVE  Visit(w, size, verdict) \in Walks
<1>. DEFINE fail == BailEnabled /\ verdict = "fail"
            large == IF size > w.largest THEN size ELSE w.largest
            u == [w EXCEPT !.kept = @ + 1, !.used = @ + size, !.largest = large,
                           !.tripped = fail]
<1>1. [w EXCEPT !.stop = "bailed"] \in Walks /\ [w EXCEPT !.stop = "deferred"] \in Walks
  BY DEF Walks
<1>2. w.kept + 1 \in Nat /\ w.used + size \in Nat /\ large \in Nat /\ fail \in BOOLEAN
  BY SwitchAssumption DEF Walks
<1>3. Visit(w, size, verdict)
        \in {w, u, [w EXCEPT !.stop = "bailed"], [w EXCEPT !.stop = "deferred"]}
  BY DEF Visit
<1>. HIDE DEF fail, large
<1>4. u \in Walks BY <1>2 DEF Walks
<1>. QED BY <1>1, <1>3, <1>4

\* An empty envelope takes the first entry, however large it is.
LEMMA VisitKeepsWalk ==
  ASSUME NEW s \in Seq(Jobs), NEW v \in [Jobs -> Verdicts], NEW i \in 1..Len(s),
         NEW w, Walked(w, i - 1, s, v)
  PROVE  Walked(Visit(w, Size[s[i]], v[s[i]]), i, s, v)
<1>. DEFINE size == Size[s[i]]
            u == Visit(w, size, v[s[i]])
<1>1. size \in Nat /\ i \in Nat /\ i > 0 /\ i - 1 \in Nat
  <2>1. s[i] \in Jobs /\ Len(s) \in Nat OBVIOUS
  <2>. QED BY <2>1, SizeAssumption
<1>2. /\ w \in Walks /\ w.kept \in Nat /\ w.kept <= i - 1
      /\ w.kept = 0 => i = 1 /\ w.used = 0 /\ w.largest = 0 /\ w.stop = "none" /\ ~w.tripped
      /\ w.stop = "none" => w.kept = i - 1
      /\ w.tripped => v[s[w.kept]] = "fail"
      /\ w.stop = "bailed" => w.tripped
  BY <1>1 DEF Walked, Walks
<1>. HIDE DEF size
<1>3. CASE w.stop # "none"
  <2>1. u = w BY <1>3 DEF Visit
  <2>. QED BY <1>1, <1>2, <1>3, <2>1 DEF Walked, size
<1>4. CASE w.stop = "none" /\ w.tripped
  <2>1. u = [w EXCEPT !.stop = "bailed"] BY <1>4 DEF Visit
  <2>2. /\ u \in Walks /\ u.kept = w.kept /\ u.stop = "bailed" /\ u.tripped
    BY <1>2, <1>4, <2>1 DEF Walks
  <2>. QED BY <1>1, <1>2, <1>4, <2>2 DEF Walked, size
<1>5. CASE /\ w.stop = "none" /\ ~w.tripped
           /\ ~Fits(w, w.largest) \/ ~Fits(w, size)
  <2>1. u = [w EXCEPT !.stop = "deferred"] BY <1>5 DEF Visit
  <2>2. /\ u \in Walks /\ u.kept = w.kept /\ u.stop = "deferred" /\ ~u.tripped
    BY <1>2, <1>5, <2>1 DEF Walks
  <2>3. w.kept # 0 BY <1>2, <1>5 DEF Fits
  <2>. QED BY <1>1, <1>2, <2>2, <2>3 DEF Walked, size
<1>6. CASE /\ w.stop = "none" /\ ~w.tripped
           /\ Fits(w, w.largest) /\ Fits(w, size)
  <2>1. u = [w EXCEPT !.kept = @ + 1, !.used = @ + size,
                      !.largest = IF size > @ THEN size ELSE @,
                      !.tripped = BailEnabled /\ v[s[i]] = "fail"]
    BY <1>6 DEF Visit
  <2>2. u \in Walks BY <1>1, <1>2, VisitTyped
  <2>3. u.kept = i /\ u.stop = "none" /\ (u.tripped => v[s[i]] = "fail")
    BY <1>1, <1>2, <1>6, <2>1 DEF Walks
  <2>. QED BY <1>1, <2>2, <2>3 DEF Walked, size
<1>. QED BY <1>3, <1>4, <1>5, <1>6

\* A task keeps its first entry at least, and everything unless it defers or bails.
LEMMA EnvelopeFacts ==
  ASSUME NEW s \in Seq(Jobs), NEW v \in [Jobs -> Verdicts]
  PROVE  Walked(Envelope(s, v), Len(s), s, v)
<1>. DEFINE Next_(w, i) == Visit(w, Size[s[i]], v[s[i]])
            Def(g) == [i \in 0..Len(s) |-> IF i = 0 THEN EmptyWalk ELSE Next_(g[i - 1], i)]
            step == [i \in 1..Len(s) |-> [w \in Walks |-> Next_(w, i)]]
            f == CHOOSE g : g = Def(g)
<1>1. Envelope(s, v) = f[Len(s)] BY DEF Envelope
<1>2. Len(s) \in Nat /\ EmptyWalk \in Walks BY DEF EmptyWalk, Walks
<1>3. ASSUME NEW i \in 1..Len(s), NEW w \in Walks PROVE Next_(w, i) \in Walks
  <2>1. Size[s[i]] \in Nat
    <3>1. s[i] \in Jobs OBVIOUS
    <3>. QED BY <3>1, SizeAssumption
  <2>. QED BY <2>1, VisitTyped
<1>4. ASSUME NEW i \in 1..Len(s), NEW w, Walked(w, i - 1, s, v) PROVE Walked(Next_(w, i), i, s, v)
  BY <1>4, VisitKeepsWalk
<1>. HIDE DEF Next_
<1>5. step \in [1..Len(s) -> [Walks -> Walks]] BY <1>3
<1>6. PICK g : Steps(g, Len(s), Walks, EmptyWalk, step)
  <2>. HIDE DEF step
  <2>. QED BY <1>2, <1>5, Recursion
<1>7. g \in [0..Len(s) -> Walks] /\ g[0] = EmptyWalk BY <1>6 DEF Steps
<1>8. ASSUME NEW i \in 1..Len(s) PROVE g[i] = Next_(g[i - 1], i)
  <2>1. g[i] = step[i][g[i - 1]]
    <3>. HIDE DEF step
    <3>. QED BY <1>6 DEF Steps
  <2>2. g[i - 1] \in Walks BY <1>2, <1>7
  <2>. QED BY <2>1, <2>2
<1>9. g = Def(g)
  <2>1. g = [i \in 0..Len(s) |-> g[i]] BY <1>7
  <2>2. ASSUME NEW i \in 0..Len(s)
        PROVE  g[i] = IF i = 0 THEN EmptyWalk ELSE Next_(g[i - 1], i)
    <3>1. i # 0 => i \in 1..Len(s) BY <1>2
    <3>. QED BY <1>7, <1>8, <3>1, Zenon
  <2>. QED BY <2>1, <2>2, Zenon
<1>10. f = Def(f)
  <2>. HIDE DEF Def
  <2>. QED BY <1>9
<1>. HIDE DEF f, step
<1>11. f[0] = EmptyWalk BY <1>2, <1>10
<1>12. ASSUME NEW i \in 1..Len(s) PROVE f[i] = Next_(f[i - 1], i)
  <2>1. i \in 0..Len(s) /\ i # 0 BY <1>2
  <2>. QED BY <2>1, <1>10
<1>. HIDE DEF Def
<1>. DEFINE T == {i \in 0..Len(s) : Walked(f[i], i, s, v)}
<1>13. 0 \in T
  <2>1. Walked(EmptyWalk, 0, s, v) BY DEF Walked, EmptyWalk, Walks
  <2>. QED BY <1>2, <1>11, <2>1
<1>14. ASSUME NEW i \in 1..Len(s), i - 1 \in T PROVE i \in T
  <2>1. Walked(f[i], i, s, v) BY <1>4, <1>12, <1>14
  <2>. QED BY <1>2, <2>1
<1>15. \A i \in 0..Len(s) : i \in T
  <2>. HIDE DEF T
  <2>. QED BY <1>2, <1>13, <1>14, Induction
<1>. QED BY <1>1, <1>2, <1>15

-----------------------------------------------------------------------------
(* How the jobs are dealt.                                                 *)

Count == ResolveBucketCount(Parallel, JobCount)

\* Every job is dealt into one bucket, and every bucket has a job of its own.
LEMMA Dealt ==
    /\ Count \in Nat /\ Buckets = 1..Count
    /\ \A j \in Jobs : \E b \in Buckets : InBucket(j, b)
    /\ \A j \in Jobs : \A b, c \in Buckets : InBucket(j, b) /\ InBucket(j, c) => b = c
    /\ \A b \in Buckets : \E j \in Jobs : InBucket(j, b)
<1>1. JobCount \in Nat /\ JobCount > 0 BY JobsAssumption
<1>2. Count \in Nat /\ Count > 0 /\ Buckets = 1..Count
  BY ParallelAssumption DEF Count, Buckets
<1>3. Count <= JobCount
  BY <1>1, <1>2, ParallelAssumption DEF Count, ResolveBucketCount, Least
<1>4. ASSUME NEW j \in Jobs PROVE \E b \in Buckets : InBucket(j, b)
  <2>1. j - 1 \in Nat BY <1>1 DEF Jobs
  <2>2. (j - 1) % Count \in 0..Count - 1 BY <1>2, <2>1
  <2>3. ((j - 1) % Count) + 1 \in Buckets BY <1>2, <2>2
  <2>4. InBucket(j, ((j - 1) % Count) + 1) BY <2>2 DEF InBucket, Count
  <2>. QED BY <2>3, <2>4
<1>5. ASSUME NEW j \in Jobs, NEW b \in Buckets, NEW c \in Buckets,
             InBucket(j, b), InBucket(j, c)
      PROVE  b = c
  <2>1. b - 1 = c - 1 BY <1>5 DEF InBucket
  <2>. QED BY <1>2, <2>1
<1>6. ASSUME NEW b \in Buckets PROVE \E j \in Jobs : InBucket(j, b)
  <2>1. b \in Jobs /\ b - 1 \in 0..Count - 1 BY <1>1, <1>2, <1>3 DEF Jobs
  <2>2. (b - 1) % Count = b - 1 BY <1>2, <2>1
  <2>3. InBucket(b, b) BY <2>2 DEF InBucket, Count
  <2>. QED BY <2>1, <2>3
<1>. QED BY <1>2, <1>4, <1>5, <1>6

\* A sequence is over what its elements are from.
LEMMA SeqOfElements ==
  ASSUME NEW Y, NEW t \in Seq(Y), NEW X, Elements(t) \subseteq X
  PROVE  t \in Seq(X)
BY DEF Elements

\* A bucket's jobs come in the order of the request.
LEMMA BucketJobsFacts ==
  ASSUME NEW b \in Buckets
  PROVE  /\ BucketJobs[b] \in Seq(Jobs)
         /\ Increasing(BucketJobs[b])
         /\ Elements(BucketJobs[b]) = {j \in Jobs : InBucket(j, b)}
         /\ Len(BucketJobs[b]) > 0
<1>. DEFINE s == [j \in Jobs |-> j]
            S == {j \in Jobs : InBucket(j, b)}
<1>1. JobCount \in Nat BY JobsAssumption
<1>2. s \in Seq(Nat) /\ Len(s) = JobCount BY <1>1 DEF Jobs
<1>3. Increasing(s) /\ Elements(s) = Jobs BY <1>1, <1>2 DEF Increasing, Elements, Jobs
<1>4. BucketJobs[b] = Filtered(s, S) BY DEF BucketJobs
<1>. HIDE DEF s
<1>5. /\ BucketJobs[b] \in Seq(Nat)
      /\ Increasing(BucketJobs[b])
      /\ Elements(BucketJobs[b]) = Elements(s) \cap S
  <2>. HIDE DEF S
  <2>. QED BY <1>2, <1>3, <1>4, FilteredFacts
<1>6. Elements(BucketJobs[b]) = S BY <1>3, <1>5
<1>7. BucketJobs[b] \in Seq(Jobs) BY <1>5, <1>6, SeqOfElements
<1>8. Len(BucketJobs[b]) > 0
  <2>1. S # {} BY Dealt
  <2>2. Len(BucketJobs[b]) \in Nat BY <1>5
  <2>. QED BY <1>6, <2>1, <2>2 DEF Elements
<1>. QED BY <1>5, <1>6, <1>7, <1>8

-----------------------------------------------------------------------------
(* What a bucket still owes.                                               *)

\* The jobs of b no entry has arrived for.
Missing(b) == {j \in Jobs : InBucket(j, b) /\ collected[b][j] = "none"}

\* A missing job stands behind a failure of its own bucket.
BehindFailure(b, j) == \E i \in 1..j - 1 : InBucket(i, b) /\ collected[b][i] = "fail"

\* The task on its way carries what is missing, in order; while every envelope
\* arrived whole, each round has taken at least one job off it.
Owes(b) ==
    /\ remaining[b] \in Seq(Jobs)
    /\ Increasing(remaining[b])
    /\ Elements(remaining[b]) = Missing(b)
    /\ Len(remaining[b]) > 0
    /\ rounds[b] < Len(BucketJobs[b])
    /\ losses = 0 => Len(remaining[b]) + rounds[b] <= Len(BucketJobs[b])
    /\ ~bailed[b]

\* What a bucket that is through has not brought.
Through(b) == IF bailed[b] THEN \A j \in Missing(b) : BehindFailure(b, j) ELSE Missing(b) = {}

BucketInv(b) ==
    /\ \A j \in Jobs : collected[b][j] # "none" => InBucket(j, b)
    /\ pc[b] \in {"submitting", "running"} => Owes(b)
    /\ pc[b] = "drained" /\ losses = 0 => Through(b)

\* A settled run is about the merged entries of buckets that are all through.
Settled == outcome \in {"bailed", "missing", "complete"} =>
             /\ \A b \in Buckets : pc[b] = "drained"
             /\ entryByKey = Merged
             /\ outcome = Verdict

DispatchInv == /\ DispatchTypeOK
               /\ rounds \in [Buckets -> Nat]
               /\ \A b \in Buckets : BucketInv(b)
               /\ Settled

\* What a returned task leaves to do: nothing that has arrived, less than before if
\* it was not damaged, nothing if it neither deferred nor bailed, and behind a bail
\* only jobs that a failure precedes.
Leaves(b, walk, damaged, held, outstanding) ==
    /\ held \in [Jobs -> Verdicts \cup {"none"}]
    /\ \A j \in Jobs : held[j] # "none" => InBucket(j, b)
    /\ outstanding \in Seq(Jobs)
    /\ Increasing(outstanding)
    /\ Elements(outstanding) = {j \in Jobs : InBucket(j, b) /\ held[j] = "none"}
    /\ ~damaged => Len(outstanding) < Len(remaining[b])
    /\ ~damaged /\ walk.stop = "none" => Elements(outstanding) = {}
    /\ ~damaged /\ walk.stop = "bailed" =>
         \A j \in Elements(outstanding) :
           \E i \in 1..j - 1 : InBucket(i, b) /\ held[i] = "fail"

\* That is what the walk, the entries that arrive and the filter come to.
LEMMA RoundLeaves ==
  ASSUME DispatchTypeOK, NEW b \in Buckets, BucketInv(b), Owes(b), NEW v \in Runs,
         NEW walk, walk = Envelope(remaining[b], v),
         NEW damaged \in BOOLEAN,
         NEW arrived,
         arrived = IF damaged THEN {} ELSE {remaining[b][i] : i \in 1..walk.kept},
         NEW held, held = Added(b, arrived, v),
         NEW outstanding, outstanding = Outstanding(b, held)
  PROVE  Leaves(b, walk, damaged, held, outstanding)
<1>. DEFINE s == remaining[b]
            n == Len(s)
            left == {j \in Jobs : held[j] = "none"}
<1>1. /\ s \in Seq(Jobs) /\ Increasing(s) /\ n \in Nat /\ n > 0
      /\ Elements(s) = {j \in Jobs : InBucket(j, b) /\ collected[b][j] = "none"}
  BY DEF Owes, Missing
<1>2. v \in [Jobs -> Verdicts] BY DEF Runs
<1>3. Walked(walk, n, s, v) BY <1>1, <1>2, EnvelopeFacts
<1>4. walk.kept \in 1..n BY <1>1, <1>3 DEF Walked, Walks
<1>5. /\ held = [j \in Jobs |-> IF collected[b][j] = "none" /\ j \in arrived
                                THEN v[j] ELSE collected[b][j]]
      /\ held \in [Jobs -> Verdicts \cup {"none"}]
  BY <1>2 DEF Added, DispatchTypeOK
<1>6. arrived \subseteq Elements(s) BY <1>1, <1>4 DEF Elements
<1>7. \A j \in Jobs : held[j] # "none" => InBucket(j, b) BY <1>1, <1>5, <1>6 DEF BucketInv
<1>8. s \in Seq(Nat)
  <2>1. Elements(s) \subseteq Nat BY <1>1 DEF Jobs
  <2>. HIDE DEF s
  <2>. QED BY <1>1, <2>1, SeqOfElements
<1>9. outstanding = Filtered(s, left) BY DEF Outstanding
<1>. HIDE DEF s
<1>10. /\ outstanding \in Seq(Nat) /\ Increasing(outstanding)
       /\ Elements(outstanding) = Elements(s) \cap left
       /\ \A i \in 1..n : s[i] \notin left => Len(outstanding) < n
  <2>. HIDE DEF left
  <2>. QED BY <1>1, <1>8, <1>9, FilteredFacts
<1>11. Elements(outstanding) = {j \in Jobs : InBucket(j, b) /\ held[j] = "none"}
  BY <1>1, <1>5, <1>10
<1>12. outstanding \in Seq(Jobs) BY <1>10, <1>11, SeqOfElements
<1>13. ASSUME ~damaged, NEW i \in 1..walk.kept
       PROVE  /\ i \in 1..n /\ s[i] \in Jobs /\ s[i] \in Elements(s)
              /\ held[s[i]] = v[s[i]] /\ s[i] \notin left
  <2>1. i \in 1..n /\ s[i] \in Jobs BY <1>1, <1>4
  <2>2. s[i] \in Elements(s) BY <2>1 DEF Elements
  <2>3. s[i] \in arrived BY <1>13 DEF s
  <2>4. held[s[i]] = v[s[i]] BY <1>1, <1>5, <2>1, <2>2, <2>3
  <2>5. v[s[i]] # "none" BY <1>2, <2>1 DEF Verdicts
  <2>. QED BY <2>1, <2>2, <2>4, <2>5
<1>14. ~damaged => Len(outstanding) < n
  <2>1. 1 \in 1..walk.kept BY <1>4
  <2>. QED BY <1>10, <1>13, <2>1
<1>15. ASSUME ~damaged, walk.stop = "none" PROVE Elements(outstanding) = {}
  <2>1. walk.kept = n BY <1>3, <1>15 DEF Walked
  <2>2. \A x \in Elements(s) : x \notin left BY <1>13, <1>15, <2>1 DEF Elements
  <2>. QED BY <1>10, <2>2
<1>16. ASSUME ~damaged, walk.stop = "bailed", NEW j \in Elements(outstanding)
       PROVE  \E i \in 1..j - 1 : InBucket(i, b) /\ held[i] = "fail"
  <2>. DEFINE k == walk.kept
              i == s[k]
  <2>0. k \in 1..walk.kept BY <1>4
  <2>1. k \in 1..n /\ i \in Jobs /\ i \in Elements(s) /\ held[i] = v[i]
    BY <1>13, <1>16, <2>0
  <2>2. v[i] = "fail" BY <1>3, <1>16 DEF Walked
  <2>3. j \in Elements(s) /\ j \in left BY <1>10
  <2>4. PICK m \in 1..n : j = s[m] BY <2>3 DEF Elements
  <2>5. m \notin 1..k BY <1>13, <1>16, <2>3, <2>4
  <2>6. i < j BY <1>1, <2>1, <2>4, <2>5 DEF Increasing
  <2>7. i \in 1..j - 1 BY <1>8, <2>1, <2>4, <2>6 DEF Jobs
  <2>8. InBucket(i, b) BY <1>1, <2>1
  <2>. QED BY <2>1, <2>2, <2>7, <2>8
<1>. QED BY <1>5, <1>7, <1>10, <1>11, <1>12, <1>14, <1>15, <1>16 DEF s, Leaves

\* At first every bucket owes all its jobs.
LEMMA DispatchInvInit == DispatchInit => DispatchInv
<1>. SUFFICES ASSUME DispatchInit PROVE DispatchInv OBVIOUS
<1>. USE DEF DispatchInit
<1>1. \A b \in Buckets : Len(BucketJobs[b]) \in Nat BY BucketJobsFacts
<1>2. BucketJobs \in [Buckets -> Seq(Jobs)]
  <2>1. \A b \in Buckets : BucketJobs[b] \in Seq(Jobs) BY BucketJobsFacts
  <2>. QED BY <2>1 DEF BucketJobs
<1>6. DispatchTypeOK BY <1>1, <1>2 DEF DispatchTypeOK, NoEntries
<1>3. rounds \in [Buckets -> Nat] OBVIOUS
<1>4. ASSUME NEW b \in Buckets PROVE BucketInv(b)
  <2>1. collected[b] = NoEntries /\ \A j \in Jobs : collected[b][j] = "none" BY DEF NoEntries
  <2>2. Missing(b) = {j \in Jobs : InBucket(j, b)} BY <2>1 DEF Missing
  <2>3. Owes(b)
    <3>1. remaining[b] = BucketJobs[b] /\ rounds[b] = 0 /\ ~bailed[b] OBVIOUS
    <3>. QED BY <1>1, <2>2, <3>1, BucketJobsFacts DEF Owes
  <2>. QED BY <2>1, <2>3 DEF BucketInv
<1>5. Settled BY DEF Settled
<1>. QED BY <1>3, <1>4, <1>5, <1>6 DEF DispatchInv

\* What a bucket owes depends on its own part of the state and on the losses.
LEMMA BucketFrame ==
  ASSUME NEW b \in Buckets, BucketInv(b), losses \in Nat, losses' \in Nat, losses' >= losses,
         pc[b]' = pc[b], remaining[b]' = remaining[b], rounds[b]' = rounds[b],
         collected[b]' = collected[b], bailed[b]' = bailed[b]
  PROVE  BucketInv(b)'
<1>1. Missing(b)' = Missing(b) BY DEF Missing
<1>2. \A j : BehindFailure(b, j) <=> BehindFailure(b, j)' BY DEF BehindFailure
<1>3. losses' = 0 => losses = 0 OBVIOUS
<1>4. Through(b) <=> Through(b)' BY <1>1, <1>2 DEF Through
<1>. QED BY <1>1, <1>3, <1>4 DEF BucketInv, Owes

\* A task that starts owes what its create owed; a rejected bucket owes nothing.
LEMMA AcceptKeeps ==
  ASSUME DispatchInv, NEW b \in Buckets, Accepted(b) \/ Rejects(b)
  PROVE  DispatchInv'
<1>. USE DEF DispatchInv
<1>1. /\ pc[b] \in {"submitting", "running"} 
      /\ pc' = [pc EXCEPT ![b] = IF Accepted(b) THEN "running" ELSE "rejected"]
      /\ Accepted(b) => pc[b] = "submitting"
      /\ UNCHANGED <<remaining, rounds, collected, bailed, resends, entryByKey, outcome, losses>>
  BY DEF Accepted, Rejects, bucketVars, runVars
<1>2. DispatchTypeOK' BY <1>1 DEF DispatchTypeOK
<1>3. ASSUME NEW c \in Buckets PROVE BucketInv(c)'
  <2>1. CASE c # b
    <3>1. losses \in Nat /\ pc[c]' = pc[c] BY <1>1, <2>1 DEF DispatchTypeOK
    <3>. QED BY <1>1, <3>1, BucketFrame
  <2>2. CASE c = b
    <3>1. pc'[b] \in {"running", "rejected"} BY <1>1 DEF DispatchTypeOK
    <3>2. Owes(b) /\ (Owes(b) <=> Owes(b)') BY <1>1 DEF BucketInv, Owes, Missing
    <3>. QED BY <1>1, <2>2, <3>1, <3>2 DEF BucketInv
  <2>. QED BY <2>1, <2>2
<1>4. Settled' BY <1>1 DEF Settled
<1>. QED BY <1>1, <1>2, <1>3, <1>4

\* One round: what has arrived is no longer owed, and the loop stops only when
\* nothing is, behind a bail, or when a result was damaged.
LEMMA ReturnKeeps ==
  ASSUME DispatchInv, NEW b \in Buckets, Returns(b)
  PROVE  DispatchInv'
<1>. USE DEF DispatchInv
<1>1. PICK v \in Runs, damaged \in BOOLEAN :
         LET walk == Envelope(remaining[b], v)
             arrived == IF damaged THEN {} ELSE {remaining[b][i] : i \in 1..walk.kept}
             held == Added(b, arrived, v)
             outstanding == Outstanding(b, held)
         IN /\ losses' = IF damaged THEN losses + 1 ELSE losses
            /\ losses' <= MaxLosses
            /\ collected' = [collected EXCEPT ![b] = held]
            /\ bailed' = [bailed EXCEPT ![b] = @ \/ walk.stop = "bailed"]
            /\ rounds' = [rounds EXCEPT ![b] = @ + 1]
            /\ IF StopsResending(b, walk.stop = "deferred", outstanding)
               THEN pc' = [pc EXCEPT ![b] = "drained"] /\ UNCHANGED remaining
               ELSE /\ pc' = [pc EXCEPT ![b] = "submitting"]
                    /\ remaining' = [remaining EXCEPT ![b] = outstanding]
  BY DEF Returns
<1>. DEFINE walk == Envelope(remaining[b], v)
            arrived == IF damaged THEN {} ELSE {remaining[b][i] : i \in 1..walk.kept}
            held == Added(b, arrived, v)
            outstanding == Outstanding(b, held)
            stops == StopsResending(b, walk.stop = "deferred", outstanding)
<1>2. /\ pc[b] = "running" /\ UNCHANGED <<resends, entryByKey, outcome>>
      /\ BucketInv(b) /\ Owes(b) /\ DispatchTypeOK
  BY DEF Returns, runVars, BucketInv
<1>3. Leaves(b, walk, damaged, held, outstanding)
  <2>1. /\ walk = Envelope(remaining[b], v)
        /\ arrived = IF damaged THEN {} ELSE {remaining[b][i] : i \in 1..walk.kept}
        /\ held = Added(b, arrived, v)
        /\ outstanding = Outstanding(b, held)
    OBVIOUS
  <2>. HIDE DEF walk, arrived, held, outstanding
  <2>. QED BY <1>2, <2>1, RoundLeaves
<1>4. /\ losses' = IF damaged THEN losses + 1 ELSE losses
      /\ collected' = [collected EXCEPT ![b] = held]
      /\ bailed' = [bailed EXCEPT ![b] = @ \/ walk.stop = "bailed"]
      /\ rounds' = [rounds EXCEPT ![b] = @ + 1]
      /\ stops => pc' = [pc EXCEPT ![b] = "drained"] /\ UNCHANGED remaining
      /\ ~stops => /\ pc' = [pc EXCEPT ![b] = "submitting"]
                   /\ remaining' = [remaining EXCEPT ![b] = outstanding]
  BY <1>1
<1>5. Len(outstanding) \in Nat
  <2>1. outstanding \in Seq(Jobs) BY <1>3 DEF Leaves
  <2>. QED BY <2>1
<1>6. walk.stop \in {"none", "bailed", "deferred"}
  <2>1. Walked(walk, Len(remaining[b]), remaining[b], v)
    BY <1>2, EnvelopeFacts DEF Owes, Runs
  <2>. QED BY <2>1 DEF Walked, Walks
<1>7. stops <=> \/ walk.stop # "deferred"
                \/ Len(outstanding) = 0 \/ Len(outstanding) = Len(remaining[b])
                \/ rounds[b] + 1 = Len(BucketJobs[b])
  BY DEF StopsResending
<1>. HIDE DEF walk, arrived, held, outstanding, stops
<1>8. /\ pc \in [Buckets -> {"submitting", "running", "drained", "rejected"}]
      /\ remaining \in [Buckets -> Seq(Jobs)] /\ rounds \in [Buckets -> Nat]
      /\ collected \in [Buckets -> [Jobs -> Verdicts \cup {"none"}]]
      /\ bailed \in [Buckets -> BOOLEAN] /\ losses \in Nat
      /\ \A c \in Buckets : rounds[c] \in 0..Len(BucketJobs[c])
  BY <1>2 DEF DispatchTypeOK
<1>9. Len(BucketJobs[b]) \in Nat /\ Len(remaining[b]) \in Nat
  BY <1>2, BucketJobsFacts DEF Owes
<1>10. /\ collected'[b] = held /\ rounds'[b] = rounds[b] + 1
       /\ bailed'[b] <=> walk.stop = "bailed"
       /\ pc'[b] = IF stops THEN "drained" ELSE "submitting"
       /\ ~stops => remaining'[b] = outstanding
  BY <1>2, <1>4, <1>8 DEF Owes
<1>11. Missing(b)' = Elements(outstanding) BY <1>3, <1>10 DEF Leaves, Missing
<1>12. DispatchTypeOK' /\ rounds' \in [Buckets -> Nat]
  <2>1. rounds' \in [Buckets -> Nat] BY <1>4, <1>8
  <2>2. \A c \in Buckets : rounds'[c] \in 0..Len(BucketJobs[c])
    BY <1>2, <1>4, <1>8, <1>9 DEF Owes
  <2>3. /\ pc' \in [Buckets -> {"submitting", "running", "drained", "rejected"}]
        /\ remaining' \in [Buckets -> Seq(Jobs)]
    BY <1>3, <1>4, <1>8 DEF Leaves
  <2>4. collected' \in [Buckets -> [Jobs -> Verdicts \cup {"none"}]]
    BY <1>3, <1>4, <1>8 DEF Leaves
  <2>5. bailed' \in [Buckets -> BOOLEAN] /\ losses' \in Nat BY <1>4, <1>8
  <2>. QED BY <1>2, <2>1, <2>2, <2>3, <2>4, <2>5 DEF DispatchTypeOK
<1>13. ASSUME ~stops PROVE Owes(b)'
  <2>1. walk.stop = "deferred" /\ Len(outstanding) > 0 /\ rounds[b] + 1 < Len(BucketJobs[b])
    BY <1>2, <1>5, <1>7, <1>8, <1>9, <1>13 DEF Owes
  <2>2. losses' = 0 => Len(outstanding) + rounds[b] + 1 <= Len(BucketJobs[b])
    BY <1>2, <1>3, <1>4, <1>5, <1>8, <1>9 DEF Leaves, Owes
  <2>. QED BY <1>3, <1>5, <1>8, <1>9, <1>10, <1>11, <1>13, <2>1, <2>2 DEF Leaves, Owes
<1>14. ASSUME stops, losses' = 0 PROVE Through(b)'
  <2>1. ~damaged /\ losses = 0 BY <1>4, <1>8, <1>14
  <2>2. CASE walk.stop = "bailed"
    <3>1. \A j \in Elements(outstanding) : BehindFailure(b, j)'
      BY <1>3, <1>10, <2>1, <2>2 DEF Leaves, BehindFailure
    <3>. QED BY <1>10, <1>11, <2>2, <3>1 DEF Through
  <2>3. CASE walk.stop = "none"
    BY <1>3, <1>10, <1>11, <2>1, <2>3 DEF Leaves, Through
  <2>4. CASE walk.stop = "deferred"
    <3>1. Len(outstanding) = 0
      BY <1>2, <1>3, <1>5, <1>7, <1>8, <1>9, <1>14, <2>1, <2>4 DEF Leaves, Owes
    <3>2. Elements(outstanding) = {} BY <3>1 DEF Elements
    <3>. QED BY <1>10, <1>11, <2>4, <3>2 DEF Through
  <2>. QED BY <1>6, <2>2, <2>3, <2>4
<1>15. BucketInv(b)' BY <1>3, <1>10, <1>13, <1>14 DEF Leaves, BucketInv
<1>16. ASSUME NEW c \in Buckets, c # b PROVE BucketInv(c)'
  <2>1. losses' \in Nat /\ losses' >= losses BY <1>4, <1>8
  <2>2. /\ pc[c]' = pc[c] /\ remaining[c]' = remaining[c] /\ rounds[c]' = rounds[c]
        /\ collected[c]' = collected[c] /\ bailed[c]' = bailed[c]
    BY <1>4, <1>8, <1>16
  <2>. QED BY <1>8, <2>1, <2>2, BucketFrame
<1>17. Settled' BY <1>2 DEF Settled
<1>. QED BY <1>12, <1>15, <1>16, <1>17

\* A bucket sent once is through with the entry of every job, or rejected.
LEMMA ReturnAllKeeps ==
  ASSUME DispatchInv, NEW b \in Buckets, ReturnsAll(b)
  PROVE  DispatchInv'
<1>. USE DEF DispatchInv
<1>1. PICK v \in Runs, damaged \in BOOLEAN :
         /\ losses' = IF damaged THEN losses + 1 ELSE losses
         /\ losses' <= MaxLosses
         /\ IF damaged
            THEN pc' = [pc EXCEPT ![b] = "rejected"] /\ UNCHANGED collected
            ELSE /\ pc' = [pc EXCEPT ![b] = "drained"]
                 /\ collected' = [collected EXCEPT
                                    ![b] = Added(b, {j \in Jobs : InBucket(j, b)}, v)]
  BY DEF ReturnsAll
<1>2. /\ pc[b] = "running" /\ rounds' = [rounds EXCEPT ![b] = @ + 1]
      /\ UNCHANGED <<remaining, bailed, resends, entryByKey, outcome>>
      /\ BucketInv(b) /\ Owes(b) /\ DispatchTypeOK
  BY DEF ReturnsAll, runVars, BucketInv
<1>. DEFINE held == Added(b, {j \in Jobs : InBucket(j, b)}, v)
<1>3. /\ pc \in [Buckets -> {"submitting", "running", "drained", "rejected"}]
      /\ rounds \in [Buckets -> Nat]
      /\ collected \in [Buckets -> [Jobs -> Verdicts \cup {"none"}]]
      /\ losses \in Nat /\ Len(BucketJobs[b]) \in Nat /\ losses' \in Nat /\ losses' >= losses
      /\ \A c \in Buckets : rounds[c] \in 0..Len(BucketJobs[c])
  BY <1>1, <1>2, BucketJobsFacts DEF DispatchTypeOK
<1>4. /\ held \in [Jobs -> Verdicts \cup {"none"}]
      /\ \A j \in Jobs : held[j] # "none" <=> InBucket(j, b)
  <2>1. \A j \in Jobs : v[j] \in Verdicts /\ v[j] # "none" BY DEF Runs, Verdicts
  <2>2. held = [j \in Jobs |-> IF collected[b][j] = "none" /\ InBucket(j, b)
                               THEN v[j] ELSE collected[b][j]]
    BY DEF Added
  <2>3. /\ collected[b] \in [Jobs -> Verdicts \cup {"none"}]
        /\ \A j \in Jobs : collected[b][j] # "none" => InBucket(j, b)
    BY <1>2, <1>3 DEF BucketInv
  <2>. HIDE DEF held
  <2>4. held \in [Jobs -> Verdicts \cup {"none"}] BY <2>1, <2>2, <2>3
  <2>5. ASSUME NEW j \in Jobs PROVE held[j] # "none" <=> InBucket(j, b)
    BY <2>1, <2>2, <2>3
  <2>. QED BY <2>4, <2>5
<1>. HIDE DEF held
<1>5. DispatchTypeOK' /\ rounds' \in [Buckets -> Nat]
  <2>1. \A c \in Buckets : rounds'[c] \in 0..Len(BucketJobs[c])
    BY <1>2, <1>3 DEF Owes
  <2>2. /\ pc' \in [Buckets -> {"submitting", "running", "drained", "rejected"}]
        /\ collected' \in [Buckets -> [Jobs -> Verdicts \cup {"none"}]]
    BY <1>1, <1>3, <1>4 DEF held
  <2>3. rounds' \in [Buckets -> Nat] BY <1>2, <1>3
  <2>. QED BY <1>2, <1>3, <2>1, <2>2, <2>3 DEF DispatchTypeOK
<1>6. BucketInv(b)'
  <2>1. CASE damaged
    <3>1. pc'[b] = "rejected" /\ UNCHANGED collected BY <1>1, <1>3, <2>1
    <3>. QED BY <1>2, <3>1 DEF BucketInv
  <2>2. CASE ~damaged
    <3>1. pc'[b] = "drained" /\ collected'[b] = held BY <1>1, <1>3, <2>2 DEF held
    <3>2. ~bailed'[b] BY <1>2 DEF Owes
    <3>3. Missing(b)' = {} BY <1>4, <3>1 DEF Missing
    <3>. QED BY <1>4, <3>1, <3>2, <3>3 DEF BucketInv, Through
  <2>. QED BY <2>1, <2>2
<1>7. ASSUME NEW c \in Buckets, c # b PROVE BucketInv(c)'
  <2>1. /\ pc[c]' = pc[c] /\ remaining[c]' = remaining[c] /\ rounds[c]' = rounds[c]
        /\ collected[c]' = collected[c] /\ bailed[c]' = bailed[c]
    BY <1>1, <1>2, <1>3, <1>7
  <2>. QED BY <1>3, <2>1, BucketFrame
<1>8. Settled' BY <1>2 DEF Settled
<1>. QED BY <1>5, <1>6, <1>7, <1>8

\* The run itself changes no bucket, and settles on the merged entries of all.
LEMMA RunKeeps ==
  ASSUME DispatchInv, RunFails \/ Merge \/ Collect \/ Over \/ UNCHANGED dispatchVars
  PROVE  DispatchInv'
<1>. USE DEF DispatchInv
<1>1. UNCHANGED <<resends, pc, remaining, rounds, collected, bailed, losses>>
  BY DEF RunFails, Merge, Collect, Over, dispatchVars, bucketVars
<1>2. ASSUME NEW b \in Buckets PROVE BucketInv(b)'
  <2>1. losses \in Nat BY DEF DispatchTypeOK
  <2>. QED BY <1>1, <2>1, BucketFrame
<1>3. Merged' = Merged BY <1>1 DEF Merged
<1>4. collected \in [Buckets -> [Jobs -> Verdicts \cup {"none"}]] BY DEF DispatchTypeOK
<1>5. entryByKey' \in [Jobs -> Verdicts \cup {"none"}]
  BY <1>4, MergedTyped DEF RunFails, Merge, Collect, Over, dispatchVars, DispatchTypeOK
<1>6. outcome' \in {"running", "failed", "bailed", "missing", "complete"}
  BY DEF RunFails, Merge, Collect, Over, dispatchVars, DispatchTypeOK, Verdict
<1>7. DispatchTypeOK' /\ rounds' \in [Buckets -> Nat]
  BY <1>1, <1>5, <1>6 DEF DispatchTypeOK
<1>8. Settled'
  <2>1. CASE RunFails BY <2>1 DEF RunFails, Settled
  <2>2. CASE Merge BY <2>2 DEF Merge, AllDrained, Settled
  <2>3. CASE Collect
    <3>1. /\ \A b \in Buckets : pc[b] = "drained"
          /\ entryByKey = Merged /\ outcome' = Verdict /\ UNCHANGED entryByKey
      BY <2>3 DEF Collect, AllDrained
    <3>2. Verdict' = Verdict BY <1>1, <3>1 DEF Verdict
    <3>. QED BY <1>1, <1>3, <3>1, <3>2 DEF Settled
  <2>4. CASE Over \/ UNCHANGED dispatchVars
    <3>1. UNCHANGED <<outcome, entryByKey>> BY <2>4 DEF Over, dispatchVars
    <3>2. Verdict' = Verdict BY <1>1, <3>1 DEF Verdict
    <3>. QED BY <1>1, <1>3, <3>1, <3>2 DEF Settled
  <2>. QED BY <2>1, <2>2, <2>3, <2>4
<1>. QED BY <1>2, <1>7, <1>8

\* Every step keeps what the buckets owe and what the run has settled on.
LEMMA DispatchInvStep == DispatchInv /\ [DispatchNext]_dispatchVars => DispatchInv'
BY AcceptKeeps, ReturnKeeps, ReturnAllKeeps, RunKeeps DEF DispatchNext, BucketStep

\* What the merged entries say of a job is what its own bucket brought.
LEMMA MergedFromBucket ==
  ASSUME DispatchInv, NEW b \in Buckets, NEW j \in Jobs, InBucket(j, b)
  PROVE  Merged[j] = collected[b][j]
<1>. DEFINE found == {c \in Buckets : collected[c][j] # "none"}
<1>1. Merged[j] = IF found = {} THEN "none" ELSE collected[CHOOSE c \in found : TRUE][j]
  BY DEF Merged
<1>2. \A c \in found : c = b BY Dealt DEF DispatchInv, BucketInv
<1>3. CASE found = {} BY <1>1, <1>3
<1>4. CASE found # {}
  <2>1. (CHOOSE c \in found : TRUE) \in found BY <1>4
  <2>2. (CHOOSE c \in found : TRUE) = b BY <1>2, <2>1
  <2>. QED BY <1>1, <1>4, <2>2
<1>. QED BY <1>3, <1>4

\* A job is missing only behind a damaged result, skipped only behind a failure.
LEMMA WhatIsReported == DispatchInv => RoundsSuffice /\ SkippedBehindFailure
<1>. SUFFICES ASSUME DispatchInv, losses = 0, outcome \in {"missing", "bailed"}
              PROVE  outcome = "bailed" /\
                     \A j \in Jobs : entryByKey[j] = "none" =>
                       \E i \in 1..j - 1, b \in Buckets :
                         InBucket(i, b) /\ InBucket(j, b) /\ entryByKey[i] = "fail"
  BY DEF RoundsSuffice, SkippedBehindFailure, DispatchInv, DispatchTypeOK
<1>1. /\ \A b \in Buckets : pc[b] = "drained" /\ Through(b)
      /\ entryByKey = Merged /\ outcome = Verdict
  BY DEF DispatchInv, Settled, BucketInv
<1>2. ASSUME NEW j \in Jobs, entryByKey[j] = "none"
      PROVE  \E b \in Buckets : InBucket(j, b) /\ bailed[b] /\ BehindFailure(b, j)
  <2>1. PICK b \in Buckets : InBucket(j, b) BY Dealt
  <2>2. collected[b][j] = "none" BY <1>1, <1>2, <2>1, MergedFromBucket
  <2>3. j \in Missing(b) BY <2>1, <2>2 DEF Missing
  <2>. QED BY <1>1, <2>1, <2>3 DEF Through
<1>3. outcome = "bailed" BY <1>1, <1>2 DEF Verdict
<1>4. ASSUME NEW j \in Jobs, entryByKey[j] = "none"
      PROVE  \E i \in 1..j - 1, b \in Buckets :
               InBucket(i, b) /\ InBucket(j, b) /\ entryByKey[i] = "fail"
  <2>1. PICK b \in Buckets : InBucket(j, b) /\ BehindFailure(b, j) BY <1>2, <1>4
  <2>2. PICK i \in 1..j - 1 : InBucket(i, b) /\ collected[b][i] = "fail"
    BY <2>1 DEF BehindFailure
  <2>3. i \in Jobs BY <2>2, JobsAssumption DEF Jobs
  <2>4. entryByKey[i] = "fail" BY <1>1, <2>2, <2>3, MergedFromBucket
  <2>. QED BY <2>1, <2>2, <2>4
<1>. QED BY <1>3, <1>4

-----------------------------------------------------------------------------
(* The composition.                                                        *)

\* A step of the composition goes on with the create, begins the next or leaves it.
LEMMA StepOfSubmission == [CloudNext]_cloudVars => [Next]_vars \/ Begin
BY DEF CloudNext, cloudVars, Submits, CreateAccepted, CreateFails, WatchedReturns, Elsewhere

\* The next create has its whole budget, whatever the last one used up.
LEMMA BeginInv == IInv /\ Begin => IInv'
<1>. SUFFICES ASSUME IInv, Begin PROVE IInv' OBVIOUS
<1>1. policy' \in Policies BY DEF Begin, IInv, Typed, TypeOK
<1>2. Typed' BY <1>1, Constants DEF Begin, Typed, TypeOK, Policies, Sleeping
<1>3. Pending' /\ Budgeted' => Bounded'
  BY Constants DEF Begin, Bounded, Window, Clock, Ahead, Paused, Lesser
<1>4. Pending' /\ ~Budgeted' => InTime' BY Constants DEF Begin, InTime
<1>5. ExpiresOnlyWhenSilent' BY DEF Begin, ExpiresOnlyWhenSilent
<1>. QED BY <1>2, <1>3, <1>4, <1>5 DEF IInv

\* Window holds of every create a bucket sends, one after another.
LEMMA CreatesInCloud == CloudSpec => []IInv
<1>1. CloudInit => IInv BY InitInv DEF CloudInit
<1>2. IInv /\ [CloudNext]_cloudVars => IInv' BY NextInv, BeginInv, StepOfSubmission
<1>. QED BY <1>1, <1>2, PTL DEF CloudSpec

\* However often a bucket is sent again, each of its creates has been silent for a whole
\* budget of its own before it is given up (a controller per create, ocale-runner.ts).
THEOREM EveryCreateKeepsToBudget == CloudSpec => []KeepsToBudget
<1>1. IInv => KeepsToBudget BY DEF IInv, Bounded, NeverOutstays, KeepsToBudget
<1>. QED BY <1>1, CreatesInCloud, PTL

\* And none of them loses granted time to evidence or is sent too late.
THEOREM EveryCreateKeepsTime == CloudSpec => CreatesKeepTime
<1>1. Begin => [seen \subseteq seen' /\ seen' # seen => deadline' >= deadline]_vars
  BY DEF Begin
<1>2. IInv /\ Begin => [sends' > sends => now <= (IF Budgeted THEN Maximum ELSE Deadline)]_vars
  BY DEF Begin, IInv, Typed, TypeOK
<1>3. IInv /\ [CloudNext]_cloudVars
      => [seen \subseteq seen' /\ seen' # seen => deadline' >= deadline]_vars
  BY <1>1, EvidenceStep, StepOfSubmission
<1>4. IInv /\ [CloudNext]_cloudVars
      => [sends' > sends => now <= (IF Budgeted THEN Maximum ELSE Deadline)]_vars
  BY <1>2, SendStep, StepOfSubmission
<1>. QED BY <1>3, <1>4, CreatesInCloud, PTL
     DEF CloudSpec, CreatesKeepTime, EvidenceNeverShortens, NoLateCreate

\* What the buckets owe, in the composition.
LEMMA OwedInCloud == CloudSpec => []DispatchInv
<1>1. CloudInit => DispatchInv BY DispatchInvInit DEF CloudInit
<1>2. DispatchInv /\ [CloudNext]_cloudVars => DispatchInv' BY DispatchInvStep, StepOfDispatch
<1>. QED BY <1>1, <1>2, PTL DEF CloudSpec

\* A full envelope leaves no job behind, whatever the sizes, the budget and the number
\* of buckets: a job is missing only behind a damaged result, and reported as skipped
\* only behind a reported failure of its own bucket (drainDeferralsAsync, runEmbedded).
THEOREM NoJobLeftBehind == CloudSpec => []CloudInv
<1>1. DispatchInv => DispatchTypeOK /\ RoundsSuffice /\ SkippedBehindFailure
  BY WhatIsReported DEF DispatchInv
<1>2. IInv => TypeOK BY DEF IInv, Typed
<1>. QED BY <1>1, <1>2, OwedInCloud, CreatesInCloud, PTL DEF CloudInv
================================================================================
