------------------------ MODULE WorkStealing_proofs ------------------------
(***************************************************************************)
(* Theorems about WorkStealing for every set of jobs, every envelope       *)
(* budget, every number of tasks and every number of faults.               *)
(***************************************************************************)
EXTENDS WorkStealing, FiniteSetTheorems, TLAPS

\* A task that works on an item works on a job of the run.
HeldOK == \A s \in Slots :
    pc[s] \in {"executing", "requeuing", "retiring"} \/ task[s].live => task[s].held \in Jobs

\* The type invariant is inductive together with HeldOK: what a task adds to its
\* budget is the size of the job it holds.
Typed == TypeOK /\ HeldOK

-----------------------------------------------------------------------------
(* Facts about the constants and the helpers.                              *)

LEMMA SlotsAreNumbered == Slots \subseteq Nat /\ SlotCount \in Nat /\ MaxLaunches \in Nat
  <1>1. Cardinality(Jobs) \in Nat
    BY FS_CardinalityType, JobsAssumption
  <1>2. TaskCount \in Nat
    BY <1>1, TaskCountAssumption
  <1> QED
    BY <1>1, <1>2 DEF Slots, SlotCount, MaxLaunches, MAX_TASKS_PER_PLACE

\* A slot whose task starts afresh is in a typed state, and holds nothing.
LEMMA FreshTaskTyped == FreshTask \in Task /\ FreshTask.live = FALSE
                        /\ (\A j \in Jobs : FreshTask.entries[j] = "none")
  BY DEF FreshTask, Task, REQUEUE_ATTEMPTS, Verdicts

LEMMA ContinueTyped ==
    ASSUME Typed, NEW s \in Slots, NEW p \in Nat, Continue(s, p)
    PROVE  /\ launched' \in Nat /\ pendingDeferrals' \in Nat
           /\ task' = [task EXCEPT ![s] = FreshTask]
           /\ task' \in [Slots -> Task]
           /\ pc' \in [Slots -> TaskSteps \cup WorkerSteps]
           /\ pc'[s] \in {"exited", "submitting"}
           /\ \A r \in Slots \ {s} : pc'[r] = pc[r]
  <1>1. task' = [task EXCEPT ![s] = FreshTask]
    BY DEF Continue
  <1>2. task' \in [Slots -> Task]
    BY <1>1, FreshTaskTyped DEF Typed, TypeOK
  <1>3. CASE PoolDone(launched, p)
    BY <1>1, <1>2, <1>3 DEF Continue, Typed, TypeOK, WorkerSteps
  <1>4. CASE ~PoolDone(launched, p)
    <2>1. pc' = [pc EXCEPT ![s] = "submitting"] /\ launched' = launched + 1
          /\ pendingDeferrals' = IF p > 0 THEN p - 1 ELSE p
      BY <1>4 DEF Continue
    <2> QED
      BY <1>1, <1>2, <2>1 DEF Typed, TypeOK, WorkerSteps
  <1> QED
    BY <1>3, <1>4

LEMMA FaultTyped ==
    ASSUME Typed, NEW k \in FaultKinds, Fault(k)
    PROVE  faults' \in [FaultKinds -> Nat] /\ faults'[k] > 0
           /\ \A i \in FaultKinds : faults[i] > 0 => faults'[i] > 0
  BY DEF Fault, Typed, TypeOK

\* Replacing the record of one slot by a typed one keeps the function typed.
LEMMA PutTask ==
    ASSUME Typed, NEW s \in Slots, NEW t \in Task
    PROVE  [task EXCEPT ![s] = t] \in [Slots -> Task]
  BY DEF Typed, TypeOK

-----------------------------------------------------------------------------
(* Type correctness.                                                       *)

LEMMA TypedInit == Init => Typed
  <1> SUFFICES ASSUME Init PROVE Typed
    OBVIOUS
  <1>1. launched \in Nat
    BY SlotsAreNumbered DEF Init
  <1>2. task \in [Slots -> Task]
    BY FreshTaskTyped DEF Init
  <1>3. TypeOK
    BY <1>1, <1>2 DEF Init, TypeOK, WorkerSteps, Verdicts
  <1>4. HeldOK
    BY FreshTaskTyped DEF Init, HeldOK
  <1> QED
    BY <1>3, <1>4 DEF Typed

LEMMA TypedNext == Typed /\ [Next]_vars => Typed'
  <1> SUFFICES ASSUME Typed, [Next]_vars PROVE Typed'
    OBVIOUS
  <1> USE DEF Typed, TypeOK
  <1>1. ASSUME NEW s \in Slots, SlotStep(s) PROVE Typed'
    <2>1. CASE Submitted(s)
      BY <2>1 DEF Submitted, HeldOK, poolVars, cliVars, queueVars, TaskSteps
    <2>2. CASE BackoffEnds(s)
      BY <2>2, ContinueTyped, FreshTaskTyped DEF BackoffEnds, HeldOK, cliVars, queueVars
    <2>3. CASE StopsOnBail(s)
      <3>1. task'[s] \in Task /\ task' = [task EXCEPT ![s] = task'[s]]
        BY <2>3 DEF StopsOnBail, Task
      <3>2. task' \in [Slots -> Task]
        BY <3>1
      <3> QED
        BY <2>3, <3>2 DEF StopsOnBail, HeldOK, poolVars, cliVars, queueVars, TaskSteps
    <2>4. CASE StopsOnBudget(s)
      <3>1. task'[s] \in Task /\ task' = [task EXCEPT ![s] = task'[s]]
        BY <2>4 DEF StopsOnBudget, Task
      <3>2. faults' \in [FaultKinds -> Nat]
        BY <2>4, FaultTyped DEF StopsOnBudget, SeesNoBail, NoFault, FaultKinds
      <3> QED
        BY <2>4, <3>1, <3>2 DEF StopsOnBudget, HeldOK, poolVars, cliVars, queueVars, TaskSteps
    <2>5. CASE GoesOn(s)
      <3>2. faults' \in [FaultKinds -> Nat]
        BY <2>5, FaultTyped DEF GoesOn, SeesNoBail, NoFault, FaultKinds
      <3> QED
        BY <2>5, <3>2 DEF GoesOn, HeldOK, poolVars, cliVars, queueVars, TaskSteps
    <2>6. CASE ReadsEmpty(s)
      BY <2>6 DEF ReadsEmpty, HeldOK, poolVars, cliVars, queueVars, TaskSteps
    <2>7. ASSUME NEW j \in Jobs, Read(s, j) PROVE Typed'
      <3>1. task'[s] \in Task /\ task' = [task EXCEPT ![s] = task'[s]] /\ task'[s].held = j
        BY <2>7 DEF Read, Task
      <3>2. visible' \in [Jobs -> Nat]
        BY <2>7 DEF Read
      <3> QED
        BY <2>7, <3>1, <3>2 DEF Read, HeldOK, poolVars, cliVars, TaskSteps
    <2>8. CASE Drop(s)
      <3>1. task'[s] \in Task /\ task' = [task EXCEPT ![s] = task'[s]] /\ task'[s].held = task[s].held
        BY <2>8 DEF Drop, Task
      <3> QED
        BY <2>8, <3>1 DEF Drop, HeldOK, poolVars, cliVars, queueVars, TaskSteps
    <2>9. ASSUME NEW v \in Verdicts, Commit(s, v) PROVE Typed'
      <3> DEFINE j == task[s].held
      <3>0. j \in Jobs /\ Size[j] \in Nat
        BY <2>9, SizeAssumption DEF Commit, HeldOK
      <3>1. task'[s] \in Task /\ task' = [task EXCEPT ![s] = task'[s]] /\ task'[s].held = j
        <4>1. task[s] \in Task
          OBVIOUS
        <4>2. task'[s] = [task[s] EXCEPT
                  !.entries[j] = IF @ = "none" THEN v ELSE @,
                  !.used = @ + Size[j],
                  !.largest = IF Size[j] > @ THEN Size[j] ELSE @,
                  !.tripped = @ \/ (BailEnabled /\ v = "fail")]
          BY <2>9 DEF Commit
        <4>3. task'[s].entries \in [Jobs -> Verdicts \cup {"none"}]
          <5>1. /\ task[s].entries \in [Jobs -> Verdicts \cup {"none"}]
                /\ task'[s].entries = [task[s].entries EXCEPT ![j] = IF @ = "none" THEN v ELSE @]
            BY <4>1, <4>2 DEF Task
          <5> QED
            BY <5>1
        <4>4. task'[s].used \in Nat /\ task'[s].largest \in Nat
          BY <4>1, <4>2, <3>0 DEF Task
        <4>5. task'[s].tripped \in BOOLEAN
          BY <4>1, <4>2, SwitchAssumption DEF Task
        <4>6. task'[s] \in Task /\ task'[s].held = j
          BY <4>1, <4>2, <4>3, <4>4, <4>5 DEF Task
        <4>7. task' = [task EXCEPT ![s] = task'[s]]
          BY <2>9 DEF Commit
        <4> QED
          BY <4>6, <4>7
      <3>2. faults' \in [FaultKinds -> Nat] /\ streamed' \in SUBSET Jobs /\ signal' \in BOOLEAN
        BY <2>9, <3>0, FaultTyped DEF Commit, Publish, NoFault, FaultKinds
      <3> QED
        BY <2>9, <3>0, <3>1, <3>2 DEF Commit, HeldOK, poolVars, cliVars, queueVars, TaskSteps
    <2>10. CASE RequeueLands(s)
      <3>1. visible' \in [Jobs -> Nat]
        BY <2>10 DEF RequeueLands, HeldOK
      <3> QED
        BY <2>10, <3>1 DEF RequeueLands, HeldOK, poolVars, cliVars, TaskSteps
    <2>11. CASE Retire(s)
      <3>1. task'[s] \in Task /\ task' = [task EXCEPT ![s] = task'[s]]
        BY <2>11 DEF Retire, Task
      <3>2. faults' \in [FaultKinds -> Nat] /\ hidden' \in [Jobs -> Nat]
        BY <2>11, FaultTyped DEF Retire, NoFault, Abandon, FaultKinds
      <3>3. pc' \in [Slots -> TaskSteps \cup WorkerSteps]
            /\ \A r \in Slots : pc'[r] # pc[r] => pc'[r] \in {"deciding", "returning"}
        BY <2>11 DEF Retire, TaskSteps
      <3> QED
        BY <2>11, <3>1, <3>2, <3>3 DEF Retire, HeldOK, poolVars, cliVars
    <2>12. CASE Return(s)
      <3>1. collected' \in [Jobs -> Verdicts \cup {"none"}] /\ bailed' \in BOOLEAN
        BY <2>12 DEF Return, Task
      <3> QED
        BY <2>12, <3>1, ContinueTyped, FreshTaskTyped DEF Return, HeldOK, queueVars
    <2> QED
      BY <1>1, <2>1, <2>2, <2>3, <2>4, <2>5, <2>6, <2>7, <2>8, <2>9, <2>10, <2>11, <2>12 DEF SlotStep
  <1>2. ASSUME NEW s \in Slots, SlotFault(s) PROVE Typed'
    <2>0. \A k \in FaultKinds : Fault(k) => faults' \in [FaultKinds -> Nat]
      BY FaultTyped
    <2>1. CASE SubmitRefused(s)
      BY <2>0, <2>1 DEF SubmitRefused, HeldOK, poolVars, cliVars, queueVars, WorkerSteps, FaultKinds
    <2>2. CASE SubmitFails(s)
      BY <2>0, <2>2, ContinueTyped, FreshTaskTyped DEF SubmitFails, HeldOK, queueVars, FaultKinds
    <2>3. CASE ReadFails(s)
      <3>1. visible' \in [Jobs -> Nat] /\ hidden' \in [Jobs -> Nat]
        BY <2>3 DEF ReadFails, queueVars
      <3> QED
        BY <2>0, <2>3, <3>1 DEF ReadFails, HeldOK, poolVars, cliVars, TaskSteps, FaultKinds
    <2>4. CASE RequeueRefused(s)
      <3>1. visible' \in [Jobs -> Nat] /\ hidden' \in [Jobs -> Nat]
        BY <2>4 DEF RequeueRefused, HeldOK, Abandon
      <3>2. CASE task[s].attempts + 1 < REQUEUE_ATTEMPTS
        <4>1. task'[s] \in Task /\ task' = [task EXCEPT ![s] = task'[s]] /\ task'[s].held = task[s].held
          <5>1. task[s] \in Task /\ task[s].attempts + 1 \in 0..REQUEUE_ATTEMPTS - 1
            BY <3>2 DEF Task, REQUEUE_ATTEMPTS
          <5>2. task' = [task EXCEPT ![s] = [task[s] EXCEPT !.attempts = @ + 1]]
            BY <2>4, <3>2 DEF RequeueRefused
          <5> QED
            BY <5>1, <5>2 DEF Task
        <4> QED
          BY <2>0, <2>4, <3>1, <3>2, <4>1 DEF RequeueRefused, HeldOK, poolVars, cliVars, FaultKinds
      <3>3. CASE ~(task[s].attempts + 1 < REQUEUE_ATTEMPTS)
        <4>1. task'[s] \in Task /\ task' = [task EXCEPT ![s] = task'[s]] /\ ~task'[s].live
          BY <2>4, <3>3 DEF RequeueRefused, Task
        <4> QED
          BY <2>0, <2>4, <3>1, <3>3, <4>1 DEF RequeueRefused, HeldOK, poolVars, cliVars, FaultKinds, TaskSteps
      <3> QED
        BY <3>2, <3>3
    <2>5. CASE WindowTooShort(s)
      <3>1. task'[s] \in Task /\ task' = [task EXCEPT ![s] = task'[s]] /\ task'[s].held = task[s].held
        BY <2>5 DEF WindowTooShort, Task
      <3>2. visible' \in [Jobs -> Nat]
        BY <2>5 DEF WindowTooShort, HeldOK
      <3> QED
        BY <2>0, <2>5, <3>1, <3>2 DEF WindowTooShort, HeldOK, poolVars, cliVars, FaultKinds
    <2>6. CASE Crash(s)
      <3>1. hidden' \in [Jobs -> Nat]
        BY <2>6 DEF Crash, Abandon, HeldOK
      <3> QED
        BY <2>0, <2>6, <3>1, ContinueTyped, FreshTaskTyped DEF Crash, HeldOK, FaultKinds
    <2> QED
      BY <1>2, <2>1, <2>2, <2>3, <2>4, <2>5, <2>6 DEF SlotFault
  <1>3. ASSUME NEW j \in Jobs, WindowEnds(j) PROVE Typed'
    BY <1>3 DEF WindowEnds, HeldOK, poolVars, cliVars
  <1>4. ASSUME NEW j \in Jobs, TtlEnds(j) PROVE Typed'
    BY <1>4, FaultTyped DEF TtlEnds, HeldOK, poolVars, cliVars, FaultKinds
  <1>5. CASE Settle
    BY <1>5 DEF Settle, HeldOK, poolVars, cliVars, queueVars
  <1>6. CASE UNCHANGED vars
    BY <1>6 DEF vars, HeldOK
  <1> QED
    BY <1>1, <1>2, <1>3, <1>4, <1>5, <1>6 DEF Next, Settled

\* Every variable keeps its type, whatever jobs, sizes and faults a run has: a
\* budget counter stays a natural number because a task only ever measures an
\* entry of a job it holds, and no launch claims a deferral that is not there.
THEOREM TypeCorrect == Spec => []TypeOK
  <1>1. Spec => []Typed
    BY TypedInit, TypedNext, PTL DEF Spec
  <1>2. Typed => TypeOK
    BY DEF Typed
  <1> QED
    BY <1>1, <1>2, PTL

-----------------------------------------------------------------------------
(* The stages of a task.                                                   *)

\* A slot with no task running keeps no task state, and a task has a reason to
\* stop only once it has left its loop.
StagesOK == \A s \in Slots :
    /\ pc[s] \in WorkerSteps => task[s] = FreshTask
    /\ pc[s] \in {"deciding", "reading", "executing"} => task[s].stop = "none"

Staged == Typed /\ StagesOK

\* What a step of one slot leaves alone.
LEMMA OneSlot ==
    ASSUME Typed, NEW s \in Slots, SlotStep(s) \/ SlotFault(s)
    PROVE  \A r \in Slots \ {s} : pc'[r] = pc[r] /\ task'[r] = task[r]
  <1> USE DEF Typed, TypeOK
  <1>1. \A p \in Nat : Continue(s, p) => \A r \in Slots \ {s} : pc'[r] = pc[r] /\ task'[r] = task[r]
    BY ContinueTyped
  <1>2. CASE SlotStep(s)
    <2>1. CASE Submitted(s) \/ BackoffEnds(s) \/ Return(s)
      BY <1>1, <2>1 DEF Submitted, BackoffEnds, Return
    <2>2. CASE StopsOnBail(s) \/ StopsOnBudget(s) \/ GoesOn(s) \/ ReadsEmpty(s)
      BY <2>2 DEF StopsOnBail, StopsOnBudget, GoesOn, ReadsEmpty
    <2>3. CASE Drop(s) \/ RequeueLands(s) \/ Retire(s) \/ \E j \in Jobs : Read(s, j)
      BY <2>3 DEF Drop, RequeueLands, Retire, Read
    <2>4. CASE \E v \in Verdicts : Commit(s, v)
      BY <2>4 DEF Commit
    <2> QED
      BY <1>2, <2>1, <2>2, <2>3, <2>4 DEF SlotStep
  <1>3. CASE SubmitFails(s) \/ Crash(s)
    BY <1>1, <1>3 DEF SubmitFails, Crash
  <1>4. CASE SubmitRefused(s) \/ ReadFails(s) \/ WindowTooShort(s)
    BY <1>4 DEF SubmitRefused, ReadFails, WindowTooShort
  <1>5. CASE RequeueRefused(s)
    <2>1. CASE task[s].attempts + 1 < REQUEUE_ATTEMPTS
      BY <1>5, <2>1 DEF RequeueRefused
    <2>2. CASE ~(task[s].attempts + 1 < REQUEUE_ATTEMPTS)
      BY <1>5, <2>2 DEF RequeueRefused
    <2> QED
      BY <2>1, <2>2
  <1> QED
    BY <1>2, <1>3, <1>4, <1>5 DEF SlotFault

LEMMA StagedInit == Init => Staged
  BY TypedInit DEF Init, Staged, StagesOK, FreshTask, WorkerSteps

LEMMA StagedNext == Staged /\ [Next]_vars => Staged'
  <1> SUFFICES ASSUME Staged, [Next]_vars PROVE StagesOK'
    BY TypedNext DEF Staged
  <1> USE DEF Staged, Typed, TypeOK
  <1>0. FreshTask.stop = "none"
    BY DEF FreshTask
  <1>1. ASSUME NEW s \in Slots, SlotStep(s) \/ SlotFault(s) PROVE StagesOK'
    <2>0. \A p \in Nat : Continue(s, p) => task'[s] = FreshTask /\ pc'[s] \in {"exited", "submitting"}
      BY ContinueTyped
    <2>1. CASE SlotStep(s)
      <3>1. /\ pc'[s] \in WorkerSteps => task'[s] = FreshTask
            /\ pc'[s] \in {"deciding", "reading", "executing"} => task'[s].stop = "none"
        <4>1. CASE Submitted(s) \/ BackoffEnds(s) \/ Return(s)
          BY <1>0, <2>0, <4>1 DEF StagesOK, Submitted, BackoffEnds, Return, WorkerSteps
        <4>2. CASE StopsOnBail(s) \/ StopsOnBudget(s) \/ GoesOn(s) \/ ReadsEmpty(s)
          BY <4>2 DEF StagesOK, StopsOnBail, StopsOnBudget, GoesOn, ReadsEmpty, WorkerSteps, Task
        <4>3. ASSUME NEW j \in Jobs, Read(s, j) PROVE /\ pc'[s] = "executing" /\ task'[s].stop = "none"
          BY <4>3 DEF StagesOK, Read, Task
        <4>4. CASE Drop(s) \/ RequeueLands(s) \/ Retire(s)
          BY <4>4 DEF StagesOK, Drop, RequeueLands, Retire, WorkerSteps, Task
        <4>5. ASSUME NEW v \in Verdicts, Commit(s, v) PROVE pc'[s] = "retiring"
          BY <4>5 DEF Commit
        <4> QED
          BY <2>1, <4>1, <4>2, <4>3, <4>4, <4>5 DEF SlotStep, WorkerSteps
      <3> QED
        BY <1>1, <3>1, OneSlot DEF StagesOK
    <2>2. CASE SlotFault(s)
      <3>1. /\ pc'[s] \in WorkerSteps => task'[s] = FreshTask
            /\ pc'[s] \in {"deciding", "reading", "executing"} => task'[s].stop = "none"
        BY <1>0, <2>0, <2>2 DEF StagesOK, SlotFault, SubmitRefused, SubmitFails, ReadFails,
            RequeueRefused, WindowTooShort, Crash, WorkerSteps, Task
      <3> QED
        BY <1>1, <3>1, OneSlot DEF StagesOK
    <2> QED
      BY <1>1, <2>1, <2>2
  <1>2. CASE (\E j \in Jobs : WindowEnds(j) \/ TtlEnds(j)) \/ Settle \/ UNCHANGED vars
    BY <1>2 DEF StagesOK, WindowEnds, TtlEnds, Settle, vars
  <1> QED
    BY <1>1, <1>2 DEF Next, Settled

-----------------------------------------------------------------------------
(* No job is lost in silence.                                              *)

\* Where JobsAccounted finds job j.
Accounted(j) == \/ visible[j] > 0 \/ hidden[j] > 0
                \/ \E s \in Slots : Answers(s, j) \/ task[s].entries[j] # "none"
                \/ collected[j] # "none"
                \/ Loud \/ Struck({"ttl"})

\* A rejection that is due stays due, and a TTL that has struck has struck.
LEMMA ExcusesStand ==
    ASSUME Typed, [Next]_vars
    PROVE  /\ Loud => Loud'
           /\ Struck({"ttl"}) => Struck({"ttl"})'
  <1> USE DEF Typed, TypeOK
  <1>1. Loud => Loud'
    <2>1. ASSUME NEW s \in Slots PROVE s # NoSlot
      BY SlotsAreNumbered DEF Slots, NoSlot
    <2>2. ASSUME NEW s \in Slots, SlotStep(s) PROVE UNCHANGED <<failure, malformed>>
      <3>1. CASE Submitted(s) \/ BackoffEnds(s) \/ Return(s)
        BY <3>1 DEF Submitted, BackoffEnds, Return, cliVars
      <3>2. CASE StopsOnBail(s) \/ StopsOnBudget(s) \/ GoesOn(s) \/ ReadsEmpty(s)
        BY <3>2 DEF StopsOnBail, StopsOnBudget, GoesOn, ReadsEmpty, cliVars
      <3>3. CASE Drop(s) \/ RequeueLands(s) \/ Retire(s) \/ \E j \in Jobs : Read(s, j)
        BY <3>3 DEF Drop, RequeueLands, Retire, Read, cliVars
      <3>4. CASE \E v \in Verdicts : Commit(s, v)
        BY <3>4 DEF Commit, cliVars
      <3> QED
        BY <2>2, <3>1, <3>2, <3>3, <3>4 DEF SlotStep
    <2>3. \A s \in Slots : SlotFault(s) => (Loud => Loud')
      BY <2>1 DEF SlotFault, SubmitRefused, SubmitFails, ReadFails, RequeueRefused,
         WindowTooShort, Crash, cliVars, Loud
    <2> QED
      BY <2>2, <2>3 DEF Loud, Next, WindowEnds, TtlEnds, Settle, Settled, cliVars, vars
  <1>2. \A k \in FaultKinds : Fault(k) \/ NoFault => (faults["ttl"] > 0 => faults'["ttl"] > 0)
    BY FaultTyped DEF NoFault, FaultKinds
  <1>3. faults["ttl"] > 0 => faults'["ttl"] > 0
    <2>1. ASSUME NEW s \in Slots, SlotStep(s) PROVE \E k \in FaultKinds : Fault(k) \/ NoFault
      <3>1. CASE Submitted(s) \/ BackoffEnds(s) \/ Return(s)
        BY <3>1 DEF Submitted, BackoffEnds, Return, NoFault, FaultKinds
      <3>2. CASE StopsOnBail(s) \/ ReadsEmpty(s)
        BY <3>2 DEF StopsOnBail, ReadsEmpty, NoFault, FaultKinds
      <3>3. CASE StopsOnBudget(s) \/ GoesOn(s)
        BY <3>3 DEF StopsOnBudget, GoesOn, SeesNoBail, FaultKinds
      <3>4. CASE Drop(s) \/ RequeueLands(s) \/ Retire(s) \/ \E j \in Jobs : Read(s, j)
        BY <3>4 DEF Drop, RequeueLands, Retire, Read, NoFault, FaultKinds
      <3>5. CASE \E v \in Verdicts : Commit(s, v)
        BY <3>5 DEF Commit, Publish, FaultKinds
      <3> QED
        BY <2>1, <3>1, <3>2, <3>3, <3>4, <3>5 DEF SlotStep
    <2>2. \A s \in Slots : SlotFault(s) => \E k \in FaultKinds : Fault(k)
      BY DEF SlotFault, SubmitRefused, SubmitFails, ReadFails, RequeueRefused,
         WindowTooShort, Crash, FaultKinds
    <2>3. \A j \in Jobs : TtlEnds(j) \/ WindowEnds(j) => \E k \in FaultKinds : Fault(k) \/ NoFault
      BY DEF TtlEnds, WindowEnds, NoFault, FaultKinds
    <2>4. Settle \/ UNCHANGED vars => faults' = faults
      BY DEF Settle, vars
    <2> QED
      BY <1>2, <2>1, <2>2, <2>3, <2>4 DEF Next, Settled
  <1> QED
    BY <1>1, <1>3 DEF Struck


\* A step of slot s keeps job i accounted for when the queue still has a copy it
\* had, and what s held or had reported of i is still somewhere.
LEMMA SlotKeepsAccount ==
    ASSUME Typed, [Next]_vars, NEW i \in Jobs, Accounted(i),
           NEW s \in Slots, SlotStep(s) \/ SlotFault(s),
           visible[i] > 0 => visible'[i] > 0 \/ hidden'[i] > 0 \/ Answers(s, i)',
           hidden[i] > 0 => hidden'[i] > 0,
           Answers(s, i) => \/ Answers(s, i)' \/ task'[s].entries[i] # "none"
                            \/ visible'[i] > 0 \/ hidden'[i] > 0 \/ Loud',
           task[s].entries[i] # "none" => \/ task'[s].entries[i] # "none"
                                          \/ collected'[i] # "none" \/ Loud',
           collected[i] # "none" => collected'[i] # "none"
    PROVE  Accounted(i)'
  <1>1. \A r \in Slots \ {s} : Answers(r, i) => Answers(r, i)'
    BY OneSlot DEF Answers
  <1>2. \A r \in Slots \ {s} : task[r].entries[i] # "none" => task'[r].entries[i] # "none"
    BY OneSlot
  <1> QED
    BY <1>1, <1>2, ExcusesStand DEF Accounted

LEMMA AccountedInit == Init => JobsAccounted
  BY DEF Init, JobsAccounted

LEMMA AccountedNext == Staged /\ JobsAccounted /\ [Next]_vars => JobsAccounted'
  <1> SUFFICES ASSUME Staged, JobsAccounted, [Next]_vars, NEW i \in Jobs
               PROVE  Accounted(i)'
    BY DEF JobsAccounted, Accounted
  <1> USE DEF Staged, Typed, TypeOK
  <1>0. Accounted(i) /\ FreshTask.entries[i] = "none" /\ FreshTask.live = FALSE
    BY FreshTaskTyped DEF JobsAccounted, Accounted
  <1>1. ASSUME NEW s \in Slots, SlotStep(s) PROVE Accounted(i)'
    <2>1. CASE Submitted(s) \/ BackoffEnds(s)
      <3>1. /\ task[s] = FreshTask /\ task'[s] = FreshTask
            /\ UNCHANGED <<visible, hidden, collected>>
        BY <2>1, ContinueTyped DEF Submitted, BackoffEnds, StagesOK, WorkerSteps, queueVars, cliVars
      <3> QED
        BY <1>0, <1>1, <3>1, SlotKeepsAccount DEF Answers
    <2>2. CASE StopsOnBail(s) \/ StopsOnBudget(s) \/ GoesOn(s) \/ ReadsEmpty(s)
      <3>1. /\ task'[s].entries = task[s].entries /\ pc[s] \notin {"executing", "requeuing"}
            /\ UNCHANGED <<visible, hidden, collected>>
        BY <2>2 DEF StopsOnBail, StopsOnBudget, GoesOn, ReadsEmpty, queueVars, cliVars, Task
      <3> QED
        BY <1>0, <1>1, <3>1, SlotKeepsAccount DEF Answers
    <2>3. ASSUME NEW j \in Jobs, Read(s, j) PROVE Accounted(i)'
      <3>1. /\ task'[s].entries = task[s].entries /\ pc[s] = "reading"
            /\ pc'[s] = "executing" /\ task'[s].held = j /\ task'[s].live
            /\ i # j => visible'[i] = visible[i]
            /\ UNCHANGED <<hidden, collected>>
        BY <2>3 DEF Read, cliVars, Task
      <3> QED
        BY <1>0, <1>1, <3>1, SlotKeepsAccount DEF Answers
    <2>4. CASE Drop(s)
      <3>1. /\ task'[s].entries = task[s].entries /\ task'[s].held = task[s].held
            /\ task'[s].live = task[s].live /\ pc'[s] = "requeuing"
            /\ UNCHANGED <<visible, hidden, collected>>
        BY <2>4 DEF Drop, queueVars, cliVars, Task
      <3> QED
        BY <1>0, <1>1, <3>1, SlotKeepsAccount DEF Answers
    <2>5. ASSUME NEW v \in Verdicts, Commit(s, v) PROVE Accounted(i)'
      <3>1. task[s].held \in Jobs
        BY <2>5 DEF Commit, HeldOK
      <3>2. /\ task[s].entries \in [Jobs -> Verdicts \cup {"none"}]
            /\ task'[s].entries = [task[s].entries EXCEPT ![task[s].held] = IF @ = "none" THEN v ELSE @]
            /\ UNCHANGED <<visible, hidden, collected>>
        BY <2>5 DEF Commit, queueVars, cliVars, Task
      <3>3. /\ task[s].entries[i] # "none" => task'[s].entries[i] # "none"
            /\ task[s].held = i => task'[s].entries[i] # "none"
        BY <3>1, <3>2 DEF Verdicts
      <3> QED
        BY <1>0, <1>1, <3>2, <3>3, SlotKeepsAccount DEF Answers
    <2>6. CASE RequeueLands(s)
      <3>1. task[s].held \in Jobs
        BY <2>6 DEF RequeueLands, HeldOK
      <3>2. /\ task' = task /\ UNCHANGED <<hidden, collected>>
            /\ visible[i] > 0 => visible'[i] > 0
            /\ task[s].held = i => visible'[i] > 0
        BY <2>6, <3>1 DEF RequeueLands, cliVars
      <3> QED
        BY <1>0, <1>1, <3>2, SlotKeepsAccount DEF Answers
    <2>7. CASE Retire(s)
      <3>1. /\ task'[s].entries = task[s].entries /\ pc[s] = "retiring"
            /\ UNCHANGED <<visible, collected>>
        BY <2>7 DEF Retire, cliVars, Task
      <3>2. hidden[i] > 0 => hidden'[i] > 0
        BY <2>7 DEF Retire, Abandon
      <3> QED
        BY <1>0, <1>1, <3>1, <3>2, SlotKeepsAccount DEF Answers
    <2>8. CASE Return(s)
      <3>1. /\ pc[s] = "returning" /\ UNCHANGED <<visible, hidden>>
            /\ collected'[i] = IF collected[i] = "none" THEN task[s].entries[i] ELSE collected[i]
        BY <2>8 DEF Return, queueVars
      <3> QED
        BY <1>0, <1>1, <3>1, SlotKeepsAccount DEF Answers
    <2> QED
      BY <1>1, <2>1, <2>2, <2>3, <2>4, <2>5, <2>6, <2>7, <2>8 DEF SlotStep
  <1>2. ASSUME NEW s \in Slots, SlotFault(s) PROVE Accounted(i)'
    <2>1. CASE SubmitRefused(s) \/ SubmitFails(s)
      <3>1. /\ task[s] = FreshTask /\ task'[s] = FreshTask
            /\ UNCHANGED <<visible, hidden, collected>>
        BY <2>1, ContinueTyped DEF SubmitRefused, SubmitFails, StagesOK, WorkerSteps, queueVars, cliVars
      <3> QED
        BY <1>0, <1>2, <3>1, SlotKeepsAccount DEF Answers
    <2>2. CASE ReadFails(s)
      <3>1. /\ pc[s] = "reading" /\ UNCHANGED <<task, collected>>
            /\ visible[i] > 0 => visible'[i] > 0 \/ hidden'[i] > 0
            /\ hidden[i] > 0 => hidden'[i] > 0
        BY <2>2 DEF ReadFails, queueVars, cliVars
      <3> QED
        BY <1>0, <1>2, <3>1, SlotKeepsAccount DEF Answers
    <2>3. CASE RequeueRefused(s)
      <3>1. /\ pc[s] = "requeuing" /\ task[s].held \in Jobs /\ UNCHANGED collected
            /\ visible[i] > 0 => visible'[i] > 0
        BY <2>3 DEF RequeueRefused, HeldOK, cliVars
      <3>2. CASE task[s].attempts + 1 < REQUEUE_ATTEMPTS
        <4>1. /\ task'[s].entries = task[s].entries /\ task'[s].held = task[s].held
              /\ task'[s].live = task[s].live /\ UNCHANGED <<pc, hidden>>
          BY <2>3, <3>2 DEF RequeueRefused, Task
        <4> QED
          BY <1>0, <1>2, <3>1, <4>1, SlotKeepsAccount DEF Answers
      <3>3. CASE ~(task[s].attempts + 1 < REQUEUE_ATTEMPTS)
        <4>1. task'[s].entries = task[s].entries
          BY <2>3, <3>3 DEF RequeueRefused, Task
        <4>2. /\ hidden[i] > 0 => hidden'[i] > 0
              /\ task[s].live /\ task[s].held = i => hidden'[i] > 0
          BY <2>3, <3>1, <3>3 DEF RequeueRefused, Abandon
        <4> QED
          BY <1>0, <1>2, <3>1, <4>1, <4>2, SlotKeepsAccount DEF Answers
      <3> QED
        BY <3>2, <3>3
    <2>4. CASE WindowTooShort(s)
      <3>1. /\ task[s].held \in Jobs /\ task'[s].entries = task[s].entries
            /\ UNCHANGED <<hidden, collected>>
        BY <2>4 DEF WindowTooShort, HeldOK, cliVars, Task
      <3>2. /\ visible[i] > 0 => visible'[i] > 0
            /\ task[s].held = i => visible'[i] > 0
        BY <2>4, <3>1 DEF WindowTooShort
      <3> QED
        BY <1>0, <1>2, <3>1, <3>2, SlotKeepsAccount DEF Answers
    <2>5. CASE Crash(s)
      <3>1. Loud'
        <4>1. s # NoSlot
          BY SlotsAreNumbered DEF Slots, NoSlot
        <4> QED
          BY <2>5, <4>1 DEF Crash, Loud
      <3> QED
        BY <3>1 DEF Accounted
    <2> QED
      BY <1>2, <2>1, <2>2, <2>3, <2>4, <2>5 DEF SlotFault
  <1>3. ASSUME NEW j \in Jobs, WindowEnds(j) PROVE Accounted(i)'
    <2>1. /\ UNCHANGED <<task, pc, collected, failure, malformed, faults>>
          /\ visible[i] > 0 => visible'[i] > 0
          /\ hidden[i] > 0 => hidden'[i] > 0 \/ visible'[i] > 0
      BY <1>3 DEF WindowEnds, cliVars
    <2> QED
      BY <1>0, <2>1 DEF Accounted, Answers, Loud, Struck
  <1>4. ASSUME NEW j \in Jobs, TtlEnds(j) PROVE Accounted(i)'
    BY <1>4, FaultTyped DEF TtlEnds, Accounted, Struck, FaultKinds
  <1>5. CASE Settle \/ UNCHANGED vars
    BY <1>0, <1>5 DEF Settle, vars, poolVars, cliVars, queueVars, Accounted, Answers, Loud, Struck
  <1> QED
    BY <1>1, <1>2, <1>3, <1>4, <1>5 DEF Next, Settled

\* No job is ever lost in silence, whatever the queue does: this is what putting
\* a dropped item back before retiring its read buys (runWorkStealing), together
\* with the failure the pool holds for a task that died.
THEOREM NoJobLost == Spec => []JobsAccounted
  <1>1. Init => Staged /\ JobsAccounted
    BY StagedInit, AccountedInit
  <1>2. Staged /\ JobsAccounted /\ [Next]_vars => (Staged /\ JobsAccounted)'
    BY StagedNext, AccountedNext
  <1> QED
    BY <1>1, <1>2, PTL DEF Spec

-----------------------------------------------------------------------------
(* The deferral chain.                                                     *)

LEMMA ContinueClaims ==
    ASSUME Typed, DeferralsClaimed, NEW s \in Slots, NEW p \in Nat,
           p = pendingDeferrals \/ p = pendingDeferrals + 1, Continue(s, p)
    PROVE  DeferralsClaimed'
  <1> USE DEF Typed, TypeOK, DeferralsClaimed
  <1>1. Cardinality(Jobs) \in Nat /\ TaskCount \in Nat /\ TaskCount <= MaxLaunches
    <2>1. Cardinality(Jobs) \in Nat
      BY FS_CardinalityType, JobsAssumption
    <2> QED
      BY <2>1, TaskCountAssumption DEF MaxLaunches
  <1>2. CASE PoolDone(launched, p)
    BY <1>1, <1>2, SlotsAreNumbered DEF Continue, PoolDone
  <1>3. CASE ~PoolDone(launched, p)
    <2>1. launched < MaxLaunches
      <3>1. CASE launched < TaskCount
        <4>1. TaskCount + Cardinality(Jobs) > launched
          BY <1>1, <3>1
        <4> QED
          BY <4>1 DEF MaxLaunches
      <3>2. CASE launched >= TaskCount
        BY <1>1, <1>3, <3>2, SlotsAreNumbered DEF PoolDone
      <3> QED
        BY <1>1, <3>1, <3>2
    <2>2. pendingDeferrals = 0 /\ p \in {0, 1}
      BY <2>1, SlotsAreNumbered
    <2> QED
      BY <1>3, <2>1, <2>2, SlotsAreNumbered DEF Continue
  <1> QED
    BY <1>2, <1>3

\* The launch budget holds, and a deferral is left without the replacement launch
\* it earned only when the budget is spent, whatever the number of tasks
\* deferring at once (runStealingTasksAsync).
THEOREM EveryDeferralClaimed == Spec => []DeferralsClaimed
  <1>1. Init => DeferralsClaimed
    <2>1. Cardinality(Jobs) \in Nat
      BY FS_CardinalityType, JobsAssumption
    <2> QED
      BY <2>1, TaskCountAssumption DEF Init, DeferralsClaimed, SlotCount, MaxLaunches, MAX_TASKS_PER_PLACE
  <1>2. Typed /\ DeferralsClaimed /\ [Next]_vars => DeferralsClaimed'
    <2> SUFFICES ASSUME Typed, DeferralsClaimed, [Next]_vars PROVE DeferralsClaimed'
      OBVIOUS
    <2>1. ASSUME UNCHANGED poolVars PROVE DeferralsClaimed'
      BY <2>1 DEF DeferralsClaimed, poolVars
    <2>2. ASSUME NEW s \in Slots, SlotStep(s) PROVE DeferralsClaimed'
      <3>0. pendingDeferrals \in Nat
        BY DEF Typed, TypeOK
      <3>1. CASE BackoffEnds(s) \/ Return(s)
        BY <3>0, <3>1, ContinueClaims DEF BackoffEnds, Return
      <3>2. CASE Submitted(s) \/ StopsOnBail(s) \/ StopsOnBudget(s) \/ GoesOn(s) \/ ReadsEmpty(s)
        BY <2>1, <3>2 DEF Submitted, StopsOnBail, StopsOnBudget, GoesOn, ReadsEmpty
      <3>3. CASE Drop(s) \/ RequeueLands(s) \/ Retire(s) \/ \E j \in Jobs : Read(s, j)
        BY <2>1, <3>3 DEF Drop, RequeueLands, Retire, Read
      <3>4. CASE \E v \in Verdicts : Commit(s, v)
        BY <2>1, <3>4 DEF Commit
      <3> QED
        BY <2>2, <3>1, <3>2, <3>3, <3>4 DEF SlotStep
    <2>3. ASSUME NEW s \in Slots, SlotFault(s) PROVE DeferralsClaimed'
      <3>0. pendingDeferrals \in Nat
        BY DEF Typed, TypeOK
      <3>1. CASE SubmitFails(s) \/ Crash(s)
        BY <3>0, <3>1, ContinueClaims DEF SubmitFails, Crash
      <3>2. CASE SubmitRefused(s) \/ ReadFails(s) \/ WindowTooShort(s)
        BY <2>1, <3>2 DEF SubmitRefused, ReadFails, WindowTooShort
      <3>3. CASE RequeueRefused(s)
        BY <2>1, <3>3 DEF RequeueRefused
      <3> QED
        BY <2>3, <3>1, <3>2, <3>3 DEF SlotFault
    <2>4. CASE (\E j \in Jobs : WindowEnds(j) \/ TtlEnds(j)) \/ Settle \/ UNCHANGED vars
      BY <2>1, <2>4 DEF WindowEnds, TtlEnds, Settle, vars, poolVars
    <2> QED
      BY <2>2, <2>3, <2>4 DEF Next, Settled
  <1> QED
    BY <1>1, <1>2, TypedInit, TypedNext, PTL DEF Spec

-----------------------------------------------------------------------------
(* The envelope.                                                           *)

\* The envelope of a task is sound: bytes if and only if entries, over the budget
\* with one entry only, and entries whenever the task has deferred.
Sound(t) == /\ t.used > 0 <=> \E j \in Jobs : t.entries[j] # "none"
            /\ t.used > Budget => \E j \in Jobs : /\ t.used = Size[j]
                                                  /\ \A i \in Jobs : t.entries[i] # "none" => i = j
            /\ t.stop = "deferred" => \E j \in Jobs : t.entries[j] # "none"

Enveloped == \A s \in Slots : Sound(task[s])

LEMMA FreshTaskSound == Sound(FreshTask)
  BY SizeAssumption DEF Sound, FreshTask

\* Only a commit, a new launch and a deferral touch what Sound speaks of.
LEMMA SoundKept ==
    ASSUME NEW t, NEW u, Sound(t), u.used = t.used, u.entries = t.entries,
           u.stop = "deferred" => t.stop = "deferred" \/ t.used > 0
    PROVE  Sound(u)
  BY DEF Sound

LEMMA CommitSound ==
    ASSUME Staged, Enveloped, NEW s \in Slots, NEW v \in Verdicts, Commit(s, v)
    PROVE  Sound(task'[s])
  <1> DEFINE j == task[s].held
             t == task[s]
             u == task'[s]
  <1>1. j \in Jobs /\ Size[j] \in Nat \ {0} /\ Budget \in Nat
    BY SizeAssumption DEF Commit, HeldOK, Staged, Typed
  <1>2. t \in Task /\ t.stop = "none" /\ Sound(t)
    BY DEF Staged, Typed, TypeOK, StagesOK, Commit, Enveloped
  <1>3. t.used \in Nat /\ t.entries \in [Jobs -> Verdicts \cup {"none"}]
    BY <1>2 DEF Task
  <1>4. /\ u.used = t.used + Size[j] /\ u.stop = "none"
        /\ u.entries = [t.entries EXCEPT ![j] = IF @ = "none" THEN v ELSE @]
    BY <1>2 DEF Commit, Staged, Typed, TypeOK, Task
  <1>5. u.entries[j] # "none" /\ \A i \in Jobs \ {j} : u.entries[i] = t.entries[i]
    BY <1>1, <1>3, <1>4 DEF Verdicts
  <1>6. t.used = 0 \/ t.used + Size[j] <= Budget
    BY DEF Commit, Fits
  \* An envelope that goes over the budget was empty.
  <1>7. u.used > Budget => u.used = Size[j] /\ \A i \in Jobs : u.entries[i] # "none" => i = j
    <2>1. u.used > Budget => t.used = 0
      BY <1>1, <1>3, <1>4, <1>6
    <2>2. t.used = 0 => \A i \in Jobs : t.entries[i] = "none"
      BY <1>2 DEF Sound
    <2> QED
      BY <1>1, <1>4, <1>5, <2>1, <2>2
  <1>8. u.used > 0
    BY <1>1, <1>3, <1>4
  <1>9. u.stop # "deferred"
    BY <1>4
  <1> QED
    BY <1>1, <1>5, <1>7, <1>8, <1>9 DEF Sound

LEMMA EnvelopedNext == Staged /\ Enveloped /\ [Next]_vars => Enveloped'
  <1> SUFFICES ASSUME Staged, Enveloped, [Next]_vars PROVE Enveloped'
    OBVIOUS
  <1>0. \A s \in Slots : task[s] \in Task /\ Sound(task[s])
    BY DEF Staged, Typed, TypeOK, Enveloped
  <1>1. ASSUME NEW s \in Slots, SlotStep(s) \/ SlotFault(s), Sound(task'[s]) PROVE Enveloped'
    BY <1>0, <1>1, OneSlot DEF Enveloped, Staged
  <1>2. ASSUME NEW s \in Slots, SlotStep(s) PROVE Sound(task'[s])
    <2>1. CASE Submitted(s) \/ BackoffEnds(s) \/ Return(s)
      <3>1. task'[s] = FreshTask
        BY <2>1, ContinueTyped DEF Submitted, BackoffEnds, Return, Staged, Typed, TypeOK, StagesOK, WorkerSteps
      <3> QED
        BY <3>1, FreshTaskSound
    <2>2. CASE StopsOnBail(s) \/ GoesOn(s) \/ ReadsEmpty(s)
      <3>1. /\ task'[s].used = task[s].used /\ task'[s].entries = task[s].entries
            /\ task'[s].stop = "deferred" => task[s].stop = "deferred"
        BY <1>0, <2>2 DEF StopsOnBail, GoesOn, ReadsEmpty, Staged, Typed, TypeOK, Task
      <3> QED
        BY <1>0, <3>1, SoundKept
    <2>3. CASE StopsOnBudget(s) \/ Drop(s)
      <3>1. task'[s].used = task[s].used /\ task'[s].entries = task[s].entries
        BY <1>0, <2>3 DEF StopsOnBudget, Drop, Staged, Typed, TypeOK, Task
      <3>2. task[s].used \in Nat
        BY <1>0 DEF Task
      <3>3. task[s].used > 0
        BY <2>3, <3>2 DEF StopsOnBudget, Drop, EnvelopeFull, Fits
      <3> QED
        BY <1>0, <3>1, <3>3, SoundKept
    <2>4. CASE RequeueLands(s) \/ Retire(s) \/ \E j \in Jobs : Read(s, j)
      <3>1. /\ task'[s].used = task[s].used /\ task'[s].entries = task[s].entries
            /\ task'[s].stop = task[s].stop
        <4>1. CASE RequeueLands(s)
          BY <4>1 DEF RequeueLands
        <4>2. CASE Retire(s)
          BY <1>0, <4>2 DEF Retire, Staged, Typed, TypeOK, Task
        <4>3. CASE \E j \in Jobs : Read(s, j)
          BY <1>0, <4>3 DEF Read, Staged, Typed, TypeOK, Task
        <4> QED
          BY <2>4, <4>1, <4>2, <4>3
      <3> QED
        BY <1>0, <3>1, SoundKept
    <2>5. CASE \E v \in Verdicts : Commit(s, v)
      BY <2>5, CommitSound
    <2> QED
      BY <1>2, <2>1, <2>2, <2>3, <2>4, <2>5 DEF SlotStep
  <1>3. ASSUME NEW s \in Slots, SlotFault(s) PROVE Sound(task'[s])
    <2>1. CASE SubmitRefused(s) \/ SubmitFails(s) \/ Crash(s)
      <3>1. task'[s] = FreshTask
        BY <2>1, ContinueTyped DEF SubmitRefused, SubmitFails, Crash, Staged, Typed, TypeOK, StagesOK, WorkerSteps
      <3> QED
        BY <3>1, FreshTaskSound
    <2>2. CASE ReadFails(s) \/ WindowTooShort(s) \/ RequeueRefused(s)
      <3>1. /\ task'[s].used = task[s].used /\ task'[s].entries = task[s].entries
            /\ task'[s].stop = task[s].stop
        <4>1. CASE ReadFails(s) \/ WindowTooShort(s)
          BY <1>0, <4>1 DEF ReadFails, WindowTooShort, Staged, Typed, TypeOK, Task
        <4>2. CASE RequeueRefused(s)
          BY <1>0, <4>2 DEF RequeueRefused, Staged, Typed, TypeOK, Task
        <4> QED
          BY <2>2, <4>1, <4>2
      <3> QED
        BY <1>0, <3>1, SoundKept
    <2> QED
      BY <1>3, <2>1, <2>2 DEF SlotFault
  <1>4. CASE (\E j \in Jobs : WindowEnds(j) \/ TtlEnds(j)) \/ Settle \/ UNCHANGED vars
    BY <1>4 DEF WindowEnds, TtlEnds, Settle, vars, Enveloped, Sound
  <1> QED
    BY <1>1, <1>2, <1>3, <1>4 DEF Next, Settled

\* The envelope cap and the progress of a deferral chain, for every size an entry
\* may have: what goes over the budget goes out alone, and a task that asks for a
\* successor has delivered something (ResultBudget.fits, commitEntry).
THEOREM EnvelopesBounded == Spec => [](EnvelopesFit /\ DeferralsMakeProgress)
  <1>1. Init => Staged /\ Enveloped
    BY StagedInit, FreshTaskSound DEF Init, Enveloped
  <1>2. Staged /\ Enveloped /\ [Next]_vars => (Staged /\ Enveloped)'
    BY StagedNext, EnvelopedNext
  <1>3. Enveloped => EnvelopesFit /\ DeferralsMakeProgress
    BY DEF Enveloped, Sound, EnvelopesFit, DeferralsMakeProgress
  <1> QED
    BY <1>1, <1>2, <1>3, PTL DEF Spec

-----------------------------------------------------------------------------
(* A bail outranks a deferral.                                             *)

\* A task that knows of a bail neither defers nor takes an item.
Obeys(t, p) == t.tripped => t.stop # "deferred" /\ p \notin {"reading", "executing", "requeuing"}

LEMMA ObeysNext ==
    ASSUME Staged, NEW s \in Slots, Obeys(task[s], pc[s]), SlotStep(s) \/ SlotFault(s)
    PROVE  Obeys(task'[s], pc'[s])
  <1> USE DEF Staged, Typed, TypeOK
  <1>0. task[s] \in Task
    OBVIOUS
  <1>1. \A p \in Nat : Continue(s, p) => task'[s].tripped = FALSE
    BY ContinueTyped DEF FreshTask
  <1>2. CASE Submitted(s)
    BY <1>2 DEF Submitted, StagesOK, WorkerSteps, FreshTask, Obeys
  <1>3. CASE BackoffEnds(s) \/ Return(s) \/ SubmitFails(s) \/ Crash(s)
    BY <1>1, <1>3 DEF BackoffEnds, Return, SubmitFails, Crash, Obeys
  <1>4. CASE StopsOnBail(s) \/ ReadsEmpty(s)
    BY <1>0, <1>4 DEF StopsOnBail, ReadsEmpty, Obeys, Task
  <1>5. CASE StopsOnBudget(s) \/ GoesOn(s)
    <2>1. ~task[s].tripped
      BY <1>5 DEF StopsOnBudget, GoesOn, SeesNoBail
    <2>2. task'[s].tripped = task[s].tripped
      BY <1>0, <1>5 DEF StopsOnBudget, GoesOn, Task
    <2> QED
      BY <2>1, <2>2 DEF Obeys
  <1>6. CASE Drop(s) \/ \E j \in Jobs : Read(s, j)
    <2>1. ~task[s].tripped
      <3>1. pc[s] \in {"executing", "reading"}
        BY <1>6 DEF Drop, Read
      <3> QED
        BY <3>1 DEF Obeys
    <2>2. task'[s].tripped = task[s].tripped
      <3>1. CASE Drop(s)
        BY <1>0, <3>1 DEF Drop, Task
      <3>2. CASE \E j \in Jobs : Read(s, j)
        BY <1>0, <3>2 DEF Read, Task
      <3> QED
        BY <1>6, <3>1, <3>2
    <2> QED
      BY <2>1, <2>2 DEF Obeys
  <1>7. ASSUME NEW v \in Verdicts, Commit(s, v) PROVE Obeys(task'[s], pc'[s])
    <2>1. pc'[s] = "retiring" /\ task[s].stop = "none"
      BY <1>7 DEF Commit, StagesOK
    <2>2. task'[s].stop = task[s].stop
      BY <1>0, <1>7 DEF Commit, Task
    <2> QED
      BY <2>1, <2>2 DEF Obeys
  <1>8. CASE RequeueLands(s) \/ Retire(s)
    BY <1>0, <1>8 DEF RequeueLands, Retire, Obeys, Task
  <1>9. CASE ReadFails(s) \/ WindowTooShort(s)
    BY <1>0, <1>9 DEF ReadFails, WindowTooShort, Obeys, Task
  <1>10. CASE RequeueRefused(s)
    BY <1>0, <1>10 DEF RequeueRefused, Obeys, Task
  <1>11. CASE SubmitRefused(s)
    BY <1>11 DEF SubmitRefused, StagesOK, WorkerSteps, FreshTask, Obeys
  <1> QED
    BY <1>2, <1>3, <1>4, <1>5, <1>6, <1>7, <1>8, <1>9, <1>10, <1>11 DEF SlotStep, SlotFault

\* Whatever the shared signal says and whichever of its calls raise, no task that
\* knows of a bail reads on or asks for a replacement (stopReason).
THEOREM BailFirst == Spec => []BailOutranksDeferral
  <1> DEFINE Obedient == \A s \in Slots : Obeys(task[s], pc[s])
  <1>1. Init => Obedient
    BY DEF Init, FreshTask, Obeys
  <1>2. Staged /\ Obedient /\ [Next]_vars => Obedient'
    <2> SUFFICES ASSUME Staged, Obedient, [Next]_vars PROVE Obedient'
      OBVIOUS
    <2>1. ASSUME NEW s \in Slots, SlotStep(s) \/ SlotFault(s) PROVE Obedient'
      <3>1. Obeys(task'[s], pc'[s])
        BY <2>1, ObeysNext
      <3>2. \A r \in Slots \ {s} : Obeys(task'[r], pc'[r])
        BY <2>1, OneSlot DEF Staged
      <3> QED
        BY <3>1, <3>2
    <2>2. CASE (\E j \in Jobs : WindowEnds(j) \/ TtlEnds(j)) \/ Settle \/ UNCHANGED vars
      BY <2>2 DEF WindowEnds, TtlEnds, Settle, vars, Obeys
    <2> QED
      BY <2>1, <2>2 DEF Next, Settled
  <1>3. Obedient => BailOutranksDeferral
    BY DEF Obeys, BailOutranksDeferral
  <1> QED
    BY <1>1, <1>2, <1>3, StagedInit, StagedNext, PTL DEF Spec

-----------------------------------------------------------------------------
(* WorkStealing implements BatchOutcome.                                   *)

\* Nothing runs once the dispatch has settled.
SettledOK == outcome # "running" => \A s \in Slots : pc[s] = "exited"

LEMMA StepsNeedARun ==
    ASSUME SettledOK, NEW s \in Slots, SlotStep(s) \/ SlotFault(s)
    PROVE  outcome = "running" /\ outcome' = "running"
  <1>1. pc[s] # "exited"
    <2>1. CASE SlotStep(s)
      BY <2>1 DEF SlotStep, Submitted, BackoffEnds, StopsOnBail, StopsOnBudget, GoesOn,
         ReadsEmpty, Read, Drop, Commit, RequeueLands, Retire, Return
    <2>2. CASE SlotFault(s)
      BY <2>2 DEF SlotFault, SubmitRefused, SubmitFails, ReadFails, RequeueRefused,
         WindowTooShort, Crash, TaskSteps
    <2> QED
      BY <2>1, <2>2
  <1>2. outcome' = outcome
    <2>1. CASE SlotStep(s)
      <3>1. CASE Submitted(s) \/ BackoffEnds(s) \/ Return(s)
        BY <3>1 DEF Submitted, BackoffEnds, Return
      <3>2. CASE StopsOnBail(s) \/ StopsOnBudget(s) \/ GoesOn(s) \/ ReadsEmpty(s)
        BY <3>2 DEF StopsOnBail, StopsOnBudget, GoesOn, ReadsEmpty
      <3>3. CASE Drop(s) \/ RequeueLands(s) \/ Retire(s) \/ \E j \in Jobs : Read(s, j)
        BY <3>3 DEF Drop, RequeueLands, Retire, Read
      <3>4. CASE \E v \in Verdicts : Commit(s, v)
        BY <3>4 DEF Commit
      <3> QED
        BY <2>1, <3>1, <3>2, <3>3, <3>4 DEF SlotStep
    <2>2. CASE SlotFault(s)
      BY <2>2 DEF SlotFault, SubmitRefused, SubmitFails, ReadFails, RequeueRefused,
         WindowTooShort, Crash
    <2> QED
      BY <2>1, <2>2
  <1> QED
    BY <1>1, <1>2 DEF SettledOK

\* What a step of a slot, other than a return, does to the collection: nothing.
LEMMA OnlyReturnCollects ==
    ASSUME NEW s \in Slots, SlotStep(s) \/ SlotFault(s), ~Return(s)
    PROVE  UNCHANGED collected
  <1>1. CASE SlotStep(s)
    <2>1. CASE Submitted(s) \/ BackoffEnds(s)
      BY <2>1 DEF Submitted, BackoffEnds, cliVars
    <2>2. CASE StopsOnBail(s) \/ StopsOnBudget(s) \/ GoesOn(s) \/ ReadsEmpty(s)
      BY <2>2 DEF StopsOnBail, StopsOnBudget, GoesOn, ReadsEmpty, cliVars
    <2>3. CASE Drop(s) \/ RequeueLands(s) \/ Retire(s) \/ \E j \in Jobs : Read(s, j)
      BY <2>3 DEF Drop, RequeueLands, Retire, Read, cliVars
    <2>4. CASE \E v \in Verdicts : Commit(s, v)
      BY <2>4 DEF Commit, cliVars
    <2> QED
      BY <1>1, <2>1, <2>2, <2>3, <2>4 DEF SlotStep
  <1>2. CASE SlotFault(s)
    BY <1>2 DEF SlotFault, SubmitRefused, SubmitFails, ReadFails, RequeueRefused,
       WindowTooShort, Crash, cliVars
  <1> QED
    BY <1>1, <1>2

LEMMA SettledNext == Typed /\ SettledOK /\ [Next]_vars => SettledOK'
  <1> SUFFICES ASSUME Typed, SettledOK, [Next]_vars PROVE SettledOK'
    OBVIOUS
  <1>1. ASSUME NEW s \in Slots, SlotStep(s) \/ SlotFault(s) PROVE SettledOK'
    BY <1>1, StepsNeedARun DEF SettledOK
  <1>2. CASE (\E j \in Jobs : WindowEnds(j) \/ TtlEnds(j)) \/ Settle \/ UNCHANGED vars
    BY <1>2 DEF WindowEnds, TtlEnds, Settle, vars, SettledOK
  <1> QED
    BY <1>1, <1>2 DEF Next, Settled

\* The dispatch keeps its promise to the caller: a verdict that has arrived stays,
\* and "complete" and "missing" mean what they say, whatever goes wrong below.
THEOREM DispatchKeepsPromise == Spec => KeepsPromise
  <1>1. Init => Promise!Init
    BY DEF Init, Promise!Init
  <1>2. Typed /\ SettledOK /\ [Next]_vars => [Promise!Next]_<<collected, outcome>>
    <2> SUFFICES ASSUME Typed, SettledOK, [Next]_vars PROVE Promise!Next \/ UNCHANGED <<collected, outcome>>
      OBVIOUS
    <2>1. ASSUME NEW s \in Slots, Return(s) PROVE Promise!Deliver
      <3>1. outcome = "running" /\ outcome' = "running"
        BY <2>1, StepsNeedARun DEF SlotStep
      <3>2. task[s].entries \in [Jobs -> Verdicts \cup {"none"}]
        BY DEF Typed, TypeOK, Task
      <3>3. collected' = [j \in Jobs |-> IF collected[j] = "none" THEN task[s].entries[j] ELSE collected[j]]
        BY <2>1 DEF Return
      <3> QED
        BY <3>1, <3>2, <3>3 DEF Promise!Deliver, Promise!Verdicts, Typed, TypeOK, Verdicts
    <2>2. ASSUME NEW s \in Slots, SlotStep(s) \/ SlotFault(s), ~Return(s) PROVE UNCHANGED <<collected, outcome>>
      BY <2>2, StepsNeedARun, OnlyReturnCollects
    <2>3. CASE Settle
      BY <2>3 DEF Settle, cliVars, Promise!Next, Promise!Settle, Promise!Outcomes
    <2>4. CASE (\E j \in Jobs : WindowEnds(j) \/ TtlEnds(j)) \/ UNCHANGED vars
      BY <2>4 DEF WindowEnds, TtlEnds, vars, cliVars
    <2> QED
      BY <2>1, <2>2, <2>3, <2>4 DEF Next, Settled, Promise!Next
  <1>3. Init => SettledOK
    BY DEF Init, SettledOK
  <1> QED
    BY <1>1, <1>2, <1>3, TypedInit, TypedNext, SettledNext, PTL DEF Spec, KeepsPromise, Promise!Spec

-----------------------------------------------------------------------------
\* The pool and the queue lose no job and leave no deferral unanswered, with every
\* variable of its type, for all jobs, tasks, sizes and faults (runStealingTasksAsync,
\* runWorkStealing).
THEOREM PoolIsSound == Spec => []PoolInv
  BY TypeCorrect, NoJobLost, EveryDeferralClaimed, PTL DEF PoolInv

\* Every envelope is within its budget or holds one entry, never empty when it defers,
\* and never a deferral behind a bail (ResultBudget.fits, commitEntry, stopReason).
THEOREM EnvelopesAreSound == Spec => []EnvelopesSound
  BY EnvelopesBounded, BailFirst, PTL DEF EnvelopesSound

-----------------------------------------------------------------------------
(* What stands once it has happened, and what a task has in its hands.      *)

\* A step strikes with one kind of fault or with none.
LEMMA OneFaultAStep ==
    ASSUME [Next]_vars
    PROVE  UNCHANGED faults \/ \E k \in FaultKinds : Fault(k)
  <1>1. ASSUME NEW s \in Slots, SlotStep(s) PROVE UNCHANGED faults \/ \E k \in FaultKinds : Fault(k)
    <2>1. CASE Submitted(s) \/ BackoffEnds(s) \/ Return(s)
      BY <2>1 DEF Submitted, BackoffEnds, Return
    <2>2. CASE StopsOnBail(s) \/ ReadsEmpty(s)
      BY <2>2 DEF StopsOnBail, ReadsEmpty
    <2>3. CASE StopsOnBudget(s) \/ GoesOn(s)
      BY <2>3 DEF StopsOnBudget, GoesOn, SeesNoBail, NoFault, FaultKinds
    <2>4. CASE Drop(s) \/ RequeueLands(s) \/ \E j \in Jobs : Read(s, j)
      BY <2>4 DEF Drop, RequeueLands, Read
    <2>5. CASE Retire(s)
      BY <2>5 DEF Retire, NoFault, FaultKinds
    <2>6. CASE \E v \in Verdicts : Commit(s, v)
      BY <2>6 DEF Commit, Publish, NoFault, FaultKinds
    <2> QED
      BY <1>1, <2>1, <2>2, <2>3, <2>4, <2>5, <2>6 DEF SlotStep
  <1>2. \A s \in Slots : SlotFault(s) => \E k \in FaultKinds : Fault(k)
    BY DEF SlotFault, SubmitRefused, SubmitFails, ReadFails, RequeueRefused,
       WindowTooShort, Crash, FaultKinds
  <1>3. \A j \in Jobs : TtlEnds(j) \/ WindowEnds(j) => UNCHANGED faults \/ \E k \in FaultKinds : Fault(k)
    BY DEF TtlEnds, WindowEnds, FaultKinds
  <1>4. Settle \/ UNCHANGED vars => UNCHANGED faults
    BY DEF Settle, vars
  <1> QED
    BY <1>1, <1>2, <1>3, <1>4 DEF Next, Settled

\* What has struck has struck.
LEMMA FaultsStand ==
    ASSUME Typed, [Next]_vars, NEW kinds \in SUBSET FaultKinds, Struck(kinds)
    PROVE  Struck(kinds)'
  <1>1. PICK k \in kinds : faults[k] > 0
    BY DEF Struck
  <1>2. \A f \in FaultKinds : Fault(f) => faults'[k] > 0
    BY <1>1, FaultTyped
  <1>3. faults'[k] > 0
    BY <1>1, <1>2, OneFaultAStep
  <1> QED
    BY <1>3 DEF Struck

\* A fault that strikes is one of the kinds that have struck.
LEMMA FaultStrikes ==
    ASSUME Typed, NEW kinds \in SUBSET FaultKinds, NEW k \in kinds, Fault(k)
    PROVE  Struck(kinds)'
  BY FaultTyped DEF Struck

\* A task works on an item exactly while it holds one, and goes on holding it unless
\* a window was too short.  It retires a read only when it has something to report.
HandOK(s) ==
    /\ task[s].live => pc[s] \in {"executing", "requeuing", "retiring"}
    /\ pc[s] \in {"executing", "requeuing", "retiring"} => task[s].live \/ Struck({"window"})
    /\ pc[s] \in {"requeuing", "retiring"} => \E j \in Jobs : task[s].entries[j] # "none"
    /\ pc[s] = "requeuing" => task[s].stop = "deferred"

InHand == \A s \in Slots : HandOK(s)

LEMMA InHandInit == Init => InHand
  BY FreshTaskTyped DEF Init, InHand, HandOK

LEMMA InHandNext == Staged /\ Enveloped /\ InHand /\ [Next]_vars => InHand'
  <1> SUFFICES ASSUME Staged, Enveloped, InHand, [Next]_vars PROVE InHand'
    OBVIOUS
  <1> USE DEF Staged, Typed, TypeOK
  <1>0. Enveloped'
    BY EnvelopedNext
  <1>a. Struck({"window"}) => Struck({"window"})'
    BY FaultsStand DEF FaultKinds
  <1>b. \A s \in Slots : task[s] \in Task /\ HandOK(s)
    BY DEF InHand
  <1>c. FreshTask.live = FALSE
    BY FreshTaskTyped
  <1>1. ASSUME NEW s \in Slots, SlotStep(s) \/ SlotFault(s), HandOK(s)' PROVE InHand'
    <2>1. \A r \in Slots \ {s} : HandOK(r)'
      BY <1>1, <1>a, OneSlot DEF InHand, HandOK
    <2> QED
      BY <1>1, <2>1 DEF InHand
  <1>2. ASSUME NEW s \in Slots, SlotStep(s) PROVE HandOK(s)'
    <2>1. CASE Submitted(s) \/ BackoffEnds(s) \/ Return(s)
      <3>1. task'[s] = FreshTask /\ pc'[s] \in {"deciding", "exited", "submitting"}
        BY <2>1, ContinueTyped DEF Submitted, BackoffEnds, Return, StagesOK, WorkerSteps
      <3> QED
        BY <1>c, <3>1 DEF HandOK
    <2>2. CASE StopsOnBail(s) \/ StopsOnBudget(s) \/ GoesOn(s) \/ ReadsEmpty(s)
      <3>1. /\ task'[s].live = task[s].live /\ pc[s] \in {"deciding", "reading"}
            /\ pc'[s] \in {"returning", "reading"}
        BY <1>b, <2>2 DEF StopsOnBail, StopsOnBudget, GoesOn, ReadsEmpty, Task
      <3> QED
        BY <1>b, <3>1 DEF HandOK
    <2>3. ASSUME NEW j \in Jobs, Read(s, j) PROVE HandOK(s)'
      <3>1. task'[s].live /\ pc'[s] = "executing"
        BY <1>b, <2>3 DEF Read, Task
      <3> QED
        BY <3>1 DEF HandOK
    <2>4. CASE Drop(s)
      <3>1. /\ pc[s] = "executing" /\ pc'[s] = "requeuing"
            /\ task'[s].live = task[s].live /\ task'[s].stop = "deferred"
        BY <1>b, <2>4 DEF Drop, Task
      <3>2. \E j \in Jobs : task'[s].entries[j] # "none"
        BY <1>0, <3>1 DEF Enveloped, Sound
      <3> QED
        BY <1>a, <1>b, <3>1, <3>2 DEF HandOK
    <2>5. ASSUME NEW v \in Verdicts, Commit(s, v) PROVE HandOK(s)'
      <3>1. task[s].held \in Jobs
        BY <2>5 DEF Commit, HeldOK
      <3>2. /\ task[s].entries \in [Jobs -> Verdicts \cup {"none"}]
            /\ task'[s].entries = [task[s].entries EXCEPT ![task[s].held] = IF @ = "none" THEN v ELSE @]
            /\ task'[s].live = task[s].live /\ pc[s] = "executing" /\ pc'[s] = "retiring"
        BY <2>5 DEF Commit, Task
      <3>3. task'[s].entries[task[s].held] # "none"
        BY <3>1, <3>2 DEF Verdicts
      <3> QED
        BY <1>a, <1>b, <3>1, <3>2, <3>3 DEF HandOK
    <2>6. CASE RequeueLands(s)
      <3>1. task'[s] = task[s] /\ pc[s] = "requeuing" /\ pc'[s] = "retiring"
        BY <2>6 DEF RequeueLands
      <3> QED
        BY <1>a, <1>b, <3>1 DEF HandOK
    <2>7. CASE Retire(s)
      <3>1. ~task'[s].live /\ pc'[s] \in {"deciding", "returning"}
        BY <1>b, <2>7 DEF Retire, Task
      <3> QED
        BY <3>1 DEF HandOK
    <2> QED
      BY <1>2, <2>1, <2>2, <2>3, <2>4, <2>5, <2>6, <2>7 DEF SlotStep
  <1>3. ASSUME NEW s \in Slots, SlotFault(s) PROVE HandOK(s)'
    <2>1. CASE SubmitRefused(s) \/ SubmitFails(s) \/ Crash(s)
      <3>1. task'[s] = FreshTask /\ pc'[s] \in {"backoff", "exited", "submitting"}
        BY <2>1, ContinueTyped DEF SubmitRefused, SubmitFails, Crash, StagesOK, WorkerSteps
      <3> QED
        BY <1>c, <3>1 DEF HandOK
    <2>2. CASE ReadFails(s)
      <3>1. task'[s] = task[s] /\ pc[s] = "reading" /\ pc'[s] = "returning"
        BY <2>2 DEF ReadFails
      <3> QED
        BY <1>b, <3>1 DEF HandOK
    <2>3. CASE RequeueRefused(s)
      <3>1. CASE task[s].attempts + 1 < REQUEUE_ATTEMPTS
        <4>1. /\ task'[s].live = task[s].live /\ task'[s].entries = task[s].entries
              /\ task'[s].stop = task[s].stop /\ UNCHANGED pc
          BY <1>b, <2>3, <3>1 DEF RequeueRefused, Task
        <4> QED
          BY <1>a, <1>b, <4>1 DEF HandOK
      <3>2. CASE ~(task[s].attempts + 1 < REQUEUE_ATTEMPTS)
        <4>1. ~task'[s].live /\ pc'[s] = "returning"
          BY <1>b, <2>3, <3>2 DEF RequeueRefused, Task
        <4> QED
          BY <4>1 DEF HandOK
      <3> QED
        BY <3>1, <3>2
    <2>4. CASE WindowTooShort(s)
      <3>1. /\ ~task'[s].live /\ task'[s].entries = task[s].entries
            /\ task'[s].stop = task[s].stop /\ pc'[s] = pc[s]
        BY <1>b, <2>4 DEF WindowTooShort, Task
      <3>2. Struck({"window"})'
        BY <2>4, FaultStrikes DEF WindowTooShort, FaultKinds
      <3> QED
        BY <1>b, <3>1, <3>2 DEF HandOK
    <2> QED
      BY <1>3, <2>1, <2>2, <2>3, <2>4 DEF SlotFault
  <1>4. CASE (\E j \in Jobs : WindowEnds(j) \/ TtlEnds(j)) \/ Settle \/ UNCHANGED vars
    <2>1. UNCHANGED <<pc, task>>
      BY <1>4 DEF WindowEnds, TtlEnds, Settle, vars
    <2> QED
      BY <1>a, <2>1 DEF InHand, HandOK
  <1> QED
    BY <1>1, <1>2, <1>3, <1>4 DEF Next, Settled

-----------------------------------------------------------------------------
(* Every job is in one place at a time.                                    *)

\* The faults that make duplicates.
Copying == {"crash", "retire", "requeue", "window"}

\* Task s has j to report, or to report or give back.
Has(s, j) == task[s].entries[j] # "none" \/ Answers(s, j)

\* Where job j is: in the queue once, or with one task, or collected.
InOnePlace(j) ==
    /\ visible[j] + hidden[j] <= 1
    /\ visible[j] + hidden[j] = 1 => collected[j] = "none"
    /\ \A s \in Slots : Has(s, j) => /\ visible[j] + hidden[j] = 0
                                     /\ collected[j] = "none"
                                     /\ \A r \in Slots : Has(r, j) => r = s
    /\ \A s \in Slots : Answers(s, j) => task[s].entries[j] = "none"

Apart == Struck(Copying) \/ \A j \in Jobs : InOnePlace(j)

\* A step of one slot that brings no copy of j into its hands and none into the queue.
LEMMA SlotKeepsPlace ==
    ASSUME Typed, NEW j \in Jobs, InOnePlace(j),
           NEW s \in Slots, SlotStep(s) \/ SlotFault(s),
           UNCHANGED collected, visible'[j] + hidden'[j] = visible[j] + hidden[j],
           Has(s, j)' => Has(s, j),
           Answers(s, j)' => task'[s].entries[j] = "none"
    PROVE  InOnePlace(j)'
  <1>1. \A r \in Slots \ {s} : /\ Has(r, j)' <=> Has(r, j)
                               /\ Answers(r, j)' <=> Answers(r, j)
                               /\ task'[r] = task[r]
    BY OneSlot DEF Has, Answers
  <1>2. \A r \in Slots : Has(r, j)' => Has(r, j)
    BY <1>1
  <1> QED
    BY <1>1, <1>2 DEF InOnePlace

LEMMA ApartNext == Staged /\ InHand /\ Apart /\ [Next]_vars => Apart'
  <1> SUFFICES ASSUME Staged, InHand, Apart, [Next]_vars, ~Struck(Copying)', NEW j \in Jobs
               PROVE  InOnePlace(j)'
    BY DEF Apart
  <1> USE DEF Staged, Typed, TypeOK
  <1>a. ~Struck(Copying) /\ InOnePlace(j)
    BY FaultsStand DEF Copying, FaultKinds, Apart
  <1>b. \A k \in Copying : ~Fault(k)
    BY FaultStrikes DEF Copying, FaultKinds
  <1>c. \A s \in Slots : /\ task[s] \in Task
                         /\ pc[s] \in {"executing", "requeuing", "retiring"} => task[s].live
    BY <1>a DEF InHand, HandOK, Struck, Copying
  <1>d. FreshTask.live = FALSE /\ FreshTask.entries[j] = "none"
    BY FreshTaskTyped
  <1>1. ASSUME NEW s \in Slots, SlotStep(s) PROVE InOnePlace(j)'
    <2>1. CASE Submitted(s) \/ BackoffEnds(s)
      <3>1. task'[s] = FreshTask /\ UNCHANGED <<visible, hidden, collected>>
        BY <2>1, ContinueTyped DEF Submitted, BackoffEnds, StagesOK, WorkerSteps, queueVars, cliVars
      <3> QED
        BY <1>a, <1>d, <1>1, <3>1, SlotKeepsPlace DEF Has, Answers
    <2>2. CASE StopsOnBail(s) \/ StopsOnBudget(s) \/ GoesOn(s) \/ ReadsEmpty(s)
      <3>1. /\ task'[s].entries = task[s].entries /\ pc'[s] \in {"returning", "reading"}
            /\ UNCHANGED <<visible, hidden, collected>>
        BY <1>c, <2>2 DEF StopsOnBail, StopsOnBudget, GoesOn, ReadsEmpty, queueVars, cliVars, Task
      <3> QED
        BY <1>a, <1>1, <3>1, SlotKeepsPlace DEF Has, Answers
    <2>3. ASSUME NEW i \in Jobs, Read(s, i) PROVE InOnePlace(j)'
      <3>1. /\ task'[s].entries = task[s].entries /\ task'[s].held = i
            /\ pc[s] = "reading" /\ UNCHANGED <<hidden, collected>>
            /\ visible[i] > 0 /\ visible' = [visible EXCEPT ![i] = @ - 1]
        BY <1>c, <2>3 DEF Read, cliVars, Task
      <3>2. CASE i # j
        <4>1. visible'[j] = visible[j]
          BY <3>1, <3>2
        <4> QED
          BY <1>a, <1>1, <3>1, <3>2, <4>1, SlotKeepsPlace DEF Has, Answers
      <3>3. CASE i = j
        <4>1. visible[j] = 1 /\ hidden[j] = 0 /\ collected[j] = "none" /\ visible'[j] = 0
          BY <1>a, <3>1, <3>3 DEF InOnePlace
        <4>2. \A r \in Slots : ~Has(r, j)
          BY <1>a, <4>1 DEF InOnePlace
        <4>3. \A r \in Slots : Has(r, j)' => r = s
          <5>1. \A r \in Slots \ {s} : Has(r, j)' => Has(r, j)
            BY <1>1, OneSlot DEF Has, Answers
          <5> QED
            BY <4>2, <5>1
        <4>4. task'[s].entries[j] = "none"
          BY <3>1, <4>2 DEF Has
        <4>5. \A r \in Slots : Answers(r, j)' => r = s
          BY <4>3 DEF Has
        <4> QED
          BY <3>1, <4>1, <4>3, <4>4, <4>5 DEF InOnePlace
      <3> QED
        BY <3>2, <3>3
    <2>4. CASE Drop(s)
      <3>1. /\ task'[s].entries = task[s].entries /\ task'[s].held = task[s].held
            /\ task'[s].live = task[s].live /\ pc[s] = "executing"
            /\ UNCHANGED <<visible, hidden, collected>>
        BY <1>c, <2>4 DEF Drop, queueVars, cliVars, Task
      <3>2. (Answers(s, j)' => Answers(s, j)) /\ (Has(s, j)' => Has(s, j))
        BY <3>1 DEF Has, Answers
      <3> QED
        BY <1>a, <1>1, <3>1, <3>2, SlotKeepsPlace DEF InOnePlace
    <2>5. ASSUME NEW v \in Verdicts, Commit(s, v) PROVE InOnePlace(j)'
      <3>1. task[s].held \in Jobs /\ pc[s] = "executing" /\ pc'[s] = "retiring" /\ task[s].live
        BY <1>c, <2>5 DEF Commit, HeldOK
      <3>2. /\ task[s].entries \in [Jobs -> Verdicts \cup {"none"}]
            /\ task'[s].entries = [task[s].entries EXCEPT ![task[s].held] = IF @ = "none" THEN v ELSE @]
            /\ UNCHANGED <<visible, hidden, collected>>
        BY <1>c, <2>5 DEF Commit, queueVars, cliVars, Task
      <3>3. Has(s, j)' => Has(s, j)
        BY <3>1, <3>2 DEF Has, Answers
      <3> QED
        BY <1>a, <1>1, <3>1, <3>2, <3>3, SlotKeepsPlace DEF Answers
    <2>6. CASE RequeueLands(s)
      <3>1. /\ task[s].held \in Jobs /\ pc[s] = "requeuing" /\ pc'[s] = "retiring" /\ task[s].live
            /\ UNCHANGED <<task, hidden, collected>>
            /\ visible' = [visible EXCEPT ![task[s].held] = @ + 1]
        BY <1>c, <2>6 DEF RequeueLands, HeldOK, cliVars
      <3>2. CASE task[s].held # j
        <4>1. visible'[j] = visible[j]
          BY <3>1, <3>2
        <4> QED
          BY <1>a, <1>1, <3>1, <3>2, <4>1, SlotKeepsPlace DEF Has, Answers
      <3>3. CASE task[s].held = j
        <4>1. Answers(s, j)
          BY <3>1, <3>3 DEF Answers
        <4>2. /\ visible[j] = 0 /\ hidden[j] = 0 /\ collected[j] = "none"
              /\ task[s].entries[j] = "none" /\ \A r \in Slots : Has(r, j) => r = s
          BY <1>a, <4>1 DEF InOnePlace, Has
        <4>3. visible'[j] = 1 /\ hidden'[j] = 0 /\ collected'[j] = "none"
          BY <3>1, <3>3, <4>2
        <4>4. \A r \in Slots : ~Has(r, j)'
          <5>1. ~Has(s, j)'
            BY <3>1, <4>2 DEF Has, Answers
          <5>2. \A r \in Slots \ {s} : Has(r, j)' => Has(r, j)
            BY <1>1, OneSlot DEF Has, Answers
          <5> QED
            BY <4>2, <5>1, <5>2
        <4> QED
          BY <4>3, <4>4 DEF InOnePlace, Has
      <3> QED
        BY <3>2, <3>3
    <2>7. CASE Retire(s)
      <3>1. /\ task'[s].entries = task[s].entries /\ ~task'[s].live
            /\ UNCHANGED <<visible, hidden, collected>>
        BY <1>b, <1>c, <2>7 DEF Retire, cliVars, Task, Copying
      <3> QED
        BY <1>a, <1>1, <3>1, SlotKeepsPlace DEF Has, Answers
    <2>8. CASE Return(s)
      <3>1. /\ task'[s] = FreshTask /\ UNCHANGED <<visible, hidden>>
            /\ collected'[j] = IF collected[j] = "none" THEN task[s].entries[j] ELSE collected[j]
        BY <2>8, ContinueTyped DEF Return, queueVars
      <3>2. ~Has(s, j)'
        BY <1>d, <3>1 DEF Has, Answers
      <3>3. \A r \in Slots \ {s} : /\ Has(r, j)' <=> Has(r, j)
                                   /\ Answers(r, j)' <=> Answers(r, j)
                                   /\ task'[r] = task[r]
        BY <1>1, OneSlot DEF Has, Answers
      <3>4. CASE task[s].entries[j] = "none"
        <4>1. collected'[j] = collected[j]
          BY <3>1, <3>4
        <4> QED
          BY <1>a, <3>1, <3>2, <3>3, <4>1 DEF InOnePlace, Has
      <3>5. CASE task[s].entries[j] # "none"
        <4>1. Has(s, j)
          BY <3>5 DEF Has
        <4>2. visible[j] + hidden[j] = 0 /\ \A r \in Slots : Has(r, j) => r = s
          BY <1>a, <4>1 DEF InOnePlace
        <4>3. \A r \in Slots : ~Has(r, j)'
          BY <3>2, <3>3, <4>2
        <4> QED
          BY <3>1, <4>2, <4>3 DEF InOnePlace, Has
      <3> QED
        BY <3>4, <3>5
    <2> QED
      BY <1>1, <2>1, <2>2, <2>3, <2>4, <2>5, <2>6, <2>7, <2>8 DEF SlotStep
  <1>2. ASSUME NEW s \in Slots, SlotFault(s) PROVE InOnePlace(j)'
    <2>1. CASE SubmitRefused(s) \/ SubmitFails(s)
      <3>1. task'[s] = FreshTask /\ UNCHANGED <<visible, hidden, collected>>
        BY <2>1, ContinueTyped DEF SubmitRefused, SubmitFails, StagesOK, WorkerSteps, queueVars, cliVars
      <3> QED
        BY <1>a, <1>d, <1>2, <3>1, SlotKeepsPlace DEF Has, Answers
    <2>2. CASE ReadFails(s)
      <3>1. UNCHANGED <<task, collected>> /\ pc'[s] = "returning"
        BY <2>2 DEF ReadFails, cliVars
      <3>2. visible'[j] + hidden'[j] = visible[j] + hidden[j]
        <4>1. CASE UNCHANGED queueVars
          BY <4>1 DEF queueVars
        <4>2. ASSUME NEW i \in Jobs, visible[i] > 0, visible' = [visible EXCEPT ![i] = @ - 1],
                     hidden' = [hidden EXCEPT ![i] = @ + 1]
              PROVE  visible'[j] + hidden'[j] = visible[j] + hidden[j]
          BY <4>2
        <4> QED
          BY <2>2, <4>1, <4>2 DEF ReadFails
      <3> QED
        BY <1>a, <1>2, <3>1, <3>2, SlotKeepsPlace DEF Has, Answers
    <2>3. ~RequeueRefused(s) /\ ~WindowTooShort(s) /\ ~Crash(s)
      BY <1>b DEF RequeueRefused, WindowTooShort, Crash, Copying
    <2> QED
      BY <1>2, <2>1, <2>2, <2>3 DEF SlotFault
  <1>3. ASSUME NEW i \in Jobs, WindowEnds(i) \/ TtlEnds(i) PROVE InOnePlace(j)'
    <2>1. UNCHANGED <<task, pc, collected>>
      BY <1>3 DEF WindowEnds, TtlEnds, cliVars
    <2>2. visible'[j] + hidden'[j] = visible[j] + hidden[j] \/ visible'[j] + hidden'[j] = visible[j] + hidden[j] - 1
      BY <1>3 DEF WindowEnds, TtlEnds
    <2>3. visible'[j] \in Nat /\ hidden'[j] \in Nat
      BY TypedNext
    <2> QED
      BY <1>a, <2>1, <2>2, <2>3 DEF InOnePlace, Has, Answers
  <1>4. CASE Settle \/ UNCHANGED vars
    <2>1. UNCHANGED <<visible, hidden, collected, task, pc>>
      BY <1>4 DEF Settle, vars, poolVars, cliVars, queueVars
    <2> QED
      BY <1>a, <2>1 DEF InOnePlace, Has, Answers
  <1> QED
    BY <1>1, <1>2, <1>3, <1>4 DEF Next, Settled

LEMMA ApartInit == Init => Apart
  <1> SUFFICES ASSUME Init, NEW j \in Jobs PROVE InOnePlace(j)
    BY DEF Apart
  <1>1. \A s \in Slots : ~Has(s, j) /\ ~Answers(s, j)
    BY FreshTaskTyped DEF Init, Has, Answers
  <1>2. visible[j] = 1 /\ hidden[j] = 0 /\ collected[j] = "none"
    BY DEF Init
  <1> QED
    BY <1>1, <1>2 DEF InOnePlace

LEMMA ApartIsOneCopy == Typed /\ Apart => OneCopy
  <1> SUFFICES ASSUME Typed, NEW j \in Jobs, InOnePlace(j)
               PROVE  visible[j] + hidden[j]
                        + Cardinality({s \in Slots : task[s].entries[j] # "none"})
                        + (IF collected[j] = "none" THEN 0 ELSE 1) <= 1
    BY DEF Apart, OneCopy, Copying
  <1> DEFINE Reporters == {s \in Slots : task[s].entries[j] # "none"}
  <1>1. visible[j] \in Nat /\ hidden[j] \in Nat
    BY DEF Typed, TypeOK
  <1>2. CASE Reporters = {}
    <2>1. Cardinality(Reporters) = 0
      BY <1>2, FS_EmptySet
    <2> QED
      BY <1>1, <2>1 DEF InOnePlace
  <1>3. CASE Reporters # {}
    <2>1. PICK s \in Reporters : TRUE
      BY <1>3
    <2>2. Reporters = {s}
      BY <2>1 DEF InOnePlace, Has
    <2>3. Cardinality(Reporters) = 1
      BY <2>2, FS_Singleton
    <2>4. visible[j] + hidden[j] = 0 /\ collected[j] = "none"
      BY <2>1 DEF InOnePlace, Has
    <2> HIDE DEF Reporters
    <2>5. (visible[j] + hidden[j]) + Cardinality(Reporters) + (IF collected[j] = "none" THEN 0 ELSE 1) = 1
      BY <1>1, <2>3, <2>4
    <2> QED
      BY <1>1, <2>5 DEF Reporters
  <1> QED
    BY <1>2, <1>3

-----------------------------------------------------------------------------
(* What has been announced is reported.                                    *)

\* An entry that was reported of job j: collected, or on its way in an envelope.
Reported(j, verdict) ==
    \/ collected[j] \in verdict
    \/ \E s \in Slots : task[s].entries[j] \in verdict

\* Entries leave an envelope for the collection or with the failure of their task;
\* those of job j the collection drops only if it has one of that job already.
LEMMA ReportStands ==
    ASSUME Staged, [Next]_vars, NEW j \in Jobs, NEW verdict \in SUBSET Verdicts,
           Reported(j, verdict),
           \A s \in Slots : Return(s) /\ task[s].entries[j] \in verdict =>
                                collected[j] \in verdict \cup {"none"}
    PROVE  Reported(j, verdict)' \/ Loud'
  <1> USE DEF Staged, Typed, TypeOK
  <1>0. "none" \notin verdict
    BY DEF Verdicts
  <1>1. CASE collected[j] \in verdict
    <2>1. ASSUME NEW s \in Slots, Return(s) PROVE collected'[j] = collected[j]
      BY <1>0, <1>1, <2>1 DEF Return
    <2>2. ASSUME NEW s \in Slots, SlotStep(s) \/ SlotFault(s), ~Return(s) PROVE UNCHANGED collected
      BY <2>2, OnlyReturnCollects
    <2>3. (\E i \in Jobs : WindowEnds(i) \/ TtlEnds(i)) \/ Settle \/ UNCHANGED vars => UNCHANGED collected
      BY DEF WindowEnds, TtlEnds, Settle, vars, cliVars
    <2>4. collected'[j] = collected[j]
      BY <2>1, <2>2, <2>3 DEF Next, Settled
    <2> QED
      BY <1>1, <2>4 DEF Reported
  <1>2. ASSUME NEW s \in Slots, task[s].entries[j] \in verdict PROVE Reported(j, verdict)' \/ Loud'
    <2>0. task[s] \in Task /\ task[s] # FreshTask
      BY <1>0, <1>2, FreshTaskTyped
    <2>1. ASSUME SlotStep(s) PROVE Reported(j, verdict)' \/ Loud'
      <3>1. ~Submitted(s) /\ ~BackoffEnds(s)
        BY <2>0 DEF Submitted, BackoffEnds, StagesOK, WorkerSteps
      <3>2. CASE \/ StopsOnBail(s) \/ StopsOnBudget(s) \/ GoesOn(s) \/ ReadsEmpty(s)
                 \/ Drop(s) \/ RequeueLands(s) \/ Retire(s) \/ \E i \in Jobs : Read(s, i)
        <4>1. task'[s].entries = task[s].entries
          <5>1. CASE StopsOnBail(s) \/ StopsOnBudget(s) \/ GoesOn(s) \/ ReadsEmpty(s)
            BY <2>0, <5>1 DEF StopsOnBail, StopsOnBudget, GoesOn, ReadsEmpty, Task
          <5>2. CASE Drop(s) \/ RequeueLands(s) \/ Retire(s)
            BY <2>0, <5>2 DEF Drop, RequeueLands, Retire, Task
          <5>3. CASE \E i \in Jobs : Read(s, i)
            BY <2>0, <5>3 DEF Read, Task
          <5> QED
            BY <3>2, <5>1, <5>2, <5>3
        <4> QED
          BY <1>2, <4>1 DEF Reported
      <3>3. ASSUME NEW v \in Verdicts, Commit(s, v) PROVE task'[s].entries[j] = task[s].entries[j]
        <4>1. /\ task[s].entries \in [Jobs -> Verdicts \cup {"none"}]
              /\ task'[s].entries = [task[s].entries EXCEPT ![task[s].held] = IF @ = "none" THEN v ELSE @]
          BY <2>0, <3>3 DEF Commit, Task
        <4> QED
          BY <1>0, <1>2, <4>1
      <3>4. CASE Return(s)
        <4>1. collected'[j] = IF collected[j] = "none" THEN task[s].entries[j] ELSE collected[j]
          BY <3>4 DEF Return
        <4>2. collected[j] \in verdict \cup {"none"}
          BY <1>2, <3>4
        <4> QED
          BY <1>2, <4>1, <4>2 DEF Reported
      <3> QED
        BY <1>2, <2>1, <3>1, <3>2, <3>3, <3>4 DEF SlotStep, Reported
    <2>2. ASSUME SlotFault(s) PROVE Reported(j, verdict)' \/ Loud'
      <3>1. ~SubmitRefused(s) /\ ~SubmitFails(s)
        BY <2>0 DEF SubmitRefused, SubmitFails, StagesOK, WorkerSteps
      <3>2. CASE ReadFails(s) \/ WindowTooShort(s) \/ RequeueRefused(s)
        <4>1. task'[s].entries = task[s].entries
          <5>1. CASE ReadFails(s) \/ WindowTooShort(s)
            BY <2>0, <5>1 DEF ReadFails, WindowTooShort, Task
          <5>2. CASE RequeueRefused(s)
            BY <2>0, <5>2 DEF RequeueRefused, Task
          <5> QED
            BY <3>2, <5>1, <5>2
        <4> QED
          BY <1>2, <4>1 DEF Reported
      <3>3. CASE Crash(s)
        <4>1. s # NoSlot
          BY SlotsAreNumbered DEF Slots, NoSlot
        <4> QED
          BY <3>3, <4>1 DEF Crash, Loud
      <3> QED
        BY <2>2, <3>1, <3>2, <3>3 DEF SlotFault
    <2>3. ASSUME NEW r \in Slots \ {s}, SlotStep(r) \/ SlotFault(r) PROVE Reported(j, verdict)'
      BY <1>2, <2>3, OneSlot DEF Reported
    <2>4. CASE (\E i \in Jobs : WindowEnds(i) \/ TtlEnds(i)) \/ Settle \/ UNCHANGED vars
      BY <1>2, <2>4 DEF WindowEnds, TtlEnds, Settle, vars, Reported
    <2> QED
      BY <2>1, <2>2, <2>3, <2>4 DEF Next, Settled
  <1> QED
    BY <1>1, <1>2 DEF Reported

\* A summary that was streamed has its entry, or the run is going to fail.
Announced == \A j \in streamed : Reported(j, Verdicts) \/ Loud

LEMMA AnnouncedNext == Staged /\ Announced /\ [Next]_vars => Announced'
  <1> SUFFICES ASSUME Staged, Announced, [Next]_vars, NEW j \in streamed'
               PROVE  Reported(j, Verdicts)' \/ Loud'
    BY DEF Announced
  <1>0. j \in Jobs
    BY TypedNext DEF Staged, Typed, TypeOK
  <1>1. CASE j \in streamed
    <2>1. Loud => Loud'
      BY ExcusesStand DEF Staged
    <2>2. \A s \in Slots : collected[j] \in Verdicts \cup {"none"}
      BY <1>0 DEF Staged, Typed, TypeOK
    <2> QED
      BY <1>0, <1>1, <2>1, <2>2, ReportStands DEF Announced
  <1>2. CASE j \notin streamed
    <2>1. PICK s \in Slots : \E v \in Verdicts : Commit(s, v)
      <3>1. ASSUME NEW s \in Slots, SlotStep(s), UNCHANGED streamed PROVE FALSE
        BY <1>2, <3>1
      <3>2. ASSUME NEW s \in Slots, SlotStep(s), \A v \in Verdicts : ~Commit(s, v) PROVE UNCHANGED streamed
        <4>1. CASE Submitted(s) \/ BackoffEnds(s) \/ Return(s)
          BY <4>1 DEF Submitted, BackoffEnds, Return
        <4>2. CASE StopsOnBail(s) \/ StopsOnBudget(s) \/ GoesOn(s) \/ ReadsEmpty(s)
          BY <4>2 DEF StopsOnBail, StopsOnBudget, GoesOn, ReadsEmpty
        <4>3. CASE Drop(s) \/ RequeueLands(s) \/ Retire(s) \/ \E i \in Jobs : Read(s, i)
          BY <4>3 DEF Drop, RequeueLands, Retire, Read
        <4> QED
          BY <3>2, <4>1, <4>2, <4>3 DEF SlotStep
      <3>3. ASSUME NEW s \in Slots, SlotFault(s) PROVE UNCHANGED streamed
        BY <3>3 DEF SlotFault, SubmitRefused, SubmitFails, ReadFails, RequeueRefused, WindowTooShort, Crash
      <3>4. CASE (\E i \in Jobs : WindowEnds(i) \/ TtlEnds(i)) \/ Settle \/ UNCHANGED vars
        BY <1>2, <3>4 DEF WindowEnds, TtlEnds, Settle, vars
      <3> QED
        BY <1>2, <3>1, <3>2, <3>3, <3>4 DEF Next, Settled
    <2>2. PICK v \in Verdicts : Commit(s, v)
      BY <2>1
    <2>3. j = task[s].held
      BY <1>2, <2>2 DEF Commit, Publish
    <2>4. /\ task[s].entries \in [Jobs -> Verdicts \cup {"none"}]
          /\ task'[s].entries = [task[s].entries EXCEPT ![j] = IF @ = "none" THEN v ELSE @]
      BY <2>2, <2>3 DEF Commit, Task, Staged, Typed, TypeOK
    <2>5. task'[s].entries[j] \in Verdicts
      BY <1>0, <2>4
    <2> QED
      BY <2>5 DEF Reported
  <1> QED
    BY <1>1, <1>2

\* When every slot has exited, what was reported is collected.
LEMMA NothingOnItsWay ==
    ASSUME Staged, \A s \in Slots : pc[s] = "exited"
    PROVE  \A s \in Slots : task[s] = FreshTask
  BY DEF Staged, StagesOK, WorkerSteps

LEMMA AnnouncedIsReported ==
    Staged /\ SettledOK /\ Announced /\ StreamedIsReported /\ [Next]_vars => StreamedIsReported'
  <1> SUFFICES ASSUME Staged, SettledOK, Announced, StreamedIsReported, [Next]_vars,
                      outcome' \in {"bailed", "complete"}, NEW j \in streamed'
               PROVE  collected'[j] # "none"
    BY DEF StreamedIsReported
  <1>1. CASE Settle
    <2>1. \A s \in Slots : task[s] = FreshTask
      BY <1>1, NothingOnItsWay DEF Settle
    <2>2. ~Loud /\ streamed' = streamed /\ collected' = collected
      BY <1>1 DEF Settle, Loud, cliVars
    <2>3. j \in Jobs /\ Reported(j, Verdicts)
      BY <2>2 DEF Announced, Staged, Typed, TypeOK
    <2>4. FreshTask.entries[j] = "none"
      BY <2>3, FreshTaskTyped
    <2> QED
      BY <2>1, <2>2, <2>3, <2>4 DEF Reported, Verdicts
  <1>2. ASSUME NEW s \in Slots, SlotStep(s) \/ SlotFault(s) PROVE FALSE
    BY <1>2, StepsNeedARun
  <1>3. ASSUME NEW i \in Jobs, WindowEnds(i) \/ TtlEnds(i) PROVE FALSE
    BY <1>3 DEF WindowEnds, TtlEnds
  <1>4. CASE UNCHANGED vars
    BY <1>4 DEF vars, StreamedIsReported
  <1> QED
    BY <1>1, <1>2, <1>3, <1>4 DEF Next, Settled

-----------------------------------------------------------------------------
(* A bail has its failure.                                                 *)

\* The faults that run a package twice without failing the run.
Repeating == {"retire", "requeue", "window"}

\* The failure a bail speaks of: on record, or the excuse for its absence.
FailureKnown == \/ \E j \in Jobs : Reported(j, {"fail"})
                \/ Loud \/ Struck(Repeating)

\* Whoever knows of a bail knows it from a failure, and a lost task fails the run.
BailKnown ==
    /\ signal \/ bailed \/ (\E s \in Slots : task[s].tripped) => FailureKnown
    /\ \A s \in Slots : task[s].stop = "bailed" => task[s].tripped
    /\ Struck({"crash"}) => Loud

LEMMA FailureStands ==
    ASSUME Staged, Apart, BailKnown, FailureKnown, [Next]_vars
    PROVE  FailureKnown'
  <1> USE DEF Staged
  <1>1. Loud => Loud'
    BY ExcusesStand
  <1>2. Struck(Repeating) => Struck(Repeating)'
    BY FaultsStand DEF Repeating, FaultKinds
  <1>3. ASSUME NEW j \in Jobs, Reported(j, {"fail"}), ~Loud, ~Struck(Repeating)
        PROVE  Reported(j, {"fail"})' \/ Loud'
    <2>1. InOnePlace(j)
      BY <1>3 DEF BailKnown, Struck, Repeating, Apart, Copying
    <2>2. \A s \in Slots : task[s].entries[j] \in {"fail"} => collected[j] = "none"
      BY <2>1 DEF InOnePlace, Has
    <2> QED
      BY <1>3, <2>2, ReportStands DEF Verdicts
  <1> QED
    BY <1>1, <1>2, <1>3 DEF FailureKnown

\* The entry of a failing package is on record as failing, unless it was run twice.
LEMMA FailingCommit ==
    ASSUME Staged, InHand, Apart, BailKnown, NEW s \in Slots, Commit(s, "fail"),
           NEW j, j = task[s].held
    PROVE  Reported(j, {"fail"})' \/ Loud \/ Struck(Repeating)
  <1>1. j \in Jobs /\ pc[s] = "executing"
    BY DEF Staged, Typed, Commit, HeldOK
  <1>2. /\ task[s].entries \in [Jobs -> Verdicts \cup {"none"}]
        /\ task'[s].entries = [task[s].entries EXCEPT ![j] = IF @ = "none" THEN "fail" ELSE @]
    BY DEF Commit, Task, Staged, Typed, TypeOK
  <1>3. CASE ~Struck(Copying)
    <2>1. InOnePlace(j) /\ task[s].live
      BY <1>1, <1>3 DEF Apart, InHand, HandOK, Struck, Copying
    <2>2. task[s].entries[j] = "none"
      BY <1>1, <2>1 DEF InOnePlace, Answers
    <2>3. task'[s].entries[j] = "fail"
      BY <1>1, <1>2, <2>2
    <2> QED
      BY <2>3 DEF Reported
  <1>4. CASE Struck(Copying)
    BY <1>4 DEF BailKnown, Struck, Copying, Repeating
  <1> QED
    BY <1>3, <1>4

LEMMA BailKnownNext == Staged /\ InHand /\ Apart /\ BailKnown /\ [Next]_vars => BailKnown'
  <1> SUFFICES ASSUME Staged, InHand, Apart, BailKnown, [Next]_vars PROVE BailKnown'
    OBVIOUS
  <1> USE DEF Staged, Typed, TypeOK
  <1>a. FailureKnown => FailureKnown'
    BY FailureStands
  <1>b. Loud => Loud'
    BY ExcusesStand
  <1>c. \A s \in Slots : task[s] \in Task
    OBVIOUS
  <1>d. FreshTask.tripped = FALSE /\ FreshTask.stop = "none"
    BY DEF FreshTask
  \* Only the loss of a task counts as a crash, and that fails the run.
  <1>1. Struck({"crash"})' => Loud'
    <2>1. CASE Struck({"crash"})
      BY <1>b, <2>1 DEF BailKnown
    <2>2. CASE UNCHANGED faults
      BY <1>b, <2>2 DEF BailKnown, Struck
    <2>3. ASSUME NEW k \in FaultKinds, Fault(k), k # "crash" PROVE UNCHANGED faults["crash"]
      BY <2>3 DEF Fault, FaultKinds
    <2>4. ASSUME NEW s \in Slots, SlotStep(s) PROVE UNCHANGED faults["crash"]
      <3>1. CASE Submitted(s) \/ BackoffEnds(s) \/ Return(s)
        BY <3>1 DEF Submitted, BackoffEnds, Return
      <3>2. CASE StopsOnBail(s) \/ ReadsEmpty(s)
        BY <3>2 DEF StopsOnBail, ReadsEmpty
      <3>3. CASE StopsOnBudget(s) \/ GoesOn(s)
        BY <2>3, <3>3 DEF StopsOnBudget, GoesOn, SeesNoBail, NoFault, FaultKinds
      <3>4. CASE Drop(s) \/ RequeueLands(s) \/ \E j \in Jobs : Read(s, j)
        BY <3>4 DEF Drop, RequeueLands, Read
      <3>5. CASE Retire(s)
        BY <2>3, <3>5 DEF Retire, NoFault, FaultKinds
      <3>6. CASE \E v \in Verdicts : Commit(s, v)
        BY <2>3, <3>6 DEF Commit, Publish, NoFault, FaultKinds
      <3> QED
        BY <2>4, <3>1, <3>2, <3>3, <3>4, <3>5, <3>6 DEF SlotStep
    <2>5. ASSUME NEW s \in Slots, SlotFault(s), ~Crash(s) PROVE UNCHANGED faults["crash"]
      BY <2>3, <2>5 DEF SlotFault, SubmitRefused, SubmitFails, ReadFails, RequeueRefused,
         WindowTooShort, FaultKinds
    <2>6. ASSUME NEW s \in Slots, Crash(s) PROVE Loud'
      <3>1. s # NoSlot
        BY SlotsAreNumbered DEF Slots, NoSlot
      <3> QED
        BY <2>6, <3>1 DEF Crash, Loud
    <2>7. ASSUME NEW j \in Jobs, WindowEnds(j) \/ TtlEnds(j) PROVE UNCHANGED faults["crash"]
      BY <2>3, <2>7 DEF WindowEnds, TtlEnds, FaultKinds
    <2>8. Settle \/ UNCHANGED vars => UNCHANGED faults
      BY DEF Settle, vars
    <2> QED
      BY <2>1, <2>2, <2>4, <2>5, <2>6, <2>7, <2>8 DEF Next, Settled, Struck
  \* What a step of one slot adds to the knowledge of a bail.
  <1>2. ASSUME NEW s \in Slots, SlotStep(s) \/ SlotFault(s),
               task'[s].stop = "bailed" => task'[s].tripped,
               signal' => signal \/ FailureKnown',
               bailed' => bailed \/ FailureKnown',
               task'[s].tripped => task[s].tripped \/ FailureKnown'
        PROVE  BailKnown'
    <2>1. \A r \in Slots \ {s} : task'[r] = task[r]
      BY <1>2, OneSlot
    <2> QED
      BY <1>a, <1>1, <1>2, <2>1 DEF BailKnown
  <1>3. ASSUME NEW s \in Slots, SlotStep(s) PROVE BailKnown'
    <2>1. CASE Submitted(s) \/ BackoffEnds(s)
      <3>1. task'[s] = FreshTask /\ UNCHANGED <<signal, bailed>>
        BY <2>1, ContinueTyped DEF Submitted, BackoffEnds, StagesOK, WorkerSteps, cliVars
      <3> QED
        BY <1>d, <1>2, <1>3, <3>1
    <2>2. CASE StopsOnBail(s)
      <3>1. task'[s].tripped /\ (task[s].tripped \/ signal) /\ UNCHANGED <<signal, bailed>>
        BY <1>c, <2>2 DEF StopsOnBail, cliVars, Task
      <3>2. FailureKnown'
        BY <1>a, <3>1 DEF BailKnown
      <3> QED
        BY <1>2, <1>3, <3>1, <3>2
    <2>3. CASE StopsOnBudget(s) \/ Drop(s)
      <3>1. /\ task'[s].tripped = task[s].tripped /\ task'[s].stop = "deferred"
            /\ UNCHANGED <<signal, bailed>>
        BY <1>c, <2>3 DEF StopsOnBudget, Drop, cliVars, Task
      <3> QED
        BY <1>2, <1>3, <3>1
    <2>4. CASE GoesOn(s) \/ ReadsEmpty(s) \/ RequeueLands(s) \/ Retire(s) \/ \E j \in Jobs : Read(s, j)
      <3>1. /\ task'[s].tripped = task[s].tripped /\ task'[s].stop = task[s].stop
            /\ UNCHANGED <<signal, bailed>>
        <4>1. CASE GoesOn(s) \/ ReadsEmpty(s) \/ RequeueLands(s)
          BY <4>1 DEF GoesOn, ReadsEmpty, RequeueLands, cliVars
        <4>2. CASE Retire(s)
          BY <1>c, <4>2 DEF Retire, cliVars, Task
        <4>3. CASE \E j \in Jobs : Read(s, j)
          BY <1>c, <4>3 DEF Read, cliVars, Task
        <4> QED
          BY <2>4, <4>1, <4>2, <4>3
      <3> QED
        BY <1>2, <1>3, <3>1 DEF BailKnown
    <2>5. ASSUME NEW v \in Verdicts, Commit(s, v) PROVE BailKnown'
      <3>1. /\ task'[s].stop = task[s].stop /\ pc[s] = "executing" /\ UNCHANGED bailed
            /\ task'[s].tripped = (task[s].tripped \/ (BailEnabled /\ v = "fail"))
        BY <1>c, <2>5 DEF Commit, cliVars, Task
      <3>2. task[s].stop = "none"
        BY <3>1 DEF StagesOK
      <3>3. v = "fail" => FailureKnown'
        <4>1. PICK j \in Jobs : j = task[s].held
          BY <3>1 DEF HeldOK
        <4>2. v = "fail" => Reported(j, {"fail"})' \/ FailureKnown
          BY <2>5, <4>1, FailingCommit DEF FailureKnown
        <4> QED
          BY <1>a, <4>2 DEF FailureKnown
      <3>4. signal' => signal \/ v = "fail"
        BY <2>5 DEF Commit, Publish
      <3> QED
        BY <1>2, <1>3, <3>1, <3>2, <3>3, <3>4
    <2>6. CASE Return(s)
      <3>1. task'[s] = FreshTask /\ UNCHANGED signal /\ bailed' = (bailed \/ task[s].stop = "bailed")
        BY <2>6, ContinueTyped DEF Return
      <3>2. task[s].stop = "bailed" => FailureKnown'
        BY <1>a DEF BailKnown
      <3> QED
        BY <1>d, <1>2, <1>3, <3>1, <3>2
    <2> QED
      BY <1>3, <2>1, <2>2, <2>3, <2>4, <2>5, <2>6 DEF SlotStep
  <1>4. ASSUME NEW s \in Slots, SlotFault(s) PROVE BailKnown'
    <2>1. CASE SubmitRefused(s) \/ SubmitFails(s) \/ Crash(s)
      <3>1. task'[s] = FreshTask /\ UNCHANGED <<signal, bailed>>
        BY <2>1, ContinueTyped DEF SubmitRefused, SubmitFails, Crash, StagesOK, WorkerSteps, cliVars
      <3> QED
        BY <1>d, <1>2, <1>4, <3>1
    <2>2. CASE ReadFails(s) \/ WindowTooShort(s) \/ RequeueRefused(s)
      <3>1. /\ task'[s].tripped = task[s].tripped /\ task'[s].stop = task[s].stop
            /\ UNCHANGED <<signal, bailed>>
        <4>1. CASE ReadFails(s) \/ WindowTooShort(s)
          BY <1>c, <4>1 DEF ReadFails, WindowTooShort, cliVars, Task
        <4>2. CASE RequeueRefused(s)
          BY <1>c, <4>2 DEF RequeueRefused, cliVars, Task
        <4> QED
          BY <2>2, <4>1, <4>2
      <3> QED
        BY <1>2, <1>4, <3>1 DEF BailKnown
    <2> QED
      BY <1>4, <2>1, <2>2 DEF SlotFault
  <1>5. CASE (\E j \in Jobs : WindowEnds(j) \/ TtlEnds(j)) \/ Settle \/ UNCHANGED vars
    <2>1. UNCHANGED <<signal, bailed, task>>
      BY <1>5 DEF WindowEnds, TtlEnds, Settle, vars, cliVars
    <2> QED
      BY <1>a, <1>1, <2>1 DEF BailKnown
  <1> QED
    BY <1>3, <1>4, <1>5 DEF Next, Settled

LEMMA BailIsReported ==
    Staged /\ SettledOK /\ BailKnown /\ BailHasFailure /\ [Next]_vars => BailHasFailure'
  <1> SUFFICES ASSUME Staged, SettledOK, BailKnown, BailHasFailure, [Next]_vars, outcome' = "bailed"
               PROVE  (\E j \in Jobs : collected'[j] = "fail") \/ Struck(Repeating)'
    BY DEF BailHasFailure, Repeating
  <1>1. CASE Settle
    <2>1. \A s \in Slots : task[s] = FreshTask
      BY <1>1, NothingOnItsWay DEF Settle
    <2>2. ~Loud /\ bailed /\ collected' = collected /\ faults' = faults
      BY <1>1 DEF Settle, Loud, cliVars
    <2>3. \A j \in Jobs : FreshTask.entries[j] = "none"
      BY FreshTaskTyped
    <2>4. (\E j \in Jobs : Reported(j, {"fail"})) \/ Struck(Repeating)
      BY <2>2 DEF BailKnown, FailureKnown
    <2> QED
      BY <2>1, <2>2, <2>3, <2>4 DEF Reported, Struck
  <1>2. ASSUME NEW s \in Slots, SlotStep(s) \/ SlotFault(s) PROVE FALSE
    BY <1>2, StepsNeedARun
  <1>3. ASSUME NEW i \in Jobs, WindowEnds(i) \/ TtlEnds(i) PROVE FALSE
    BY <1>3 DEF WindowEnds, TtlEnds
  <1>4. CASE UNCHANGED vars
    BY <1>4 DEF vars, BailHasFailure, Struck, Repeating
  <1> QED
    BY <1>1, <1>2, <1>3, <1>4 DEF Next, Settled

-----------------------------------------------------------------------------
(* The launch budget.                                                      *)
(*                                                                         *)
(* Every copy of an item in the queue, every item a task works on and      *)
(* every entry of an envelope weighs one, and so does every deferral: one  *)
(* that waits and one that a launch beyond the wave has answered.  A task  *)
(* pays for its deferral with an entry, so the weight never grows beyond   *)
(* the one copy of each job the run starts with.                           *)

Copies(j) == visible[j] + hidden[j]
Queued == {x \in Jobs \X Nat : 1 <= x[2] /\ x[2] <= Copies(x[1])}
Entered == {x \in Slots \X Jobs : task[x[1]].entries[x[2]] # "none"}
Working == {s \in Slots : pc[s] \in {"executing", "requeuing"}}
Beyond(l) == IF l > TaskCount THEN l - TaskCount ELSE 0
Owed == pendingDeferrals + Beyond(launched)

Balanced ==
    \/ ServicesFailed
    \/ /\ IsFiniteSet(Queued)
       /\ Cardinality(Queued) + Cardinality(Entered) + Cardinality(Working) + Owed <= Cardinality(Jobs)

LEMMA HandsFinite == \A S : S \subseteq Slots \/ S \subseteq Slots \X Jobs => IsFiniteSet(S)
  <1>1. IsFiniteSet(Slots)
    BY SlotsAreNumbered, FS_Interval DEF Slots
  <1>2. IsFiniteSet(Slots \X Jobs)
    BY <1>1, JobsAssumption, FS_Product
  <1> QED
    BY <1>1, <1>2, FS_Subset

\* One element more, one element less.
LEMMA OneMore ==
    ASSUME NEW S, IsFiniteSet(S), NEW x, NEW T \in SUBSET (S \cup {x})
    PROVE  IsFiniteSet(T) /\ Cardinality(T) <= Cardinality(S) + 1
  <1>1. IsFiniteSet(S \cup {x})
    BY FS_AddElement
  <1>2. Cardinality(S \cup {x}) = IF x \in S THEN Cardinality(S) ELSE Cardinality(S) + 1
    BY FS_AddElement
  <1>3. IsFiniteSet(T) /\ Cardinality(T) <= Cardinality(S \cup {x})
    BY <1>1, FS_Subset
  <1>4. Cardinality(S) \in Nat /\ Cardinality(T) \in Nat
    BY <1>3, FS_CardinalityType
  <1> QED
    BY <1>2, <1>3, <1>4

LEMMA OneLess ==
    ASSUME NEW S, IsFiniteSet(S), NEW x \in S, NEW T \in SUBSET (S \ {x})
    PROVE  IsFiniteSet(T) /\ Cardinality(T) <= Cardinality(S) - 1
  <1>1. IsFiniteSet(S \ {x}) /\ Cardinality(S \ {x}) = Cardinality(S) - 1
    BY FS_RemoveElement
  <1> QED
    BY <1>1, FS_Subset

LEMMA QueueKept ==
    ASSUME IsFiniteSet(Queued), \A j \in Jobs : Copies(j)' <= Copies(j), Typed, Typed'
    PROVE  IsFiniteSet(Queued') /\ Cardinality(Queued') <= Cardinality(Queued)
  <1>1. \A j \in Jobs : Copies(j) \in Nat /\ Copies(j)' \in Nat
    BY DEF Typed, TypeOK, Copies
  <1>2. Queued' \subseteq Queued
    BY <1>1 DEF Queued
  <1> QED
    BY <1>2, FS_Subset

LEMMA QueueGains ==
    ASSUME IsFiniteSet(Queued), NEW j \in Jobs, Copies(j)' <= Copies(j) + 1,
           \A i \in Jobs \ {j} : Copies(i)' <= Copies(i), Typed, Typed'
    PROVE  IsFiniteSet(Queued') /\ Cardinality(Queued') <= Cardinality(Queued) + 1
  <1>1. \A i \in Jobs : Copies(i) \in Nat /\ Copies(i)' \in Nat
    BY DEF Typed, TypeOK, Copies
  <1> DEFINE x == <<j, Copies(j) + 1>>
  <1>2. Queued' \subseteq Queued \cup {x}
    BY <1>1 DEF Queued
  <1> QED
    BY <1>2, OneMore

LEMMA QueueLoses ==
    ASSUME IsFiniteSet(Queued), NEW j \in Jobs, Copies(j) > 0, Copies(j)' <= Copies(j) - 1,
           \A i \in Jobs \ {j} : Copies(i)' <= Copies(i), Typed, Typed'
    PROVE  IsFiniteSet(Queued') /\ Cardinality(Queued') <= Cardinality(Queued) - 1
  <1>1. \A i \in Jobs : Copies(i) \in Nat /\ Copies(i)' \in Nat
    BY DEF Typed, TypeOK, Copies
  <1> DEFINE x == <<j, Copies(j)>>
  <1>2. Queued' \subseteq Queued \ {x} /\ x \in Queued
    BY <1>1 DEF Queued
  <1> QED
    BY <1>2, OneLess

\* What a step of one slot does to the entries of the envelopes, by what it does
\* to those of its own.
LEMMA EntriesKept ==
    ASSUME Typed, NEW s \in Slots, SlotStep(s) \/ SlotFault(s),
           \A j \in Jobs : task'[s].entries[j] # "none" => task[s].entries[j] # "none"
    PROVE  Cardinality(Entered') <= Cardinality(Entered)
  <1>1. Entered' \subseteq Entered
    BY OneSlot DEF Entered
  <1>2. IsFiniteSet(Entered)
    BY HandsFinite DEF Entered
  <1> QED
    BY <1>1, <1>2, FS_Subset

LEMMA EntriesLost ==
    ASSUME Typed, NEW s \in Slots, SlotStep(s) \/ SlotFault(s), task'[s] = FreshTask,
           NEW j \in Jobs, task[s].entries[j] # "none"
    PROVE  Cardinality(Entered') <= Cardinality(Entered) - 1
  <1> DEFINE x == <<s, j>>
  <1>1. Entered' \subseteq Entered \ {x} /\ x \in Entered
    BY OneSlot, FreshTaskTyped DEF Entered
  <1>2. IsFiniteSet(Entered)
    BY HandsFinite DEF Entered
  <1> QED
    BY <1>1, <1>2, OneLess

LEMMA EntryGained ==
    ASSUME Typed, NEW s \in Slots, SlotStep(s) \/ SlotFault(s), NEW j \in Jobs,
           \A i \in Jobs \ {j} : task'[s].entries[i] # "none" => task[s].entries[i] # "none"
    PROVE  Cardinality(Entered') <= Cardinality(Entered) + 1
  <1> DEFINE x == <<s, j>>
  <1>1. Entered' \subseteq Entered \cup {x}
    BY OneSlot DEF Entered
  <1>2. IsFiniteSet(Entered)
    BY HandsFinite DEF Entered
  <1> QED
    BY <1>1, <1>2, OneMore

\* The same of the items tasks work on.
LEMMA WorkMoves ==
    ASSUME Typed, NEW s \in Slots, SlotStep(s) \/ SlotFault(s)
    PROVE  /\ s \in Working <=> s \in Working' => Cardinality(Working') = Cardinality(Working)
           /\ s \in Working' => Cardinality(Working') <= Cardinality(Working) + 1
           /\ s \notin Working' => Cardinality(Working') <= Cardinality(Working)
           /\ s \in Working /\ s \notin Working' => Cardinality(Working') <= Cardinality(Working) - 1
  <1>1. \A r \in Slots \ {s} : r \in Working' <=> r \in Working
    BY OneSlot DEF Working
  <1>2. IsFiniteSet(Working)
    BY HandsFinite DEF Working
  <1>3. Working \subseteq Slots /\ Working' \subseteq Slots
    BY DEF Working
  <1>4. (s \in Working <=> s \in Working') => Working' = Working
    BY <1>1, <1>3
  <1>5. s \in Working' => Working' = Working \cup {s}
    BY <1>1, <1>3
  <1>6. s \notin Working' => Working' = Working \ {s}
    BY <1>1, <1>3
  <1> QED
    BY <1>2, <1>4, <1>5, <1>6, FS_AddElement, FS_RemoveElement, FS_CardinalityType

\* A launch answers a deferral or belongs to the wave.
LEMMA ContinueOwes ==
    ASSUME Typed, NEW s \in Slots, NEW p \in Nat, Continue(s, p)
    PROVE  Owed' <= p + Beyond(launched)
  <1>1. launched \in Nat /\ TaskCount \in Nat
    BY TaskCountAssumption, JobsAssumption, FS_CardinalityType DEF Typed, TypeOK
  <1>2. CASE PoolDone(launched, p)
    BY <1>1, <1>2 DEF Continue, Owed, Beyond
  <1>3. CASE ~PoolDone(launched, p)
    <2>1. launched' = launched + 1 /\ pendingDeferrals' = IF p > 0 THEN p - 1 ELSE p
      BY <1>3 DEF Continue
    <2>2. launched < TaskCount \/ p > 0
      BY <1>1, <1>3, SlotsAreNumbered DEF PoolDone
    <2> QED
      BY <1>1, <2>1, <2>2 DEF Owed, Beyond
  <1> QED
    BY <1>2, <1>3

\* The faults that can keep an item from the tasks left to read it.
Withholding == {"backoff", "read", "requeue", "retire", "window", "ttl"}

LEMMA Weighs ==
    ASSUME Typed
    PROVE  Cardinality(Entered) \in Nat /\ Cardinality(Working) \in Nat /\ Owed \in Nat
  <1>1. launched \in Nat /\ TaskCount \in Nat /\ pendingDeferrals \in Nat
    BY TaskCountAssumption, JobsAssumption, FS_CardinalityType DEF Typed, TypeOK
  <1>2. IsFiniteSet(Entered) /\ IsFiniteSet(Working)
    BY HandsFinite DEF Entered, Working
  <1>3. Owed \in Nat
    BY <1>1 DEF Owed, Beyond
  <1> QED
    BY <1>2, <1>3, FS_CardinalityType

LEMMA WeighsNext ==
    ASSUME Typed'
    PROVE  Cardinality(Entered') \in Nat /\ Cardinality(Working') \in Nat /\ Owed' \in Nat
  <1>1. launched' \in Nat /\ TaskCount \in Nat /\ pendingDeferrals' \in Nat
    BY TaskCountAssumption, JobsAssumption, FS_CardinalityType DEF Typed, TypeOK
  <1>2. IsFiniteSet(Entered') /\ IsFiniteSet(Working')
    BY HandsFinite DEF Entered, Working
  <1>3. Owed' = pendingDeferrals' + (IF launched' > TaskCount THEN launched' - TaskCount ELSE 0)
    BY DEF Owed, Beyond
  <1>4. \A l \in Nat, p \in Nat : p + (IF l > TaskCount THEN l - TaskCount ELSE 0) \in Nat
    BY <1>1
  <1>5. Owed' \in Nat
    BY <1>1, <1>3, <1>4
  <1> QED
    BY <1>2, <1>5, FS_CardinalityType

\* A step that does not add to the weight.
LEMMA Balances ==
    ASSUME Typed, Typed', Balanced, ~ServicesFailed, IsFiniteSet(Queued'),
           Cardinality(Queued') + Cardinality(Entered') + Cardinality(Working') + Owed'
             <= Cardinality(Queued) + Cardinality(Entered) + Cardinality(Working) + Owed
    PROVE  Balanced'
  <1>1. /\ IsFiniteSet(Queued)
        /\ Cardinality(Queued) + Cardinality(Entered) + Cardinality(Working) + Owed <= Cardinality(Jobs)
    BY DEF Balanced
  <1>2. Cardinality(Queued) \in Nat /\ Cardinality(Queued') \in Nat /\ Cardinality(Jobs) \in Nat
    BY <1>1, JobsAssumption, FS_CardinalityType
  <1>3. Cardinality(Queued') + Cardinality(Entered') + Cardinality(Working') + Owed' <= Cardinality(Jobs)
    BY <1>1, <1>2, Weighs, WeighsNext
  <1> QED
    BY <1>3 DEF Balanced

\* A step that leaves the queue, the entries, the work and the deferrals as they are.
LEMMA NothingWeighed ==
    ASSUME Staged, Staged', Balanced, ~ServicesFailed,
           NEW s \in Slots, SlotStep(s) \/ SlotFault(s), UNCHANGED poolVars,
           \A j \in Jobs : Copies(j)' <= Copies(j),
           \A j \in Jobs : task'[s].entries[j] # "none" => task[s].entries[j] # "none",
           pc[s] \in {"executing", "requeuing"} <=> pc'[s] \in {"executing", "requeuing"}
    PROVE  Balanced'
  <1> USE DEF Staged
  <1>1. IsFiniteSet(Queued') /\ Cardinality(Queued') <= Cardinality(Queued)
    BY QueueKept DEF Balanced
  <1>2. Cardinality(Entered') <= Cardinality(Entered)
    BY EntriesKept
  <1>3. Cardinality(Working') = Cardinality(Working)
    BY WorkMoves DEF Working
  <1>4. Owed' = Owed
    BY DEF Owed, poolVars
  <1>5. Cardinality(Queued) \in Nat /\ Cardinality(Queued') \in Nat
    BY <1>1, FS_CardinalityType DEF Balanced
  <1> QED
    BY <1>1, <1>2, <1>3, <1>4, <1>5, Weighs, WeighsNext, Balances

LEMMA BalancedStep ==
    ASSUME Staged, Staged', Enveloped, InHand, Balanced, [Next]_vars, ~ServicesFailed,
           NEW s \in Slots, SlotStep(s)
    PROVE  Balanced'
  <1> USE DEF Staged, Typed, TypeOK
  <1>a. task[s] \in Task /\ \A j \in Jobs : FreshTask.entries[j] = "none"
    BY FreshTaskTyped
  <1>b. /\ IsFiniteSet(Queued) /\ Cardinality(Queued) \in Nat /\ Cardinality(Entered) \in Nat
        /\ Cardinality(Working) \in Nat /\ Owed \in Nat
    BY Weighs, FS_CardinalityType DEF Balanced
  <1>c. pendingDeferrals \in Nat /\ launched \in Nat /\ Beyond(launched) \in Nat
    BY TaskCountAssumption, JobsAssumption, FS_CardinalityType DEF Beyond
  <1>d. Cardinality(Entered') \in Nat /\ Cardinality(Working') \in Nat /\ Owed' \in Nat
    BY WeighsNext
  <1>e. IsFiniteSet(Queued') => Cardinality(Queued') \in Nat
    BY FS_CardinalityType
  <1>1. CASE Submitted(s)
    BY <1>1, NothingWeighed DEF Submitted, Copies, queueVars
  <1>2. CASE BackoffEnds(s)
    <2>1. task[s] = FreshTask /\ task'[s] = FreshTask /\ UNCHANGED queueVars
          /\ pc[s] = "backoff" /\ pc'[s] \in {"exited", "submitting"}
      BY <1>2, ContinueTyped DEF BackoffEnds, StagesOK, WorkerSteps
    <2>2. IsFiniteSet(Queued') /\ Cardinality(Queued') <= Cardinality(Queued)
      BY <1>b, <2>1, QueueKept DEF Copies, queueVars
    <2>3. Cardinality(Entered') <= Cardinality(Entered)
      BY <2>1, EntriesKept
    <2>4. Cardinality(Working') = Cardinality(Working)
      BY <2>1, WorkMoves DEF Working
    <2>5. Owed' <= Owed
      BY <1>2, <1>c, ContinueOwes DEF BackoffEnds, Owed
    <2> QED
      BY <2>2, <2>3, <2>4, <2>5, <1>b, <1>d, <1>e, Balances
  <1>3. CASE StopsOnBail(s) \/ StopsOnBudget(s) \/ GoesOn(s) \/ ReadsEmpty(s)
    <2>1. /\ task'[s].entries = task[s].entries /\ pc[s] \in {"deciding", "reading"}
          /\ pc'[s] \in {"returning", "reading"} /\ UNCHANGED <<poolVars, queueVars>>
      BY <1>a, <1>3 DEF StopsOnBail, StopsOnBudget, GoesOn, ReadsEmpty, Task
    <2> QED
      BY <2>1, NothingWeighed DEF Copies, queueVars
  <1>4. ASSUME NEW j \in Jobs, Read(s, j) PROVE Balanced'
    <2>1. /\ task'[s].entries = task[s].entries /\ visible[j] > 0 /\ UNCHANGED <<hidden, poolVars>>
          /\ visible' = [visible EXCEPT ![j] = @ - 1] /\ pc'[s] = "executing"
      BY <1>a, <1>4 DEF Read, Task
    <2>2. /\ Copies(j) > 0 /\ Copies(j)' <= Copies(j) - 1
          /\ \A i \in Jobs \ {j} : Copies(i)' <= Copies(i)
      BY <2>1 DEF Copies
    <2>3. IsFiniteSet(Queued') /\ Cardinality(Queued') <= Cardinality(Queued) - 1
      BY <1>b, <2>2, QueueLoses
    <2>4. Cardinality(Entered') <= Cardinality(Entered)
      BY <2>1, EntriesKept
    <2>5. Cardinality(Working') <= Cardinality(Working) + 1
      BY <2>1, WorkMoves DEF Working
    <2>6. Owed' = Owed
      BY <2>1 DEF Owed, poolVars
    <2> QED
      BY <2>3, <2>4, <2>5, <2>6, <1>b, <1>d, <1>e, Balances
  <1>5. CASE Drop(s)
    <2>1. task'[s].entries = task[s].entries /\ UNCHANGED <<poolVars, queueVars>>
          /\ pc[s] = "executing" /\ pc'[s] = "requeuing"
      BY <1>a, <1>5 DEF Drop, Task
    <2> QED
      BY <2>1, NothingWeighed DEF Copies, queueVars
  <1>6. ASSUME NEW v \in Verdicts, Commit(s, v) PROVE Balanced'
    <2>1. /\ pc[s] = "executing" /\ pc'[s] = "retiring" /\ UNCHANGED <<poolVars, queueVars>>
          /\ task[s].held \in Jobs
      BY <1>6 DEF Commit, HeldOK
    <2>2. /\ task[s].entries \in [Jobs -> Verdicts \cup {"none"}]
          /\ task'[s].entries = [task[s].entries EXCEPT ![task[s].held] = IF @ = "none" THEN v ELSE @]
      BY <1>a, <1>6 DEF Commit, Task
    <2>3. IsFiniteSet(Queued') /\ Cardinality(Queued') <= Cardinality(Queued)
      BY <1>b, <2>1, QueueKept DEF Copies, queueVars
    <2>4. Cardinality(Entered') <= Cardinality(Entered) + 1
      BY <2>1, <2>2, EntryGained
    <2>5. Cardinality(Working') <= Cardinality(Working) - 1
      BY <1>b, <2>1, WorkMoves DEF Working
    <2>6. Owed' = Owed
      BY <2>1 DEF Owed, poolVars
    <2> QED
      BY <2>3, <2>4, <2>5, <2>6, <1>b, <1>d, <1>e, Balances
  <1>7. CASE RequeueLands(s)
    <2>1. /\ pc[s] = "requeuing" /\ pc'[s] = "retiring" /\ UNCHANGED <<hidden, poolVars, task>>
          /\ task[s].held \in Jobs /\ visible' = [visible EXCEPT ![task[s].held] = @ + 1]
      BY <1>7 DEF RequeueLands, HeldOK
    <2>2. PICK j \in Jobs : j = task[s].held
      BY <2>1
    <2>3. Copies(j)' <= Copies(j) + 1 /\ \A i \in Jobs \ {j} : Copies(i)' <= Copies(i)
      BY <2>1, <2>2 DEF Copies
    <2>4. IsFiniteSet(Queued') /\ Cardinality(Queued') <= Cardinality(Queued) + 1
      BY <1>b, <2>3, QueueGains
    <2>5. Cardinality(Entered') <= Cardinality(Entered)
      BY <2>1, EntriesKept
    <2>6. Cardinality(Working') <= Cardinality(Working) - 1
      BY <1>b, <2>1, WorkMoves DEF Working
    <2>7. Owed' = Owed
      BY <2>1 DEF Owed, poolVars
    <2> QED
      BY <2>4, <2>5, <2>6, <2>7, <1>b, <1>d, <1>e, Balances
  <1>8. CASE Retire(s)
    <2>1. ServicesFailed' \/ UNCHANGED hidden
      BY <1>8, FaultStrikes DEF Retire, ServicesFailed, FaultKinds
    <2>2. /\ task'[s].entries = task[s].entries /\ pc[s] = "retiring"
          /\ pc'[s] \in {"deciding", "returning"} /\ UNCHANGED <<visible, poolVars>>
      BY <1>a, <1>8 DEF Retire, Task
    <2>3. ~ServicesFailed' => Balanced'
      BY <2>1, <2>2, NothingWeighed DEF Copies
    <2> QED
      BY <2>3 DEF Balanced
  <1>9. CASE Return(s)
    <2>1. task'[s] = FreshTask /\ UNCHANGED queueVars
          /\ pc[s] = "returning" /\ pc'[s] \in {"exited", "submitting"}
      BY <1>9, <1>c, ContinueTyped DEF Return
    <2>2. IsFiniteSet(Queued') /\ Cardinality(Queued') <= Cardinality(Queued)
      BY <1>b, <2>1, QueueKept DEF Copies, queueVars
    <2>3. Cardinality(Working') = Cardinality(Working)
      BY <2>1, WorkMoves DEF Working
    <2>4. CASE task[s].stop = "deferred"
      <3>1. \E j \in Jobs : task[s].entries[j] # "none"
        BY <2>4 DEF Enveloped, Sound
      <3>2. Cardinality(Entered') <= Cardinality(Entered) - 1
        BY <1>b, <2>1, <3>1, EntriesLost
      <3>3. Owed' <= Owed + 1
        BY <1>9, <1>c, <2>4, ContinueOwes DEF Return, Owed
      <3> QED
        BY <2>2, <2>3, <3>2, <3>3, <1>b, <1>d, <1>e, Balances
    <2>5. CASE task[s].stop # "deferred"
      <3>1. Cardinality(Entered') <= Cardinality(Entered)
        BY <1>a, <2>1, EntriesKept
      <3>2. Owed' <= Owed
        BY <1>9, <1>c, <2>5, ContinueOwes DEF Return, Owed
      <3> QED
        BY <2>2, <2>3, <3>1, <3>2, <1>b, <1>d, <1>e, Balances
    <2> QED
      BY <2>4, <2>5
  <1> QED
    BY <1>1, <1>2, <1>3, <1>4, <1>5, <1>6, <1>7, <1>8, <1>9 DEF SlotStep

LEMMA BalancedFault ==
    ASSUME Staged, Staged', Enveloped, InHand, Balanced, [Next]_vars, ~ServicesFailed, ~ServicesFailed',
           NEW s \in Slots, SlotFault(s)
    PROVE  Balanced'
  <1> USE DEF Staged, Typed, TypeOK
  <1>a. task[s] \in Task /\ \A j \in Jobs : FreshTask.entries[j] = "none"
    BY FreshTaskTyped
  <1>b. /\ IsFiniteSet(Queued) /\ Cardinality(Queued) \in Nat /\ Cardinality(Entered) \in Nat
        /\ Cardinality(Working) \in Nat /\ Owed \in Nat
    BY Weighs, FS_CardinalityType DEF Balanced
  <1>c. pendingDeferrals \in Nat
    OBVIOUS
  <1>d. Cardinality(Entered') \in Nat /\ Cardinality(Working') \in Nat /\ Owed' \in Nat
    BY WeighsNext
  <1>e. IsFiniteSet(Queued') => Cardinality(Queued') \in Nat
    BY FS_CardinalityType
  <1>1. ~SubmitRefused(s) /\ ~ReadFails(s) /\ ~RequeueRefused(s) /\ ~WindowTooShort(s)
    <2>1. \A k \in Withholding : ~Fault(k)
      BY FaultStrikes DEF Withholding, ServicesFailed, FaultKinds
    <2> QED
      BY <2>1 DEF SubmitRefused, ReadFails, RequeueRefused, WindowTooShort, Withholding
  <1>2. CASE SubmitFails(s)
    <2>1. task[s] = FreshTask /\ task'[s] = FreshTask /\ UNCHANGED queueVars
          /\ pc[s] = "submitting" /\ pc'[s] \in {"exited", "submitting"}
      BY <1>2, ContinueTyped DEF SubmitFails, StagesOK, WorkerSteps
    <2>2. IsFiniteSet(Queued') /\ Cardinality(Queued') <= Cardinality(Queued)
      BY <1>b, <2>1, QueueKept DEF Copies, queueVars
    <2>3. Cardinality(Entered') <= Cardinality(Entered)
      BY <2>1, EntriesKept
    <2>4. Cardinality(Working') = Cardinality(Working)
      BY <2>1, WorkMoves DEF Working
    <2>5. Owed' <= Owed
      BY <1>2, <1>c, ContinueOwes DEF SubmitFails, Owed
    <2> QED
      BY <2>2, <2>3, <2>4, <2>5, <1>b, <1>d, <1>e, Balances
  \* What a lost task held goes back to the queue, and its entries are lost.
  <1>3. CASE Crash(s)
    <2>1. task'[s] = FreshTask /\ UNCHANGED visible /\ pc'[s] \in {"exited", "submitting"}
      BY <1>3, ContinueTyped DEF Crash
    <2>2. Owed' <= Owed
      BY <1>3, <1>c, ContinueOwes DEF Crash, Owed
    <2>3. Cardinality(Entered') <= Cardinality(Entered)
      BY <1>a, <2>1, EntriesKept
    <2>4. Cardinality(Working') <= Cardinality(Working)
      BY <2>1, WorkMoves DEF Working
    <2>5. CASE ~task[s].live
      <3>1. IsFiniteSet(Queued') /\ Cardinality(Queued') <= Cardinality(Queued)
        BY <1>3, <1>b, <2>1, <2>5, QueueKept DEF Crash, Abandon, Copies
      <3> QED
        BY <3>1, <2>2, <2>3, <2>4, <1>b, <1>d, <1>e, Balances
    <2>6. CASE task[s].live
      <3>1. PICK j \in Jobs : j = task[s].held
        BY <2>6 DEF HeldOK
      <3>2. Copies(j)' <= Copies(j) + 1 /\ \A i \in Jobs \ {j} : Copies(i)' <= Copies(i)
        BY <1>3, <2>1, <2>6, <3>1 DEF Crash, Abandon, Copies
      <3>3. IsFiniteSet(Queued') /\ Cardinality(Queued') <= Cardinality(Queued) + 1
        BY <1>b, <3>2, QueueGains
      <3>4. CASE pc[s] \in {"executing", "requeuing"}
        <4>1. Cardinality(Working') <= Cardinality(Working) - 1
          BY <2>1, <3>4, WorkMoves DEF Working
        <4> QED
          BY <4>1, <3>3, <2>2, <2>3, <1>b, <1>d, <1>e, Balances
      <3>5. CASE pc[s] = "retiring"
        <4>1. \E i \in Jobs : task[s].entries[i] # "none"
          BY <3>5 DEF InHand, HandOK
        <4>2. Cardinality(Entered') <= Cardinality(Entered) - 1
          BY <2>1, <4>1, EntriesLost
        <4> QED
          BY <4>2, <3>3, <2>2, <2>4, <1>b, <1>d, <1>e, Balances
      <3> QED
        BY <2>6, <3>4, <3>5 DEF InHand, HandOK
    <2> QED
      BY <2>5, <2>6
  <1> QED
    BY <1>1, <1>2, <1>3 DEF SlotFault

LEMMA BalancedNext == Staged /\ Enveloped /\ InHand /\ Balanced /\ [Next]_vars => Balanced'
  <1> SUFFICES ASSUME Staged, Enveloped, InHand, Balanced, [Next]_vars, ~ServicesFailed'
               PROVE  Balanced'
    BY DEF Balanced
  <1>1. ~ServicesFailed /\ Staged'
    BY FaultsStand, StagedNext DEF ServicesFailed, FaultKinds, Staged
  <1>2. ASSUME NEW s \in Slots, SlotStep(s) \/ SlotFault(s) PROVE Balanced'
    BY <1>1, <1>2, BalancedStep, BalancedFault
  <1>3. ASSUME NEW j \in Jobs, TtlEnds(j) PROVE FALSE
    BY <1>3, FaultStrikes DEF TtlEnds, ServicesFailed, FaultKinds, Staged
  <1>4. CASE (\E j \in Jobs : WindowEnds(j)) \/ Settle \/ UNCHANGED vars
    <2>1. UNCHANGED <<poolVars, task, pc>>
      BY <1>4 DEF WindowEnds, Settle, vars, poolVars
    <2>2. \A j \in Jobs : Copies(j)' <= Copies(j)
      <3>1. ASSUME NEW i \in Jobs, WindowEnds(i) PROVE \A j \in Jobs : Copies(j)' <= Copies(j)
        BY <3>1 DEF WindowEnds, Copies, Staged, Typed, TypeOK
      <3>2. CASE Settle \/ UNCHANGED vars
        BY <3>2 DEF Settle, vars, queueVars, Copies, Staged, Typed, TypeOK
      <3> QED
        BY <1>4, <3>1, <3>2
    <2>3. IsFiniteSet(Queued') /\ Cardinality(Queued') <= Cardinality(Queued)
      BY <1>1, <2>2, QueueKept DEF Balanced, Staged
    <2>4. Entered' = Entered /\ Working' = Working /\ Owed' = Owed
      BY <2>1 DEF Entered, Working, Owed, poolVars
    <2>5. Cardinality(Queued) \in Nat /\ Cardinality(Queued') \in Nat
      BY <1>1, <2>3, FS_CardinalityType DEF Balanced
    <2> QED
      BY <1>1, <2>3, <2>4, <2>5, Weighs, Balances DEF Staged
  <1> QED
    BY <1>2, <1>3, <1>4 DEF Next, Settled

LEMMA BalancedInit == Init => Balanced
  <1> SUFFICES ASSUME Init PROVE Balanced
    OBVIOUS
  <1> DEFINE copy == [j \in Jobs |-> <<j, 1>>]
  <1>1. Queued = {x \in Jobs \X Nat : x[2] = 1}
    BY DEF Init, Queued, Copies
  <1>2. copy \in Surjection(Jobs, Queued)
    BY <1>1 DEF Surjection
  <1>3. IsFiniteSet(Queued) /\ Cardinality(Queued) <= Cardinality(Jobs)
    BY <1>2, FS_Surjection, JobsAssumption
  <1>4. Entered = {}
    BY FreshTaskTyped DEF Init, Entered
  <1>5. Working = {}
    BY DEF Init, Working
  <1>6. Owed = 0
    <2>1. Cardinality(Jobs) \in Nat
      BY FS_CardinalityType, JobsAssumption
    <2>2. launched <= TaskCount /\ TaskCount \in Nat /\ launched \in Nat /\ pendingDeferrals = 0
      BY <2>1, TaskCountAssumption DEF Init, SlotCount, MAX_TASKS_PER_PLACE
    <2> QED
      BY <2>2 DEF Owed, Beyond
  <1>7. Cardinality(Entered) = 0 /\ Cardinality(Working) = 0
    BY <1>4, <1>5, FS_EmptySet
  <1>8. Cardinality(Queued) \in Nat /\ Cardinality(Jobs) \in Nat
    BY <1>3, JobsAssumption, FS_CardinalityType
  <1> QED
    BY <1>3, <1>6, <1>7, <1>8 DEF Balanced

LEMMA BudgetAnswersDeferrals == Typed /\ DeferralsClaimed /\ Balanced => LaunchBudgetSuffices
  <1> SUFFICES ASSUME Typed, DeferralsClaimed, Balanced, ~ServicesFailed, pendingDeferrals # 0
               PROVE  FALSE
    BY DEF LaunchBudgetSuffices
  <1>1. Cardinality(Jobs) \in Nat /\ TaskCount \in Nat /\ pendingDeferrals \in Nat
    BY TaskCountAssumption, JobsAssumption, FS_CardinalityType DEF Typed, TypeOK
  <1>2. launched = TaskCount + Cardinality(Jobs)
    BY <1>1 DEF DeferralsClaimed, MaxLaunches
  <1>3. Owed = pendingDeferrals + Cardinality(Jobs)
    BY <1>1, <1>2 DEF Owed, Beyond
  <1>4. Cardinality(Queued) \in Nat
    BY FS_CardinalityType DEF Balanced
  <1> QED
    BY <1>1, <1>3, <1>4, Weighs DEF Balanced

-----------------------------------------------------------------------------
(* Nothing is missing.                                                     *)

\* Slot s will go on reading, or will bring a task that does.
Serving(s) == \/ pc[s] \in {"submitting", "deciding", "reading", "executing", "requeuing", "retiring"}
              \/ pc[s] = "returning" /\ task[s].stop = "deferred"

\* What a run that ends "missing" does not have for its excuse.
Excused == \/ ServicesFailed \/ Loud \/ bailed
           \/ \E s \in Slots : task[s].stop = "bailed"

\* As long as the queue has something to read someone will read it, and nothing is
\* hidden from everyone for good.
Served ==
    /\ \/ Excused
       \/ \A j \in Jobs : visible[j] = 0
       \/ \E s \in Slots : Serving(s)
    /\ ServicesFailed \/ Loud \/ \A j \in Jobs : hidden[j] = 0

LEMMA ExcusesHold == Staged /\ [Next]_vars /\ Excused => Excused'
  <1> SUFFICES ASSUME Staged, [Next]_vars, Excused PROVE Excused'
    OBVIOUS
  <1> USE DEF Staged, Typed, TypeOK
  <1>1. (ServicesFailed => ServicesFailed') /\ (Loud => Loud')
    BY FaultsStand, ExcusesStand DEF ServicesFailed, FaultKinds
  <1>2. bailed => bailed'
    <2>1. ASSUME NEW s \in Slots, SlotStep(s), ~Return(s) PROVE UNCHANGED bailed
      <3>1. CASE Submitted(s) \/ BackoffEnds(s)
        BY <3>1 DEF Submitted, BackoffEnds, cliVars
      <3>2. CASE StopsOnBail(s) \/ StopsOnBudget(s) \/ GoesOn(s) \/ ReadsEmpty(s)
        BY <3>2 DEF StopsOnBail, StopsOnBudget, GoesOn, ReadsEmpty, cliVars
      <3>3. CASE Drop(s) \/ RequeueLands(s) \/ Retire(s) \/ \E j \in Jobs : Read(s, j)
        BY <3>3 DEF Drop, RequeueLands, Retire, Read, cliVars
      <3>4. CASE \E v \in Verdicts : Commit(s, v)
        BY <3>4 DEF Commit, cliVars
      <3> QED
        BY <2>1, <3>1, <3>2, <3>3, <3>4 DEF SlotStep
    <2>2. \A s \in Slots : Return(s) => (bailed => bailed')
      BY DEF Return
    <2>3. \A s \in Slots : SlotFault(s) => UNCHANGED bailed
      BY DEF SlotFault, SubmitRefused, SubmitFails, ReadFails, RequeueRefused,
         WindowTooShort, Crash, cliVars
    <2>4. (\E j \in Jobs : WindowEnds(j) \/ TtlEnds(j)) \/ Settle \/ UNCHANGED vars => UNCHANGED bailed
      BY DEF WindowEnds, TtlEnds, Settle, vars, cliVars
    <2> QED
      BY <2>1, <2>2, <2>3, <2>4 DEF Next, Settled
  <1>3. ASSUME NEW s \in Slots, task[s].stop = "bailed" PROVE Excused'
    <2>0. task[s] \in Task /\ task[s] # FreshTask
      BY <1>3 DEF FreshTask
    <2>1. ASSUME SlotStep(s) PROVE Excused'
      <3>1. pc[s] \notin WorkerSteps /\ pc[s] \notin {"deciding", "reading", "executing"}
        BY <1>3, <2>0 DEF StagesOK
      <3>2. CASE RequeueLands(s) \/ Retire(s)
        <4>1. task'[s].stop = task[s].stop
          BY <2>0, <3>2 DEF RequeueLands, Retire, Task
        <4> QED
          BY <1>3, <4>1 DEF Excused
      <3>3. CASE Return(s)
        BY <1>3, <3>3 DEF Return, Excused
      <3>4. RequeueLands(s) \/ Retire(s) \/ Return(s)
        BY <2>1, <3>1 DEF SlotStep, Submitted, BackoffEnds, StopsOnBail, StopsOnBudget, GoesOn,
           ReadsEmpty, Read, Drop, Commit, WorkerSteps
      <3> QED
        BY <3>2, <3>3, <3>4
    <2>2. ASSUME SlotFault(s) PROVE Excused'
      <3>1. ~SubmitRefused(s) /\ ~SubmitFails(s)
        BY <2>0 DEF SubmitRefused, SubmitFails, StagesOK, WorkerSteps
      <3>2. CASE ReadFails(s) \/ WindowTooShort(s) \/ RequeueRefused(s)
        <4>1. task'[s].stop = task[s].stop
          <5>1. CASE ReadFails(s) \/ WindowTooShort(s)
            BY <2>0, <5>1 DEF ReadFails, WindowTooShort, Task
          <5>2. CASE RequeueRefused(s)
            BY <2>0, <5>2 DEF RequeueRefused, Task
          <5> QED
            BY <3>2, <5>1, <5>2
        <4> QED
          BY <1>3, <4>1 DEF Excused
      <3>3. CASE Crash(s)
        <4>1. s # NoSlot
          BY SlotsAreNumbered DEF Slots, NoSlot
        <4> QED
          BY <3>3, <4>1 DEF Crash, Loud, Excused
      <3> QED
        BY <2>2, <3>1, <3>2, <3>3 DEF SlotFault
    <2>3. ASSUME NEW r \in Slots \ {s}, SlotStep(r) \/ SlotFault(r) PROVE Excused'
      BY <1>3, <2>3, OneSlot DEF Excused
    <2>4. CASE (\E i \in Jobs : WindowEnds(i) \/ TtlEnds(i)) \/ Settle \/ UNCHANGED vars
      BY <1>3, <2>4 DEF WindowEnds, TtlEnds, Settle, vars, Excused
    <2> QED
      BY <2>1, <2>2, <2>3, <2>4 DEF Next, Settled
  <1> QED
    BY <1>1, <1>2, <1>3 DEF Excused

\* What one slot's step has to see to: that it still serves if it did.
LEMMA SlotServes ==
    ASSUME Staged, Served, [Next]_vars, NEW s \in Slots, SlotStep(s) \/ SlotFault(s),
           \/ Excused' \/ Serving(s)'
           \/ \A j \in Jobs : visible'[j] = 0
           \/ ~Serving(s) /\ UNCHANGED visible
    PROVE  Excused' \/ (\A j \in Jobs : visible'[j] = 0) \/ \E r \in Slots : Serving(r)'
  <1>1. \A r \in Slots \ {s} : Serving(r) => Serving(r)'
    BY OneSlot DEF Serving, Staged
  <1> QED
    BY <1>1, ExcusesHold DEF Served

LEMMA ServedNext ==
    Staged /\ InHand /\ Served /\ LaunchBudgetSuffices' /\ [Next]_vars => Served'
  <1> SUFFICES ASSUME Staged, InHand, Served, LaunchBudgetSuffices', [Next]_vars PROVE Served'
    OBVIOUS
  <1> USE DEF Staged, Typed, TypeOK
  <1>a. (ServicesFailed => ServicesFailed') /\ (Loud => Loud')
    BY FaultsStand, ExcusesStand DEF ServicesFailed, FaultKinds
  <1>b. \A k \in Withholding : Fault(k) => ServicesFailed'
    BY FaultStrikes DEF Withholding, ServicesFailed, FaultKinds
  <1>c. \A s \in Slots : task[s] \in Task /\ s # NoSlot
    BY SlotsAreNumbered DEF Slots, NoSlot
  <1>1. ASSUME NEW s \in Slots, SlotStep(s) PROVE Served'
    <2>1. ServicesFailed' \/ Loud' \/ \A j \in Jobs : hidden'[j] = 0
      <3>1. ASSUME ~Retire(s) PROVE UNCHANGED hidden
        <4>1. CASE Submitted(s) \/ BackoffEnds(s) \/ Return(s)
          BY <4>1 DEF Submitted, BackoffEnds, Return, queueVars
        <4>2. CASE StopsOnBail(s) \/ StopsOnBudget(s) \/ GoesOn(s) \/ ReadsEmpty(s)
          BY <4>2 DEF StopsOnBail, StopsOnBudget, GoesOn, ReadsEmpty, queueVars
        <4>3. CASE Drop(s) \/ RequeueLands(s) \/ \E j \in Jobs : Read(s, j)
          BY <4>3 DEF Drop, RequeueLands, Read, queueVars
        <4>4. CASE \E v \in Verdicts : Commit(s, v)
          BY <4>4 DEF Commit, queueVars
        <4> QED
          BY <1>1, <3>1, <4>1, <4>2, <4>3, <4>4 DEF SlotStep
      <3>2. Retire(s) => ServicesFailed' \/ UNCHANGED hidden
        BY <1>b DEF Retire, Withholding
      <3> QED
        BY <1>a, <3>1, <3>2 DEF Served
    <2>2. \/ Excused' \/ Serving(s)'
          \/ \A j \in Jobs : visible'[j] = 0
          \/ ~Serving(s) /\ UNCHANGED visible
      <3>1. CASE Submitted(s) \/ GoesOn(s) \/ Drop(s) \/ RequeueLands(s) \/ \E j \in Jobs : Read(s, j)
        <4>1. pc'[s] \in {"deciding", "reading", "executing", "requeuing", "retiring"}
          BY <3>1 DEF Submitted, GoesOn, Drop, RequeueLands, Read
        <4> QED
          BY <4>1 DEF Serving
      <3>2. CASE \E v \in Verdicts : Commit(s, v)
        <4>1. pc'[s] = "retiring"
          BY <3>2 DEF Commit
        <4> QED
          BY <4>1 DEF Serving
      <3>3. CASE BackoffEnds(s)
        BY <3>3 DEF BackoffEnds, Serving, queueVars
      <3>4. CASE StopsOnBail(s)
        <4>1. task'[s].stop = "bailed"
          BY <1>c, <3>4 DEF StopsOnBail, Task
        <4> QED
          BY <4>1 DEF Excused
      <3>5. CASE StopsOnBudget(s)
        <4>1. task'[s].stop = "deferred" /\ pc'[s] = "returning"
          BY <1>c, <3>5 DEF StopsOnBudget, Task
        <4> QED
          BY <4>1 DEF Serving
      <3>6. CASE ReadsEmpty(s)
        BY <3>6 DEF ReadsEmpty, queueVars
      <3>7. CASE Retire(s)
        <4>1. /\ task'[s].stop = task[s].stop
              /\ pc'[s] = IF task[s].stop = "none" THEN "deciding" ELSE "returning"
          BY <1>c, <3>7 DEF Retire, Task
        <4>2. task[s].stop \in {"none", "bailed", "deferred"}
          BY <1>c DEF Task
        <4> QED
          BY <4>1, <4>2 DEF Serving, Excused
      <3>8. CASE Return(s)
        <4>1. CASE task[s].stop = "deferred"
          <5>1. Continue(s, pendingDeferrals + 1)
            BY <3>8, <4>1 DEF Return
          <5>2. CASE PoolDone(launched, pendingDeferrals + 1)
            <6>1. pendingDeferrals' > 0
              BY <5>1, <5>2 DEF Continue
            <6> QED
              BY <6>1 DEF LaunchBudgetSuffices, Excused
          <5>3. CASE ~PoolDone(launched, pendingDeferrals + 1)
            <6>1. pc'[s] = "submitting"
              BY <5>1, <5>3 DEF Continue
            <6> QED
              BY <6>1 DEF Serving
          <5> QED
            BY <5>2, <5>3
        <4>2. CASE task[s].stop # "deferred"
          BY <3>8, <4>2 DEF Return, Serving, queueVars
        <4> QED
          BY <4>1, <4>2
      <3> QED
        BY <1>1, <3>1, <3>2, <3>3, <3>4, <3>5, <3>6, <3>7, <3>8 DEF SlotStep
    <2> QED
      BY <1>1, <2>1, <2>2, SlotServes DEF Served
  <1>2. ASSUME NEW s \in Slots, SlotFault(s) PROVE Served'
    <2>1. SubmitRefused(s) \/ ReadFails(s) \/ RequeueRefused(s) \/ WindowTooShort(s) => ServicesFailed'
      BY <1>b DEF SubmitRefused, ReadFails, RequeueRefused, WindowTooShort, Withholding
    <2>2. SubmitFails(s) \/ Crash(s) => Loud'
      BY <1>c DEF SubmitFails, Crash, Loud
    <2> QED
      BY <1>2, <2>1, <2>2 DEF SlotFault, Served, Excused
  <1>3. ASSUME NEW j \in Jobs, WindowEnds(j) PROVE Served'
    <2>1. ServicesFailed \/ Loud
      BY <1>3 DEF WindowEnds, Served
    <2> QED
      BY <1>a, <2>1 DEF Served, Excused
  <1>4. ASSUME NEW j \in Jobs, TtlEnds(j) PROVE Served'
    BY <1>4, <1>b DEF TtlEnds, Withholding, Served, Excused
  <1>5. CASE Settle \/ UNCHANGED vars
    <2>1. UNCHANGED <<visible, hidden, pc, task>>
      BY <1>5 DEF Settle, vars, queueVars
    <2> QED
      BY <1>a, <2>1, ExcusesHold DEF Served, Serving
  <1> QED
    BY <1>1, <1>2, <1>3, <1>4, <1>5 DEF Next, Settled

LEMMA ServedInit == Init => Served
  <1> SUFFICES ASSUME Init PROVE Served
    OBVIOUS
  <1>1. Cardinality(Jobs) \in Nat /\ Jobs # {}
    BY FS_CardinalityType, JobsAssumption
  <1>2. 1 \in Slots
    BY <1>1, TaskCountAssumption DEF Slots, SlotCount, MAX_TASKS_PER_PLACE
  <1>3. Serving(1)
    BY <1>2 DEF Init, Serving
  <1> QED
    BY <1>2, <1>3 DEF Init, Served

LEMMA ServedMissesNothing ==
    Staged /\ SettledOK /\ Served /\ JobsAccounted /\ NothingMissing /\ [Next]_vars => NothingMissing'
  <1> SUFFICES ASSUME Staged, SettledOK, Served, JobsAccounted, NothingMissing, [Next]_vars,
                      outcome' = "missing"
               PROVE  ServicesFailed'
    BY DEF NothingMissing
  <1>0. ServicesFailed => ServicesFailed'
    BY FaultsStand DEF ServicesFailed, FaultKinds, Staged
  <1>1. CASE Settle
    <2>1. \A s \in Slots : task[s] = FreshTask /\ pc[s] = "exited"
      BY <1>1, NothingOnItsWay DEF Settle
    <2>2. ~Loud /\ ~bailed /\ \E j \in Jobs : collected[j] = "none"
      BY <1>1 DEF Settle, Loud
    <2>3. PICK j \in Jobs : collected[j] = "none"
      BY <2>2
    <2>4. FreshTask.entries[j] = "none" /\ FreshTask.stop = "none"
      BY FreshTaskTyped DEF FreshTask
    <2>5. visible[j] > 0 \/ hidden[j] > 0 \/ Struck({"ttl"})
      BY <2>1, <2>2, <2>3, <2>4 DEF JobsAccounted, Answers
    <2>6. ~ServicesFailed => \A i \in Jobs : visible[i] = 0 /\ hidden[i] = 0
      BY <2>1, <2>2, <2>4 DEF Served, Excused, Serving
    <2>7. Struck({"ttl"}) => ServicesFailed
      BY DEF Struck, ServicesFailed
    <2> QED
      BY <1>0, <2>5, <2>6, <2>7
  <1>2. ASSUME NEW s \in Slots, SlotStep(s) \/ SlotFault(s) PROVE FALSE
    BY <1>2, StepsNeedARun
  <1>3. ASSUME NEW i \in Jobs, WindowEnds(i) \/ TtlEnds(i) PROVE FALSE
    BY <1>3 DEF WindowEnds, TtlEnds
  <1>4. CASE UNCHANGED vars
    BY <1>0, <1>4 DEF vars, NothingMissing
  <1> QED
    BY <1>1, <1>2, <1>3, <1>4 DEF Next, Settled

-----------------------------------------------------------------------------
(* A run is whole.                                                         *)

\* A job is in one place at a time and reported once unless a task was lost, a queue
\* call failed or a window was too short, for any number of tasks and jobs: an item is
\* put back before its read is retired, and retired after its entry is kept.
THEOREM EachJobOnce == Spec => []OneCopy
  <1> DEFINE Inv == Staged /\ Enveloped /\ InHand /\ Apart
  <1>1. Init => Inv
    BY StagedInit, FreshTaskSound, InHandInit, ApartInit DEF Init, Enveloped
  <1>2. Inv /\ [Next]_vars => Inv'
    BY StagedNext, EnvelopedNext, InHandNext, ApartNext
  <1>3. Inv => OneCopy
    BY ApartIsOneCopy DEF Staged
  <1> QED
    BY <1>1, <1>2, <1>3, PTL DEF Spec

\* What a run announces it can show: each streamed summary, a failure behind each bail
\* and one entry for each job (publishEntry, Bail.observe, collectStealingResults).
THEOREM AnnouncementsAreTrue == Spec => []ReportsAreTrue
  <1> DEFINE Inv == /\ Staged /\ Enveloped /\ InHand /\ Apart /\ SettledOK
                    /\ Announced /\ BailKnown /\ StreamedIsReported /\ BailHasFailure
  <1>1. Init => Inv
    <2> SUFFICES ASSUME Init PROVE Inv
      OBVIOUS
    <2>1. Staged /\ Enveloped /\ InHand /\ Apart
      BY StagedInit, FreshTaskSound, InHandInit, ApartInit DEF Init, Enveloped
    <2>2. SettledOK /\ Announced /\ StreamedIsReported /\ BailHasFailure
      BY DEF Init, SettledOK, Announced, StreamedIsReported, BailHasFailure
    <2>3. BailKnown
      BY DEF Init, FreshTask, BailKnown, Struck, FaultKinds
    <2> QED
      BY <2>1, <2>2, <2>3
  <1>2. Inv /\ [Next]_vars => Inv'
    BY StagedNext, EnvelopedNext, InHandNext, ApartNext, SettledNext, AnnouncedNext, BailKnownNext,
       AnnouncedIsReported, BailIsReported DEF Staged
  <1>3. Inv => StreamedIsReported /\ BailHasFailure
    OBVIOUS
  <1> QED
    BY <1>1, <1>2, <1>3, EachJobOnce, PTL DEF Spec, ReportsAreTrue

\* With the services behaving the launch budget answers every deferral, so that the
\* queue is drained and no job is missing: the weight of what is left to do, which a
\* deferral is paid from with an entry, never exceeds the number of jobs
\* (runStealingTasksAsync, collectStealingResults).
THEOREM DeferralsLeaveNothing == Spec => []DeferralsSuffice
  <1> DEFINE Inv == Staged /\ Enveloped /\ InHand /\ Balanced
  <1>1. Init => Inv
    BY StagedInit, FreshTaskSound, InHandInit, BalancedInit DEF Init, Enveloped
  <1>2. Inv /\ [Next]_vars => Inv'
    BY StagedNext, EnvelopedNext, InHandNext, BalancedNext
  <1>3. Inv /\ DeferralsClaimed => LaunchBudgetSuffices
    BY BudgetAnswersDeferrals DEF Staged
  <1>4. Spec => [](Inv /\ LaunchBudgetSuffices /\ JobsAccounted)
    BY <1>1, <1>2, <1>3, EveryDeferralClaimed, NoJobLost, PTL DEF Spec
  <1> DEFINE Whole == Served /\ SettledOK /\ NothingMissing
  <1>5. Init => Whole
    BY ServedInit DEF Init, SettledOK, NothingMissing
  <1>6. Inv /\ JobsAccounted /\ LaunchBudgetSuffices' /\ Whole /\ [Next]_vars => Whole'
    BY ServedNext, SettledNext, ServedMissesNothing DEF Staged
  <1> QED
    BY <1>4, <1>5, <1>6, PTL DEF Spec, DeferralsSuffice

\* A run is complete where nothing failed and true to what it announced, for any
\* jobs, tasks, sizes and faults.
THEOREM RunsAreWhole == Spec => []RunIsWhole
  BY DeferralsLeaveNothing, AnnouncementsAreTrue, PTL DEF RunIsWhole

=============================================================================
