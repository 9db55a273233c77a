---------------------- MODULE ExecutionRecovery_proofs ----------------------
(***************************************************************************)
(* Proofs about ExecutionRecovery, for every number of UpdateAsync calls a *)
(* task may make.  Held is the argument for at-most-once: while the start  *)
(* window is open the key names the only task that can have run, and once  *)
(* it has shut no task is granted anything.  Evidence ties what observers  *)
(* report to what the tasks did, and Armings bounds the arms of the watch. *)
(* Counted ties the arms to the creates that were accepted, which is what  *)
(* a hedge goes by.                                                        *)
(***************************************************************************)
EXTENDS ExecutionRecovery, FiniteSetTheorems, TLAPS

\* The key and the runs it admits.
Held ==
    /\ window = "open" => \A t \in ran : claim = t
    /\ \A t, u \in ran : t = u
    /\ \A t \in ran : task[t] \notin {"absent", "claiming"}
    /\ \A t \in Tasks : task[t] \in {"running", "result"} => t \in ran
    /\ \A t \in Tasks : task[t] \in {"absent", "claiming"} => tries[t] > 0

\* A result that was observed is the result of a task that ran.
Evidence ==
    /\ \A t \in Tasks : seen[t] = "result" \/ reread[t] = "result" => t \in ran
    /\ ~Done => answer = NoAnswer

\* The first submission and its rescue are the only ones the watch can arm for,
\* and it arms for one of them: a create that was accepted is not rescued.
Armings ==
    /\ generation \in {FirstArm, FirstArm + 1}
    /\ seen["original"] = "creating"
         => seen["originalRescue"] = "unsent" /\ generation = FirstArm
    /\ seen["originalRescue"] = "creating"
         => seen["original"] = "uncertain" /\ generation = FirstArm
    /\ pc = "race" => seen["second"] = "unsent" /\ seen["secondRescue"] = "unsent"
    /\ rescued = {} => seen["originalRescue"] = "unsent" /\ seen["secondRescue"] = "unsent"
    /\ "second" \in rescued => seen["second"] # "unsent"
    /\ armed = TRUE => generation > 0
    /\ reads[0] = "unsent"

-----------------------------------------------------------------------------
LEMMA TasksNamed ==
    /\ Tasks = {"original", "second", "originalRescue", "secondRescue"}
    /\ RescueOf["original"] = "originalRescue" /\ RescueOf["second"] = "secondRescue"
    /\ \A a \in Attempts : RescueOf[a] \in Tasks /\ RescueOf[a] \notin Attempts
  <1>1. RescueOf["original"] = "originalRescue" /\ RescueOf["second"] = "secondRescue"
    BY DEF RescueOf
  <1>2. Attempts = {"original", "second"}
    BY DEF Attempts
  <1>3. Rescues = {"originalRescue", "secondRescue"}
    BY <1>1, <1>2 DEF Rescues
  <1> QED
    BY <1>1, <1>2, <1>3, SubmissionsAssumption

LEMMA FourTasks ==
    /\ "original" \in Tasks /\ "second" \in Tasks
    /\ "originalRescue" \in Tasks /\ "secondRescue" \in Tasks
  BY TasksNamed

LEMMA NoOtherNames == NoTask \notin Tasks /\ NoAnswer \notin Tasks /\ Failed \notin Tasks
  BY TasksNamed, NoTaskAssumption DEF NoAnswer, Failed

-----------------------------------------------------------------------------
(* At most one task runs: an argument about the tasks and the key alone.   *)

\* Whatever the CLI does to the tasks of an execution is to create one.
LEMMA ClaimSide ==
    ASSUME [Next]_vars
    PROVE  \/ UNCHANGED claimVars
           \/ \E t \in Tasks : Create(t) \/ TaskStep(t)
           \/ WindowShuts \/ ClaimExpires
  <1>1. CASE UNCHANGED vars
    BY <1>1 DEF vars
  <1>2. CASE RobloxStep
    BY <1>2 DEF RobloxStep
  <1>3. CASE WatchStep
    BY <1>3 DEF WatchStep, WatchFires, ClaimRead, WatchAnswers
  <1>4. ASSUME NEW t \in Tasks,
               CreateAccepted(t) \/ CreateRefused(t) \/ CreateUncertain(t) \/ Observe(t) \/ Reread(t)
        PROVE  UNCHANGED claimVars \/ Create(t)
    BY <1>4 DEF CreateAccepted, CreateRefused, CreateUncertain, Observe, Reread
  <1>5. ASSUME NEW a \in Attempts, RereadRescue(a) \/ AttemptWins(a) \/ Recovered(a)
        PROVE  UNCHANGED claimVars
    BY <1>5 DEF RereadRescue, AttemptWins, Recovered
  <1>6. CASE OriginalSettles \/ RaceAgain \/ KeepOriginal \/ Hedge \/ Recover \/ RecoveryFails
    BY <1>6 DEF OriginalSettles, RaceAgain, KeepOriginal, Hedge, Recover, RecoveryFails
  <1> QED
    BY <1>1, <1>2, <1>3, <1>4, <1>5, <1>6 DEF Next, HostStep

LEMMA HeldInit == Init => ClaimTypeOK /\ Held
  BY AttemptsAssumption DEF Init, ClaimInit, ClaimTypeOK, Held, Statuses

LEMMA HeldNext ==
    ASSUME ClaimTypeOK, Held, [Next]_vars
    PROVE  ClaimTypeOK' /\ Held'
  <1>1. CASE UNCHANGED claimVars
    BY <1>1 DEF claimVars, ClaimTypeOK, Held
  <1>2. ASSUME NEW t \in Tasks, Create(t)
        PROVE  ClaimTypeOK' /\ Held'
    BY <1>2 DEF Create, ClaimTypeOK, Held, Statuses
  <1>3. ASSUME NEW t \in Tasks, UpdateGranted(t)
        PROVE  ClaimTypeOK' /\ Held'
    <2>1. ClaimTypeOK'
      BY <1>3 DEF UpdateGranted, ClaimTypeOK, Statuses
    <2>2. t \notin ran
      BY <1>3 DEF UpdateGranted, Held
    <2>3. ran = {}
      BY <1>3, <2>2, NoTaskAssumption DEF UpdateGranted, Grantable, ClaimTypeOK, Held
    <2> QED
      BY <1>3, <2>1, <2>3 DEF UpdateGranted, ClaimTypeOK, Held
  <1>4. ASSUME NEW t \in Tasks, UpdateDeclined(t)
        PROVE  ClaimTypeOK' /\ Held'
    BY <1>4 DEF UpdateDeclined, ClaimTypeOK, Held, Statuses, Answers
  <1>5. ASSUME NEW t \in Tasks, UpdateErrors(t)
        PROVE  ClaimTypeOK' /\ Held'
    <2>1. tries[t] \in 0..ClaimAttempts /\ tries[t] > 0
      BY <1>5 DEF UpdateErrors, ClaimTypeOK, Held
    <2>2. ClaimTypeOK'
      BY <1>5, <2>1, AttemptsAssumption DEF UpdateErrors, ClaimTypeOK, Statuses
    <2>3. window = "open" => \A u \in ran : claim' = u
      BY <1>5, NoTaskAssumption DEF UpdateErrors, Grantable, ClaimTypeOK, Held
    <2> QED
      BY <1>5, <2>2, <2>3 DEF UpdateErrors, ClaimTypeOK, Held
  <1>6. ASSUME NEW t \in Tasks, Finish(t)
        PROVE  ClaimTypeOK' /\ Held'
    BY <1>6 DEF Finish, ClaimTypeOK, Held, Statuses, Answers
  <1>7. CASE WindowShuts
    BY <1>7 DEF WindowShuts, ClaimTypeOK, Held
  <1>8. CASE ClaimExpires
    BY <1>8 DEF ClaimExpires, ClaimTypeOK, Held
  <1> QED
    BY <1>1, <1>2, <1>3, <1>4, <1>5, <1>6, <1>7, <1>8, ClaimSide DEF TaskStep

\* At most one task of an execution runs the test script, whatever its updates,
\* the clock, the retention of the key and the submissions do.
THEOREM AtMostOneRun == Spec => []RunsOnce
  <1>1. ClaimTypeOK /\ Held /\ [Next]_vars => ClaimTypeOK' /\ Held'
    BY HeldNext
  <1>2. ClaimTypeOK /\ Held => RunsOnce
    <2> SUFFICES ASSUME ClaimTypeOK, Held
                 PROVE  RunsOnce
      OBVIOUS
    <2>1. CASE ran = {}
      BY <2>1, FS_EmptySet DEF RunsOnce
    <2>2. CASE ran # {}
      <3>1. PICK t \in ran : ran = {t}
        BY <2>2 DEF Held
      <3>2. Cardinality({t}) = 1
        BY FS_Singleton
      <3> QED
        BY <3>1, <3>2 DEF RunsOnce
    <2> QED
      BY <2>1, <2>2
  <1> QED
    BY HeldInit, <1>1, <1>2, PTL DEF Spec

-----------------------------------------------------------------------------
(* Types, and the bound on the arms of the watch.                          *)

LEMMA TypedInit == Init => TypeOK /\ Armings
  <1> SUFFICES ASSUME Init
               PROVE  TypeOK /\ Armings
    OBVIOUS
  <1>1. ClaimTypeOK
    BY HeldInit
  <1>2. settled \in Seq(Observation \cup {NoObservation}) /\ holding \in DOMAIN settled
    BY DEF Init
  <1>3. seen \in [Tasks -> Observations] /\ reread \in [Tasks -> Rereads]
    BY DEF Init, Observations, Pending, Rereads
  <1>4. reads \in [Generations -> Claims \cup {"unsent", "sent", "delivered"}]
        /\ reads[0] = "unsent" /\ generation \in Generations
    BY DEF Init, Generations, FirstArm
  <1>5. TypeOK
    BY <1>1, <1>2, <1>3, <1>4 DEF Init, TypeOK
  <1>6. seen["original"] = "creating" /\ seen["second"] = "unsent"
        /\ seen["originalRescue"] = "unsent" /\ seen["secondRescue"] = "unsent"
    BY FourTasks DEF Init
  <1>7. generation = FirstArm /\ rescued = {}
    BY DEF Init
  <1>8. armed = TRUE => generation > 0
    <2>1. CASE watchesSubmission = TRUE
      BY <2>1 DEF Init
    <2>2. CASE watchesSubmission = FALSE
      BY <1>7, <2>2 DEF FirstArm
    <2> QED
      BY <2>1, <2>2 DEF Init
  <1>9. Armings
    BY <1>4, <1>6, <1>7, <1>8 DEF Armings
  <1> QED
    BY <1>5, <1>9

LEMMA SubmissionsTyped ==
    ASSUME TypeOK, Armings, ClaimTypeOK', UNCHANGED watchesSubmission, FirstArm' = FirstArm,
           NEW t \in Tasks,
           \/ CreateAccepted(t) \/ CreateRefused(t) \/ CreateUncertain(t)
           \/ Observe(t) \/ Reread(t)
    PROVE  TypeOK' /\ Armings'
  <1> USE FourTasks
  <1>1. CASE CreateAccepted(t)
    <2>1. seen' = [seen EXCEPT ![t] = "polling"] /\ seen[t] = "creating" /\ Arm
          /\ UNCHANGED <<pc, reread, canRescue, rescued, answer>>
      BY <1>1 DEF CreateAccepted
    <2>2. seen' \in [Tasks -> Observations]
      BY <2>1 DEF TypeOK, Observations, Pending
    <2>3. CASE pc = "race"
      <3>1. t = "original" \/ t = "originalRescue"
        BY <2>1, <2>3, TasksNamed DEF Armings
      <3>2. generation' = generation + 1 /\ armed' = TRUE
            /\ UNCHANGED <<reads, settled, holding>>
        BY <2>1, <2>3 DEF Arm
      <3>3. generation = FirstArm /\ FirstArm \in {0, 1}
        BY <2>1, <3>1 DEF Armings, FirstArm
      <3>4. generation' \in Generations
        BY <3>2, <3>3 DEF Generations
      <3>5. TypeOK'
        BY <2>1, <2>2, <3>2, <3>4 DEF TypeOK
      <3>6. seen[t] = "creating" /\ seen'[t] = "polling" /\ \A u \in Tasks \ {t} : seen'[u] = seen[u]
        BY <2>1 DEF TypeOK
      <3>7. Armings'
        <4>1. CASE t = "original"
          BY <2>1, <2>3, <3>2, <3>3, <3>6, <4>1 DEF Armings
        <4>2. CASE t = "originalRescue"
          BY <2>1, <2>3, <3>2, <3>3, <3>6, <4>2 DEF Armings
        <4> QED
          BY <3>1, <4>1, <4>2
      <3> QED
        BY <3>5, <3>7
    <2>4. CASE pc # "race"
      <3>1. UNCHANGED <<generation, armed, reads, settled, holding>>
        BY <2>1, <2>4 DEF Arm, watchVars
      <3>2. TypeOK'
        BY <2>1, <2>2, <3>1 DEF TypeOK
      <3>3. Armings'
        BY <2>1, <2>4, <3>1 DEF Armings, TypeOK
      <3> QED
        BY <3>2, <3>3
    <2> QED
      BY <2>3, <2>4
  <1>2. CASE CreateRefused(t)
    BY <1>2 DEF CreateRefused, watchVars, TypeOK, Armings, Observations, Generations
  <1>3. CASE CreateUncertain(t)
    <2>1. UNCHANGED watchVars /\ UNCHANGED <<pc, answer>> /\ seen[t] = "creating"
      BY <1>3 DEF CreateUncertain
    <2>2. CASE MayRescue(t) /\ ~Done
      <3>1. seen' = [seen EXCEPT ![t] = "uncertain", ![RescueOf[t]] = "creating"]
            /\ rescued' = rescued \cup {t} /\ reread' = [reread EXCEPT ![t] = "reading"]
            /\ canRescue' \in BOOLEAN /\ t \in Attempts
        BY <1>3, <2>2 DEF CreateUncertain, MayRescue, TypeOK
      <3>2. TypeOK'
        BY <2>1, <3>1 DEF watchVars, TypeOK, Observations, Recoverable, Pending, Rereads
      <3>3. CASE t = "original"
        <4>1. RescueOf[t] = "originalRescue" /\ rescued' # {}
          BY <3>1, <3>3, TasksNamed
        <4>2. seen'["original"] = "uncertain" /\ seen'["originalRescue"] = "creating"
              /\ seen'["second"] = seen["second"] /\ seen'["secondRescue"] = seen["secondRescue"]
          BY <3>1, <3>3, <4>1 DEF TypeOK
        <4>3. "second" \in rescued' => "second" \in rescued
          BY <3>1, <3>3
        <4>4. seen["original"] = "creating" /\ pc' = pc
              /\ generation' = generation /\ armed' = armed /\ reads' = reads
          BY <2>1, <3>3 DEF watchVars
        <4> QED
          BY <3>2, <4>1, <4>2, <4>3, <4>4 DEF Armings
      <3>4. CASE t = "second"
        <4>1. RescueOf[t] = "secondRescue" /\ rescued' # {}
          BY <3>1, <3>4, TasksNamed
        <4>2. seen'["second"] = "uncertain" /\ seen'["secondRescue"] = "creating"
              /\ seen'["original"] = seen["original"]
              /\ seen'["originalRescue"] = seen["originalRescue"]
          BY <3>1, <3>4, <4>1 DEF TypeOK
        <4>3. seen["second"] = "creating" /\ pc' = pc
              /\ generation' = generation /\ armed' = armed /\ reads' = reads
          BY <2>1, <3>4 DEF watchVars
        <4> QED
          BY <3>2, <4>1, <4>2, <4>3 DEF Armings
      <3> QED
        BY <3>1, <3>2, <3>3, <3>4 DEF Attempts
    <2>3. CASE ~(MayRescue(t) /\ ~Done)
      <3>1. seen' = [seen EXCEPT ![t] = IF Done THEN "failed" ELSE "uncertain"]
            /\ UNCHANGED <<rescued, reread>> /\ canRescue' \in BOOLEAN
        BY <1>3, <2>3 DEF CreateUncertain, TypeOK
      <3>2. TypeOK'
        BY <2>1, <3>1 DEF watchVars, TypeOK, Observations, Recoverable
      <3>3. Armings'
        BY <2>1, <3>1 DEF watchVars, TypeOK, Armings, Generations
      <3> QED
        BY <3>2, <3>3
    <2> QED
      BY <2>2, <2>3
  <1>4. CASE Observe(t)
    BY <1>4 DEF Observe, Shown, watchVars, TypeOK, Armings, Observations, Recoverable,
                Answers, Generations
  <1>5. CASE Reread(t)
    BY <1>5 DEF Reread, Shown, watchVars, TypeOK, Armings, Rereads, Answers
  <1> QED
    BY <1>1, <1>2, <1>3, <1>4, <1>5

LEMMA WatchTyped ==
    ASSUME TypeOK, Armings, ClaimTypeOK', UNCHANGED watchesSubmission, FirstArm' = FirstArm,
           WatchStep \/ RaceAgain
    PROVE  TypeOK' /\ Armings'
  <1> DEFINE S == Observation \cup {NoObservation}
  <1>1. CurrentSettled \in Seq(S) /\ Len(CurrentSettled) >= Len(settled)
        /\ Len(settled) >= 1
    <2>1. settled \in Seq(S) /\ Len(settled) >= 1
      BY DEF TypeOK
    <2>2. Append(settled, NoObservation) \in Seq(S)
          /\ Len(Append(settled, NoObservation)) = Len(settled) + 1
      BY <2>1
    <2> QED
      BY <2>1, <2>2 DEF CurrentSettled
  <1>2. CASE WatchFires
    <2>1. armed = TRUE /\ armed' = FALSE /\ reads' = [reads EXCEPT ![generation] = "sent"]
          /\ UNCHANGED claimVars /\ UNCHANGED hostVars
          /\ UNCHANGED <<generation, settled, holding>>
      BY <1>2 DEF WatchFires, TypeOK
    <2>2. generation # 0 /\ generation \in Generations
      BY <2>1 DEF Armings, TypeOK
    <2>3. reads' \in [Generations -> Claims \cup {"unsent", "sent", "delivered"}] /\ reads'[0] = "unsent"
      BY <2>1, <2>2 DEF TypeOK, Armings, Generations
    <2>4. TypeOK'
      BY <2>1, <2>3 DEF hostVars, TypeOK
    <2> QED
      BY <2>1, <2>3, <2>4 DEF hostVars, Armings
  <1>3. ASSUME NEW g \in Generations, ClaimRead(g)
        PROVE  TypeOK' /\ Armings'
    BY <1>3 DEF ClaimRead, hostVars, TypeOK, Armings, Generations, Claims
  <1>4. ASSUME NEW g \in Generations, WatchAnswers(g)
        PROVE  TypeOK' /\ Armings'
    <2>1. g # 0 /\ reads[g] \in Claims /\ reads' = [reads EXCEPT ![g] = "delivered"]
          /\ UNCHANGED hostVars /\ UNCHANGED <<generation, armed, holding>>
      BY <1>4 DEF WatchAnswers, Armings, Claims
    <2>2. [generation |-> g, status |-> reads[g]] \in S
      BY <2>1 DEF Observation
    <2>3. settled' \in Seq(S) /\ Len(settled') >= Len(settled)
      <3>1. CASE pc = "race" /\ IsCurrent(g)
        <4>1. settled' = [CurrentSettled EXCEPT ![Len(CurrentSettled)]
                            = [generation |-> g, status |-> reads[g]]]
          BY <1>4, <3>1 DEF WatchAnswers
        <4> QED
          BY <1>1, <2>2, <4>1
      <3>2. CASE ~(pc = "race" /\ IsCurrent(g))
        BY <1>4, <3>2 DEF WatchAnswers, TypeOK
      <3> QED
        BY <3>1, <3>2
    <2>4. holding' \in DOMAIN settled'
      BY <2>1, <2>3 DEF TypeOK
    <2> QED
      BY <2>1, <2>3, <2>4 DEF hostVars, TypeOK, Armings, Generations
  <1>5. CASE RaceAgain
    <2>1. settled' \in Seq(S) /\ holding' \in DOMAIN settled'
      BY <1>1, <1>5 DEF RaceAgain
    <2> QED
      BY <1>5, <2>1 DEF RaceAgain, hostVars, TypeOK, Armings
  <1> QED
    BY <1>2, <1>3, <1>4, <1>5 DEF WatchStep

LEMMA DecisionsTyped ==
    ASSUME TypeOK, Armings, ClaimTypeOK', UNCHANGED watchesSubmission, FirstArm' = FirstArm,
           \/ OriginalSettles \/ KeepOriginal \/ Hedge \/ Recover \/ RecoveryFails
           \/ \E a \in Attempts : RereadRescue(a) \/ AttemptWins(a) \/ Recovered(a)
    PROVE  TypeOK' /\ Armings'
  <1> USE FourTasks
  <1>1. ASSUME NEW a \in Attempts
        PROVE  a \in Tasks /\ SourceOf(a) \in Tasks
    BY TasksNamed DEF SourceOf, Attempts
  <1>2. CASE OriginalSettles
    <2>1. UNCHANGED watchVars /\ UNCHANGED <<reread, canRescue, rescued>>
          /\ pc' \in {"retry", "done"}
          /\ answer' \in Tasks \cup {NoAnswer, Failed}
          /\ seen' \in {seen, [seen EXCEPT !["second"] = "creating"]}
      BY <1>1, <1>2 DEF OriginalSettles, ResolveOriginal, Return, Throw, Attempts, TypeOK
    <2>2. TypeOK'
      BY <2>1 DEF watchVars, TypeOK, Observations, Pending
    <2>3. seen'["second"] \in {seen["second"], "creating"}
          /\ \A t \in Tasks \ {"second"} : seen'[t] = seen[t]
      BY <2>1 DEF TypeOK
    <2>4. seen'["original"] = seen["original"] /\ seen'["originalRescue"] = seen["originalRescue"]
          /\ seen'["secondRescue"] = seen["secondRescue"]
      BY <2>3
    <2>5. generation' = generation /\ armed' = armed /\ reads' = reads /\ rescued' = rescued
      BY <2>1 DEF watchVars
    <2>6. pc' # "race" /\ (seen["second"] # "unsent" => seen'["second"] # "unsent")
      BY <2>1, <2>3
    <2>7. Armings'
      BY <2>4, <2>5, <2>6 DEF Armings
    <2> QED
      BY <2>2, <2>7
  <1>3. CASE KeepOriginal
    BY <1>3 DEF KeepOriginal, watchVars, TypeOK, Armings
  <1>4. CASE Hedge
    BY <1>4 DEF Hedge, watchVars, TypeOK, Armings, Observations, Pending, Generations
  <1>5. CASE Recover
    <2>1. reread' \in [Tasks -> Rereads]
      BY <1>5 DEF Recover, TypeOK, Rereads
    <2> QED
      BY <1>5, <2>1 DEF Recover, watchVars, TypeOK, Armings
  <1>6. CASE RecoveryFails
    BY <1>6 DEF RecoveryFails, Throw, watchVars, TypeOK, Armings
  <1>7. ASSUME NEW a \in Attempts, RereadRescue(a)
        PROVE  TypeOK' /\ Armings'
    BY <1>7 DEF RereadRescue, watchVars, TypeOK, Armings, Rereads
  <1>8. ASSUME NEW a \in Attempts, AttemptWins(a) \/ Recovered(a)
        PROVE  TypeOK' /\ Armings'
    BY <1>1, <1>8 DEF AttemptWins, Recovered, Return, watchVars, TypeOK, Armings
  <1> QED
    BY <1>2, <1>3, <1>4, <1>5, <1>6, <1>7, <1>8

LEMMA TypedNext ==
    ASSUME TypeOK, Held, Armings, [Next]_vars
    PROVE  TypeOK' /\ Armings'
  <1>1. ClaimTypeOK'
    BY HeldNext DEF TypeOK
  <1>4. UNCHANGED watchesSubmission /\ FirstArm' = FirstArm
    BY DEF Next, vars, FirstArm
  <1>2. CASE UNCHANGED vars
    BY <1>1, <1>2, <1>4 DEF vars, hostVars, watchVars, TypeOK, Armings
  <1>3. CASE RobloxStep
    BY <1>1, <1>3, <1>4 DEF RobloxStep, hostVars, watchVars, TypeOK, Armings
  <1> QED
    BY <1>1, <1>2, <1>3, <1>4, SubmissionsTyped, WatchTyped, DecisionsTyped
       DEF Next, HostStep, WatchStep

\* Every reachable state is well typed; in particular the boot watch is armed at
\* most twice, and its reads never outnumber its arms.
THEOREM TypeCorrect == Spec => []TypeOK
  <1>1. Init => TypeOK /\ Held /\ Armings
    BY TypedInit, HeldInit
  <1>2. TypeOK /\ Held /\ Armings /\ [Next]_vars => TypeOK' /\ Held' /\ Armings'
    BY TypedNext, HeldNext DEF TypeOK
  <1> QED
    BY <1>1, <1>2, PTL DEF Spec

-----------------------------------------------------------------------------
(* The execution keeps the promise of OneExecution.                        *)

\* Only a granted update adds to the runs, to the first of them, and it is no
\* step of the CLI.
LEMMA FirstRun ==
    ASSUME ClaimTypeOK, Held, [Next]_vars
    PROVE  \/ ran' = ran
           \/ /\ ran = {} /\ UNCHANGED hostVars
              /\ \E t \in Tasks : ran' = {t}
  <1>1. CASE UNCHANGED claimVars
    BY <1>1 DEF claimVars
  <1>2. ASSUME NEW t \in Tasks, Create(t)
        PROVE  ran' = ran
    BY <1>2 DEF Create
  <1>3. CASE RobloxStep
    <2>1. ASSUME NEW t \in Tasks, UpdateGranted(t)
          PROVE  ran = {} /\ ran' = {t}
      <3>1. ran' = ran \cup {t}
        BY <2>1 DEF UpdateGranted
      <3>2. t \notin ran
        BY <2>1 DEF UpdateGranted, Held
      <3>3. ran = {}
        BY <2>1, <3>2, NoTaskAssumption DEF UpdateGranted, Grantable, ClaimTypeOK, Held
      <3> QED
        BY <3>1, <3>3
    <2>2. UNCHANGED hostVars
      BY <1>3 DEF RobloxStep
    <2>3. ASSUME NEW t \in Tasks, UpdateDeclined(t) \/ UpdateErrors(t) \/ Finish(t)
          PROVE  ran' = ran
      BY <2>3 DEF UpdateDeclined, UpdateErrors, Finish
    <2>4. CASE WindowShuts \/ ClaimExpires
      BY <2>4 DEF WindowShuts, ClaimExpires
    <2> QED
      BY <1>3, <2>1, <2>2, <2>3, <2>4 DEF RobloxStep, TaskStep
  <1>4. CASE WatchStep
    BY <1>1, <1>4 DEF WatchStep, WatchFires, ClaimRead, WatchAnswers
  <1>5. ASSUME HostStep
        PROVE  ran' = ran
    <2>1. ASSUME NEW t \in Tasks,
                 CreateAccepted(t) \/ CreateRefused(t) \/ CreateUncertain(t) \/ Observe(t) \/ Reread(t)
          PROVE  UNCHANGED claimVars \/ Create(t)
      BY <2>1 DEF CreateAccepted, CreateRefused, CreateUncertain, Observe, Reread
    <2>2. ASSUME NEW a \in Attempts, RereadRescue(a) \/ AttemptWins(a) \/ Recovered(a)
          PROVE  UNCHANGED claimVars
      BY <2>2 DEF RereadRescue, AttemptWins, Recovered
    <2>3. CASE OriginalSettles \/ RaceAgain \/ KeepOriginal \/ Hedge \/ Recover \/ RecoveryFails
      BY <1>1, <2>3 DEF OriginalSettles, RaceAgain, KeepOriginal, Hedge, Recover, RecoveryFails,
                        claimVars
    <2> QED
      BY <1>5, <1>2, <2>1, <2>2, <2>3 DEF HostStep, claimVars
  <1> QED
    BY <1>1, <1>3, <1>4, <1>5 DEF Next, vars, claimVars

\* Outputs that resolve an attempt were read off a task that ran.
LEMMA ClaimedSource ==
    ASSUME Evidence, NEW a \in Attempts, Claimed(Outcome(a))
    PROVE  SourceOf(a) \in ran
  <1> DEFINE r == RescueOf[a]
  <1>1. a \in Tasks /\ r \in Tasks
    BY TasksNamed DEF Attempts
  <1>2. CASE a \notin rescued
    BY <1>1, <1>2 DEF Claimed, Outcome, SourceOf, Evidence
  <1>3. CASE a \in rescued /\ reread[a] = "result"
    BY <1>1, <1>3 DEF Claimed, SourceOf, Evidence
  <1>4. CASE a \in rescued /\ reread[a] # "result"
    <2>1. RescueOutcome(a) = "result"
      BY <1>4 DEF Claimed, Outcome
    <2>2. seen[r] = "result" \/ reread[r] = "result"
      BY <1>4, <2>1 DEF RescueOutcome, Claimed
    <2> QED
      BY <1>1, <1>4, <2>2 DEF Claimed, SourceOf, Evidence
  <1> QED
    BY <1>2, <1>3, <1>4

\* The caller gets its answer at most once, and never a result nobody produced.
LEMMA AnswerStep ==
    ASSUME TypeOK, Evidence, HostStep \/ WatchStep
    PROVE  /\ \/ answer' = answer
              \/ ~Done /\ answer' \in ran \cup {Failed}
           /\ ~Done' => ~Done /\ answer' = answer
  <1>1. ASSUME NEW t \in Tasks,
               CreateAccepted(t) \/ CreateRefused(t) \/ CreateUncertain(t) \/ Observe(t) \/ Reread(t)
        PROVE  UNCHANGED <<pc, answer>>
    BY <1>1 DEF CreateAccepted, CreateRefused, CreateUncertain, Observe, Reread
  <1>2. ASSUME NEW a \in Attempts, RereadRescue(a)
        PROVE  UNCHANGED <<pc, answer>>
    BY <1>2 DEF RereadRescue
  <1>3. ASSUME NEW a \in Attempts, AttemptWins(a)
        PROVE  ~Done /\ pc' = "done" /\ answer' \in ran
    BY <1>3, ClaimedSource DEF AttemptWins, Return, Done
  <1>4. ASSUME NEW a \in Attempts, Recovered(a)
        PROVE  ~Done /\ pc' = "done" /\ answer' \in ran
    BY <1>4, TasksNamed DEF Recovered, Claimed, Return, Done, Evidence, Attempts
  <1>5. CASE OriginalSettles
    <2>1. ~Done
      BY <1>5 DEF OriginalSettles, Done
    <2>2. CASE seen["original"] = "timeout"
      BY <1>5, <2>1, <2>2 DEF OriginalSettles, ResolveOriginal, Done
    <2>3. CASE seen["original"] # "timeout"
      <3>1. "original" \in Attempts
        BY DEF Attempts
      <3>2. pc' = "done" /\ answer' \in {SourceOf("original"), Failed}
            /\ (Claimed(Outcome("original")) \/ answer' = Failed)
        BY <1>5, <2>3 DEF OriginalSettles, ResolveOriginal, Return, Throw
      <3> QED
        BY <2>1, <3>1, <3>2, ClaimedSource DEF Done
    <2> QED
      BY <2>2, <2>3
  <1>6. CASE RaceAgain \/ KeepOriginal \/ Hedge \/ Recover
    BY <1>6 DEF RaceAgain, KeepOriginal, Hedge, Recover, hostVars, Done
  <1>7. CASE RecoveryFails
    BY <1>7 DEF RecoveryFails, Throw, Done
  <1>8. CASE WatchStep
    BY <1>8 DEF WatchStep, WatchFires, ClaimRead, WatchAnswers, hostVars, Done
  <1> QED
    BY <1>1, <1>2, <1>3, <1>4, <1>5, <1>6, <1>7, <1>8 DEF HostStep, Done

LEMMA Observed ==
    ASSUME TypeOK, Held, Evidence, HostStep, NEW u \in Tasks
    PROVE  seen'[u] = "result" \/ reread'[u] = "result" => u \in ran
  <1>1. ASSUME UNCHANGED <<seen, reread>>
        PROVE  seen'[u] = "result" \/ reread'[u] = "result" => u \in ran
    BY <1>1 DEF Evidence
  <1>2. ASSUME NEW t \in Tasks, CreateAccepted(t) \/ CreateRefused(t)
        PROVE  seen'[u] = "result" \/ reread'[u] = "result" => u \in ran
    BY <1>2 DEF CreateAccepted, CreateRefused, TypeOK, Evidence
  <1>3. ASSUME NEW t \in Tasks, CreateUncertain(t)
        PROVE  seen'[u] = "result" \/ reread'[u] = "result" => u \in ran
    <2>1. seen' \in { [seen EXCEPT ![t] = "uncertain", ![RescueOf[t]] = "creating"],
                      [seen EXCEPT ![t] = "uncertain"], [seen EXCEPT ![t] = "failed"] }
          /\ reread' \in { reread, [reread EXCEPT ![t] = "reading"] }
      BY <1>3 DEF CreateUncertain
    <2>2. seen'[u] = "result" => seen[u] = "result"
      BY <2>1 DEF TypeOK
    <2>3. reread'[u] = "result" => reread[u] = "result"
      BY <2>1 DEF TypeOK
    <2> QED
      BY <2>2, <2>3 DEF Evidence
  <1>4. ASSUME NEW t \in Tasks, Observe(t)
        PROVE  seen'[u] = "result" \/ reread'[u] = "result" => u \in ran
    <2>1. PICK o \in Shown(t) \cup {"failed", "timeout"} : seen' = [seen EXCEPT ![t] = o]
      BY <1>4 DEF Observe
    <2>2. o = "result" => t \in ran
      BY <2>1 DEF Shown, Held
    <2> QED
      BY <1>4, <2>1, <2>2 DEF Observe, TypeOK, Evidence
  <1>5. ASSUME NEW t \in Tasks, Reread(t)
        PROVE  seen'[u] = "result" \/ reread'[u] = "result" => u \in ran
    <2>1. PICK o \in Shown(t) \cup {"failed"} : reread' = [reread EXCEPT ![t] = o]
      BY <1>5 DEF Reread
    <2>2. o = "result" => t \in ran
      BY <2>1 DEF Shown, Held
    <2> QED
      BY <1>5, <2>1, <2>2 DEF Reread, TypeOK, Evidence
  <1>6. ASSUME NEW a \in Attempts, RereadRescue(a)
        PROVE  seen'[u] = "result" \/ reread'[u] = "result" => u \in ran
    BY <1>6 DEF RereadRescue, TypeOK, Evidence
  <1>7. ASSUME NEW a \in Attempts, AttemptWins(a) \/ Recovered(a)
        PROVE  seen'[u] = "result" \/ reread'[u] = "result" => u \in ran
    BY <1>7, <1>1 DEF AttemptWins, Recovered
  <1>8. CASE OriginalSettles \/ Hedge
    <2>1. seen' \in {seen, [seen EXCEPT !["second"] = "creating"]} /\ reread' = reread
      BY <1>8 DEF OriginalSettles, ResolveOriginal, Hedge
    <2> QED
      BY <2>1 DEF TypeOK, Evidence
  <1>9. CASE RaceAgain \/ KeepOriginal \/ RecoveryFails
    BY <1>9, <1>1 DEF RaceAgain, KeepOriginal, RecoveryFails, hostVars
  <1>10. CASE Recover
    BY <1>10 DEF Recover, TypeOK, Evidence
  <1> QED
    BY <1>2, <1>3, <1>4, <1>5, <1>6, <1>7, <1>8, <1>9, <1>10 DEF HostStep

LEMMA EvidenceNext ==
    ASSUME TypeOK, Held, Evidence, [Next]_vars
    PROVE  Evidence'
  <1>1. ran \subseteq ran'
    BY FirstRun DEF TypeOK
  <1>2. CASE UNCHANGED hostVars
    BY <1>1, <1>2 DEF hostVars, Evidence, Done
  <1>3. CASE HostStep
    BY <1>1, <1>3, Observed, AnswerStep DEF Evidence
  <1> QED
    BY <1>2, <1>3 DEF Next, WatchStep, WatchFires, ClaimRead, WatchAnswers, RobloxStep, vars

\* Recovery implements OneExecution: one task runs, and the caller gets its
\* result or an error, once.  A stalled observer, a duplicate submission, a
\* sentinel or a late answer never adds a run or passes for a result.
THEOREM RecoveryIsOneExecution == Spec => AnswersForTheRun
  <1>1. Init => TypeOK /\ Held /\ Armings /\ Evidence
    BY TypedInit, HeldInit DEF Init, Evidence, Done
  <1>2. TypeOK /\ Held /\ Armings /\ Evidence /\ [Next]_vars
        => (TypeOK /\ Held /\ Armings /\ Evidence)'
    BY TypedNext, HeldNext, EvidenceNext DEF TypeOK
  <1>3. Init => Service!Init
    BY DEF Init, ClaimInit, Service!Init, NoAnswer, Service!NoAnswer
  <1>4. ASSUME TypeOK, Held, Evidence, [Next]_vars
        PROVE  [Service!Next]_<<ran, answer>>
    <2>1. CASE ran' # ran
      <3>1. ran = {} /\ UNCHANGED hostVars /\ \E t \in Tasks : ran' = {t}
        BY <1>4, <2>1, FirstRun DEF TypeOK
      <3> QED
        BY <3>1 DEF hostVars, Service!Next, Service!Run
    <2>2. CASE ran' = ran
      <3>1. CASE HostStep \/ WatchStep
        <4>1. answer' = answer \/ (answer = NoAnswer /\ answer' \in ran \cup {Failed})
          BY <1>4, <3>1, AnswerStep DEF Evidence
        <4> QED
          BY <2>2, <4>1 DEF Service!Next, Service!Settle, NoAnswer, Service!NoAnswer,
                            Failed, Service!Failed
      <3>2. CASE RobloxStep \/ UNCHANGED vars
        BY <2>2, <3>2 DEF RobloxStep, hostVars, vars
      <3> QED
        BY <1>4, <3>1, <3>2 DEF Next
    <2> QED
      BY <2>1, <2>2
  <1> QED
    BY <1>1, <1>2, <1>3, <1>4, PTL DEF Spec, AnswersForTheRun, Service!Spec
-----------------------------------------------------------------------------
(* One rescue, three creates, and a failure only when nothing can answer.  *)

\* The rescue is spent once, on an attempt whose create was ambiguous, and until the
\* caller has its answer it is spent on nothing else.
Spent ==
    /\ canRescue => rescued = {}
    /\ rescued = {} => canRescue \/ Done
    /\ ~("original" \in rescued /\ "second" \in rescued)
    /\ \A a \in Attempts : seen[RescueOf[a]] # "unsent" => a \in rescued
    /\ \A a \in rescued : seen[a] = "uncertain"

\* An attempt that ended without a result, its rescue included.
Ended(a) == Outcome(a) \notin Pending /\ ~Claimed(Outcome(a))

\* A submission nobody needs to hear of again.
Over(t) == /\ seen[t] \notin {"creating", "polling", "result"}
           /\ reread[t] \notin {"reading", "result"}
           /\ seen[t] \in Recoverable => RereadSettled(t)

\* Only what stalled is read again, and a failure is told when all is over.
Quiet ==
    /\ \A t \in Tasks : reread[t] # "idle" => seen[t] \in Recoverable
    /\ pc \in {"race", "await"} =>
         seen["second"] = "unsent" /\ (seen["original"] = "uncertain" => "original" \in rescued)
    /\ pc = "recover" => \A a \in Attempts : Ended(a)
    /\ answer = Failed => \A t \in Tasks : Over(t)

\* At first nothing is spent and nothing is told.
LEMMA SpentInit == Init => Spent /\ Quiet
  <1> SUFFICES ASSUME Init PROVE Spent /\ Quiet
    OBVIOUS
  <1>1. Spent
    BY TasksNamed DEF Init, Spent, Attempts
  <1>2. answer # Failed
    BY DEF Init, NoAnswer, Failed
  <1>3. Quiet
    BY <1>2, FourTasks DEF Init, Quiet
  <1> QED
    BY <1>1, <1>3

\* What the submissions do to the rescue.
LEMMA SpentNext ==
    ASSUME TypeOK, Spent, Quiet, [Next]_vars
    PROVE  Spent'
  <1> USE FourTasks
  <1>1. ASSUME NEW t \in Tasks, CreateAccepted(t) \/ CreateRefused(t) \/ Observe(t)
        PROVE  Spent'
    <2>1. UNCHANGED <<pc, canRescue, rescued>> /\ seen[t] \in {"creating", "polling"}
      BY <1>1 DEF CreateAccepted, CreateRefused, Observe
    <2>2. PICK o : seen' = [seen EXCEPT ![t] = o]
      BY <1>1 DEF CreateAccepted, CreateRefused, Observe
    <2>3. \A u \in Tasks \ {t} : seen'[u] = seen[u]
      BY <2>2 DEF TypeOK
    <2>4. t \notin rescued
      BY <2>1 DEF Spent
    <2>5. \A a \in rescued : seen'[a] = "uncertain"
      BY <2>3, <2>4, TasksNamed DEF Spent, TypeOK, Attempts
    <2>6. \A a \in Attempts : seen'[RescueOf[a]] # "unsent" => a \in rescued
      BY <2>1, <2>3, TasksNamed DEF Spent
    <2> QED
      BY <2>1, <2>5, <2>6 DEF Spent, Done
  <1>2. ASSUME NEW t \in Tasks, CreateUncertain(t)
        PROVE  Spent'
    <2>1. UNCHANGED pc /\ seen[t] = "creating" /\ t \notin rescued
          /\ canRescue' = (canRescue /\ ~MayRescue(t))
      BY <1>2 DEF CreateUncertain, Spent
    <2>2. CASE MayRescue(t) /\ ~Done
      <3>1. seen' = [seen EXCEPT ![t] = "uncertain", ![RescueOf[t]] = "creating"]
            /\ rescued' = rescued \cup {t}
        BY <1>2, <2>2 DEF CreateUncertain
      <3>2. t \in Attempts /\ rescued = {} /\ rescued' = {t}
        BY <2>2, <3>1 DEF MayRescue, Spent
      <3>3. ~canRescue'
        BY <2>1, <2>2
      <3>4. seen'[t] = "uncertain" /\ \A u \in Tasks \ {t, RescueOf[t]} : seen'[u] = seen[u]
        BY <3>1, <3>2, TasksNamed DEF TypeOK
      <3>5. \A a \in Attempts : seen'[RescueOf[a]] # "unsent" => a \in rescued'
        BY <3>2, <3>4, TasksNamed DEF Spent, Attempts
      <3> QED
        BY <3>2, <3>3, <3>4, <3>5 DEF Spent
    <2>3. CASE ~(MayRescue(t) /\ ~Done)
      <3>1. rescued' = rescued /\ \A u \in Tasks \ {t} : seen'[u] = seen[u]
        BY <1>2, <2>3 DEF CreateUncertain, TypeOK
      <3>2. \A a \in rescued : seen'[a] = "uncertain"
        BY <2>1, <3>1, TasksNamed DEF Spent, TypeOK, Attempts
      <3>3. \A a \in Attempts : seen'[RescueOf[a]] # "unsent" => a \in rescued'
        BY <2>1, <3>1, TasksNamed DEF Spent
      <3>4. rescued = {} => canRescue' \/ Done
        BY <2>1, <2>3 DEF Spent
      <3> QED
        BY <2>1, <3>1, <3>2, <3>3, <3>4 DEF Spent, Done
    <2> QED
      BY <2>2, <2>3
  <1>3. CASE OriginalSettles \/ Hedge
    <2>1. UNCHANGED <<canRescue, rescued>> /\ seen' \in {seen, [seen EXCEPT !["second"] = "creating"]}
          /\ pc \in {"race", "await"}
      BY <1>3 DEF OriginalSettles, ResolveOriginal, Hedge
    <2>2. seen["second"] = "unsent"
      BY <2>1 DEF Quiet
    <2>3. \A u \in Tasks \ {"second"} : seen'[u] = seen[u]
      BY <2>1 DEF TypeOK
    <2>4. "second" \notin rescued
      BY <2>2 DEF Spent
    <2>5. \A a \in Attempts : seen'[RescueOf[a]] # "unsent" => a \in rescued
      BY <2>3, TasksNamed DEF Spent, Attempts
    <2>6. \A a \in rescued : seen'[a] = "uncertain"
      BY <2>3, <2>4, TasksNamed DEF Spent, TypeOK, Attempts
    <2> QED
      BY <2>1, <2>5, <2>6 DEF Spent, Done
  <1>4. ASSUME UNCHANGED <<seen, canRescue, rescued>>, Done => Done'
        PROVE  Spent'
    BY <1>4 DEF Spent
  <1>5. ASSUME NEW a \in Attempts, RereadRescue(a) \/ AttemptWins(a) \/ Recovered(a)
        PROVE  Spent'
    BY <1>5, <1>4 DEF RereadRescue, AttemptWins, Recovered, Return, Done
  <1>6. ASSUME NEW t \in Tasks, Reread(t)
        PROVE  Spent'
    BY <1>6, <1>4 DEF Reread, Done
  <1>7. CASE RaceAgain \/ KeepOriginal \/ Recover \/ RecoveryFails
    BY <1>7, <1>4 DEF RaceAgain, KeepOriginal, Recover, RecoveryFails, Throw, hostVars, Done
  <1>8. CASE WatchStep \/ RobloxStep \/ UNCHANGED vars
    BY <1>8, <1>4
       DEF WatchStep, WatchFires, ClaimRead, WatchAnswers, RobloxStep, vars, hostVars, Done
  <1> QED
    BY <1>1, <1>2, <1>3, <1>5, <1>6, <1>7, <1>8 DEF Next, HostStep

\* What it takes for a rescued attempt to have ended.
LEMMA RescueEnded ==
    ASSUME NEW a \in rescued, Ended(a)
    PROVE  /\ reread[a] # "result" /\ RereadSettled(a)
           /\ seen[RescueOf[a]] \notin Pending /\ seen[RescueOf[a]] # "result"
           /\ seen[RescueOf[a]] \in Recoverable =>
                RereadSettled(RescueOf[a]) /\ reread[RescueOf[a]] # "result"
  BY DEF Ended, Outcome, RescueOutcome, Claimed, Pending

\* It stays so while nothing is heard of it.
LEMMA EndedStays ==
    ASSUME NEW a, Ended(a), a \in rescued' <=> a \in rescued, seen'[a] = seen[a],
           a \in rescued => /\ seen'[RescueOf[a]] = seen[RescueOf[a]]
                             /\ reread'[a] = reread[a]
                             /\ reread'[RescueOf[a]] = reread[RescueOf[a]]
    PROVE  Ended(a)'
  BY DEF Ended, Outcome, RescueOutcome, Claimed, RereadSettled

\* Once both attempts have ended no create and no poll is under way.
LEMMA NothingUnderWay ==
    ASSUME TypeOK, Spent, \A a \in Attempts : Ended(a), NEW t \in Tasks
    PROVE  seen[t] \notin {"creating", "polling"}
  <1>1. ASSUME NEW a \in Attempts
        PROVE  /\ seen[a] \notin {"creating", "polling"}
               /\ seen[RescueOf[a]] \notin {"creating", "polling"}
    <2>1. CASE a \in rescued
      BY <2>1, RescueEnded DEF Spent, Pending
    <2>2. CASE a \notin rescued
      <3>1. seen[a] \notin Pending
        BY <2>2 DEF Ended, Outcome
      <3>2. seen[RescueOf[a]] = "unsent"
        BY <2>2 DEF Spent
      <3> QED
        BY <3>1, <3>2 DEF Pending
    <2> QED
      BY <2>1, <2>2
  <1> QED
    BY <1>1, TasksNamed DEF Attempts

\* A failure that is told once an attempt has ended, and the other has or was never sent.
LEMMA EndedIsOver ==
    ASSUME TypeOK, Spent, Quiet, NEW a \in Attempts,
           \/ seen[a] = "unsent"
           \/ Ended(a) /\ (seen[a] \in Recoverable /\ a \notin rescued =>
                              RereadSettled(a) /\ reread[a] # "result")
    PROVE  Over(a) /\ Over(RescueOf[a])
  <1> DEFINE r == RescueOf[a]
  <1>1. a \in Tasks /\ r \in Tasks
    BY TasksNamed DEF Attempts
  <1>2. CASE seen[a] = "unsent"
    <2>1. a \notin rescued /\ seen[r] = "unsent"
      BY <1>2 DEF Spent
    <2>2. reread[a] = "idle" /\ reread[r] = "idle"
      BY <1>1, <1>2, <2>1 DEF Quiet, Recoverable
    <2> QED
      BY <1>2, <2>1, <2>2 DEF Over, Recoverable
  <1>3. CASE seen[a] # "unsent" /\ a \in rescued
    <2>1. seen[a] = "uncertain"
      BY <1>3 DEF Spent
    <2>2. /\ reread[a] # "result" /\ RereadSettled(a)
          /\ seen[r] \notin Pending /\ seen[r] # "result"
          /\ seen[r] \in Recoverable => RereadSettled(r) /\ reread[r] # "result"
      BY <1>3, RescueEnded
    <2>3. seen[r] \notin Recoverable => reread[r] = "idle"
      BY <1>1 DEF Quiet
    <2> QED
      BY <2>1, <2>2, <2>3 DEF Over, Pending, RereadSettled
  <1>4. CASE seen[a] # "unsent" /\ a \notin rescued
    <2>1. seen[a] \notin Pending /\ seen[a] # "result"
      BY <1>4 DEF Ended, Outcome, Claimed
    <2>2. seen[a] \notin Recoverable => reread[a] = "idle"
      BY <1>1 DEF Quiet
    <2>3. seen[r] = "unsent" /\ reread[r] = "idle"
      BY <1>1, <1>4 DEF Spent, Quiet, Recoverable
    <2> QED
      BY <1>4, <2>1, <2>2, <2>3 DEF Over, Pending, RereadSettled, Recoverable
  <1> QED
    BY <1>2, <1>3, <1>4

\* What the steps of the host, of the watch and of the service do to Quiet.
LEMMA QuietNext ==
    ASSUME TypeOK, Evidence, Spent, Quiet, [Next]_vars
    PROVE  Quiet'
  <1> USE FourTasks
  <1>0. Failed \notin Tasks /\ NoAnswer # Failed
    BY NoOtherNames DEF NoAnswer, Failed
  <1>1. ASSUME NEW t \in Tasks, seen[t] \in {"creating", "polling"}
        PROVE  answer # Failed /\ pc # "recover" /\ reread[t] = "idle"
    BY <1>1, NothingUnderWay DEF Quiet, Over, Recoverable
  <1>2. ASSUME NEW t \in Tasks, CreateAccepted(t) \/ CreateRefused(t) \/ Observe(t)
        PROVE  Quiet'
    <2>1. UNCHANGED <<pc, reread, rescued, answer>> /\ seen[t] \in {"creating", "polling"}
      BY <1>2 DEF CreateAccepted, CreateRefused, Observe
    <2>2. PICK o : seen' = [seen EXCEPT ![t] = o] /\ o # "uncertain"
      BY <1>2 DEF CreateAccepted, CreateRefused, Observe, Shown, Answers
    <2>3. \A u \in Tasks \ {t} : seen'[u] = seen[u]
      BY <2>2 DEF TypeOK
    <2>4. seen'[t] # "uncertain"
      BY <2>2 DEF TypeOK
    <2>5. pc \in {"race", "await"} => t # "second"
      BY <2>1 DEF Quiet
    <2> QED
      BY <1>1, <2>1, <2>3, <2>4, <2>5 DEF Quiet
  <1>3. ASSUME NEW t \in Tasks, CreateUncertain(t)
        PROVE  Quiet'
    <2>1. UNCHANGED <<pc, answer>> /\ seen[t] = "creating"
      BY <1>3 DEF CreateUncertain
    <2>2. answer # Failed /\ pc # "recover" /\ reread[t] = "idle" /\ t \notin rescued
      BY <1>1, <2>1 DEF Spent
    <2>3. pc \in {"race", "await"} => t # "second"
      BY <2>1 DEF Quiet
    <2>4. CASE MayRescue(t) /\ ~Done
      <3>1. /\ seen' = [seen EXCEPT ![t] = "uncertain", ![RescueOf[t]] = "creating"]
            /\ rescued' = rescued \cup {t} /\ reread' = [reread EXCEPT ![t] = "reading"]
        BY <1>3, <2>4 DEF CreateUncertain
      <3>2. t \in Attempts /\ seen[RescueOf[t]] = "unsent" /\ RescueOf[t] \in Tasks
            /\ RescueOf[t] # t /\ RescueOf[t] # "second" /\ RescueOf[t] # "original"
        BY <2>2, <2>4, TasksNamed DEF MayRescue, Spent, Attempts
      <3>3. reread[RescueOf[t]] = "idle"
        BY <3>2 DEF Quiet, Recoverable
      <3>4. /\ seen'[t] = "uncertain" /\ seen'[RescueOf[t]] = "creating"
            /\ \A u \in Tasks \ {t, RescueOf[t]} : seen'[u] = seen[u]
            /\ \A u \in Tasks \ {t} : reread'[u] = reread[u]
        BY <3>1, <3>2 DEF TypeOK
      <3>5. \A u \in Tasks : reread'[u] # "idle" => seen'[u] \in Recoverable
        BY <3>2, <3>3, <3>4 DEF Quiet, Recoverable
      <3>6. pc \in {"race", "await"} =>
              seen'["second"] = "unsent" /\ (seen'["original"] = "uncertain" => "original" \in rescued')
        BY <2>3, <3>1, <3>2, <3>4 DEF Quiet
      <3> QED
        BY <2>1, <2>2, <3>5, <3>6 DEF Quiet
    <2>5. CASE ~(MayRescue(t) /\ ~Done)
      <3>1. UNCHANGED <<rescued, reread>> /\ \A u \in Tasks \ {t} : seen'[u] = seen[u]
        BY <1>3, <2>5 DEF CreateUncertain, TypeOK
      <3>2. pc \in {"race", "await"} => t # "original"
        <4> SUFFICES ASSUME pc \in {"race", "await"}, t = "original" PROVE FALSE
          OBVIOUS
        <4>1. rescued # {}
          BY <2>5 DEF MayRescue, Attempts, Spent, Done
        <4>2. "second" \in rescued
          BY <2>2, <4>1 DEF TypeOK, Attempts
        <4> QED
          BY <4>2 DEF Spent, Quiet
      <3> QED
        BY <2>1, <2>2, <2>3, <3>1, <3>2 DEF Quiet
    <2> QED
      BY <2>4, <2>5
  <1>4. ASSUME NEW t \in Tasks, Reread(t)
        PROVE  Quiet'
    <2>1. /\ reread[t] = "reading" /\ UNCHANGED <<pc, seen, rescued, answer>>
          /\ \A u \in Tasks \ {t} : reread'[u] = reread[u]
      BY <1>4 DEF Reread, TypeOK
    <2>2. seen[t] \in Recoverable /\ answer # Failed
      BY <2>1 DEF Quiet, Over
    <2>3. ASSUME NEW a \in Attempts, Ended(a)
          PROVE  Ended(a)'
      <3>1. a \in rescued => a # t /\ RescueOf[a] # t
        BY <2>1, <2>2, <2>3, RescueEnded DEF RereadSettled
      <3>2. a \in Tasks /\ RescueOf[a] \in Tasks
        BY TasksNamed DEF Attempts
      <3> QED
        BY <2>1, <2>3, <3>1, <3>2, EndedStays
    <2> QED
      BY <2>1, <2>2, <2>3 DEF Quiet
  <1>5. ASSUME NEW a \in Attempts, RereadRescue(a)
        PROVE  Quiet'
    <2>1. /\ a \in rescued /\ ~Done /\ seen[RescueOf[a]] \in Recoverable
          /\ reread[RescueOf[a]] = "idle" /\ UNCHANGED <<pc, seen, rescued, answer>>
          /\ reread' = [reread EXCEPT ![RescueOf[a]] = "reading"]
      BY <1>5 DEF RereadRescue
    <2>2. ~Ended(a)
      BY <2>1, RescueEnded DEF RereadSettled
    <2>3. answer # Failed
      BY <1>0, <2>1 DEF Evidence
    <2>4. \A u \in Tasks : reread'[u] # "idle" => seen'[u] \in Recoverable
      BY <2>1 DEF Quiet, TypeOK
    <2> QED
      BY <2>1, <2>2, <2>3, <2>4 DEF Quiet
  <1>6. CASE OriginalSettles
    <2>1. /\ pc \in {"race", "await"} /\ Outcome("original") \notin Pending
          /\ UNCHANGED <<reread, rescued>> /\ pc' \in {"retry", "done"}
      BY <1>6 DEF OriginalSettles, ResolveOriginal, Return, Throw
    <2>2. seen["second"] = "unsent" /\ reread["second"] = "idle"
      BY <2>1 DEF Quiet, Recoverable
    <2>3. CASE seen["original"] = "timeout"
      <3>1. seen' = [seen EXCEPT !["second"] = "creating"] /\ answer' = answer
        BY <1>6, <2>3 DEF OriginalSettles, ResolveOriginal
      <3>2. answer # Failed
        BY <1>0, <2>1 DEF Evidence, Done
      <3>3. \A u \in Tasks : reread'[u] # "idle" => seen'[u] \in Recoverable
        BY <2>1, <2>2, <3>1 DEF Quiet, TypeOK
      <3> QED
        BY <1>6, <2>1, <2>3, <3>1, <3>2, <3>3 DEF Quiet, OriginalSettles, ResolveOriginal
    <2>4. CASE seen["original"] # "timeout"
      <3>1. pc' = "done" /\ seen' = seen
            /\ answer' = IF Claimed(Outcome("original")) THEN SourceOf("original") ELSE Failed
        BY <1>6, <2>4 DEF OriginalSettles, ResolveOriginal, Return, Throw
      <3>2. SourceOf("original") \in Tasks
        BY TasksNamed DEF SourceOf
      <3>3. CASE Claimed(Outcome("original"))
        BY <1>0, <2>1, <3>1, <3>2, <3>3 DEF Quiet
      <3>4. CASE ~Claimed(Outcome("original"))
        <4>1. Ended("original")
          BY <2>1, <3>4 DEF Ended
        <4>2. seen["original"] \in Recoverable => "original" \in rescued
          BY <2>1, <2>4 DEF Quiet, Recoverable
        <4>3. \A t \in Tasks : Over(t)
          BY <2>2, <4>1, <4>2, EndedIsOver, TasksNamed DEF Attempts
        <4>4. \A t \in Tasks : Over(t)'
          BY <2>1, <3>1, <4>3 DEF Over, RereadSettled
        <4> QED
          BY <2>1, <3>1, <4>4 DEF Quiet
      <3> QED
        BY <3>3, <3>4
    <2> QED
      BY <2>3, <2>4
  <1>7. CASE Hedge
    <2>1. /\ pc = "race" /\ pc' = "hedge" /\ UNCHANGED <<reread, rescued, answer>>
          /\ seen' = [seen EXCEPT !["second"] = "creating"]
      BY <1>7 DEF Hedge
    <2>2. reread["second"] = "idle" /\ answer # Failed
      BY <1>0, <2>1 DEF Quiet, Recoverable, Evidence, Done
    <2>3. \A u \in Tasks : reread'[u] # "idle" => seen'[u] \in Recoverable
      BY <2>1, <2>2 DEF Quiet, TypeOK
    <2> QED
      BY <2>1, <2>2, <2>3 DEF Quiet
  <1>8. CASE Recover
    <2>1. /\ pc' = "recover" /\ UNCHANGED <<seen, rescued, answer>> /\ ~Done
          /\ \A a \in Attempts : Ended(a)
          /\ reread' = [t \in Tasks |-> IF t \in Attempts /\ Outcome(t) \in Recoverable
                                        THEN "reading" ELSE reread[t]]
      BY <1>8 DEF Recover, Ended, Done
    <2>2. answer # Failed
      BY <1>0, <2>1 DEF Evidence
    <2>3. ASSUME NEW a \in rescued
          PROVE  Outcome(a) \notin Recoverable
      BY DEF Outcome, RescueOutcome, Claimed, Recoverable
    <2>4. \A u \in Tasks : reread'[u] # "idle" => seen'[u] \in Recoverable
      BY <2>1, <2>3 DEF Quiet, Outcome
    <2>5. ASSUME NEW a \in Attempts
          PROVE  Ended(a)'
      <3>1. a \in rescued => reread'[a] = reread[a] /\ reread'[RescueOf[a]] = reread[RescueOf[a]]
        BY <2>1, <2>3, TasksNamed DEF Attempts
      <3> QED
        BY <2>1, <3>1, EndedStays
    <2> QED
      BY <2>1, <2>2, <2>4, <2>5 DEF Quiet
  <1>9. CASE RecoveryFails
    <2>1. /\ pc = "recover" /\ pc' = "done" /\ UNCHANGED <<seen, reread, rescued>>
          /\ \A a \in Attempts :
                Outcome(a) \in Recoverable => RereadSettled(a) /\ ~Claimed(reread[a])
      BY <1>9 DEF RecoveryFails, Throw
    <2>2. ASSUME NEW a \in Attempts
          PROVE  Over(a) /\ Over(RescueOf[a])
      BY <2>1, EndedIsOver DEF Quiet, Outcome, Claimed
    <2>3. \A t \in Tasks : Over(t)
      BY <2>2, TasksNamed DEF Attempts
    <2>4. \A t \in Tasks : Over(t)'
      BY <2>1, <2>3 DEF Over, RereadSettled
    <2> QED
      BY <2>1, <2>4 DEF Quiet
  <1>10. ASSUME NEW a \in Attempts, AttemptWins(a) \/ Recovered(a)
         PROVE  Quiet'
    <2>1. a \in Tasks /\ SourceOf(a) \in Tasks
      BY TasksNamed DEF SourceOf, Attempts
    <2>2. pc' = "done" /\ answer' # Failed /\ UNCHANGED <<seen, reread>>
      BY <1>0, <1>10, <2>1 DEF AttemptWins, Recovered, Return
    <2> QED
      BY <2>2 DEF Quiet
  <1>11. ASSUME UNCHANGED <<seen, reread, rescued, answer>>,
                pc' = pc \/ (pc = "race" /\ pc' = "await")
         PROVE  Quiet'
    BY <1>11, EndedStays DEF Quiet, Over, RereadSettled
  <1>12. CASE RaceAgain \/ KeepOriginal
    BY <1>12, <1>11 DEF RaceAgain, KeepOriginal, hostVars
  <1>13. CASE WatchStep \/ RobloxStep \/ UNCHANGED vars
    BY <1>13, <1>11 DEF WatchStep, WatchFires, ClaimRead, WatchAnswers, RobloxStep, vars, hostVars
  <1> QED
    BY <1>2, <1>3, <1>4, <1>5, <1>6, <1>7, <1>8, <1>9, <1>10, <1>12, <1>13 DEF Next, HostStep

\* Three names hold at most three submissions.
LEMMA AtMostThree ==
    ASSUME NEW S, NEW a, NEW b, NEW c, S \subseteq {a, b, c}
    PROVE  Cardinality(S) <= 3
  <1>1. IsFiniteSet({}) /\ Cardinality({}) = 0
    BY FS_EmptySet
  <1>2. IsFiniteSet({a}) /\ Cardinality({a}) = 1
    BY FS_Singleton
  <1>3. IsFiniteSet({a} \cup {b}) /\ Cardinality({a} \cup {b}) <= 2
    BY <1>2, FS_AddElement
  <1>4. IsFiniteSet(({a} \cup {b}) \cup {c}) /\ Cardinality(({a} \cup {b}) \cup {c}) <= 3
    <2>1. Cardinality({a} \cup {b}) \in Nat
      BY <1>3, FS_CardinalityType
    <2> QED
      BY <1>3, <2>1, FS_AddElement
  <1>5. S \subseteq ({a} \cup {b}) \cup {c}
    OBVIOUS
  <1>6. Cardinality(S) <= Cardinality(({a} \cup {b}) \cup {c}) /\ IsFiniteSet(S)
    BY <1>4, <1>5, FS_Subset
  <1>7. Cardinality(S) \in Nat /\ Cardinality(({a} \cup {b}) \cup {c}) \in Nat
    BY <1>4, <1>6, FS_CardinalityType
  <1> QED
    BY <1>4, <1>6, <1>7

\* An execution sends at most three creates and spends one rescue, and the caller is
\* told of a failure only when nothing it sent can still bring a result
\* (withSubmissionRescue, resolveHedgeAsync, resolveRecoveryAsync).
THEOREM RecoveryIsBounded == Spec => []RecoveryInv
  <1> DEFINE Inv == TypeOK /\ Held /\ Armings /\ Evidence /\ Spent /\ Quiet
  <1>1. Init => Inv
    BY TypedInit, HeldInit, SpentInit DEF Init, Evidence, Done
  <1>2. Inv /\ [Next]_vars => Inv'
    <2> SUFFICES ASSUME Inv, [Next]_vars PROVE Inv'
      OBVIOUS
    <2>1. TypeOK' /\ Held' /\ Armings' /\ Evidence'
      BY TypedNext, HeldNext, EvidenceNext DEF TypeOK
    <2> QED
      BY <2>1, SpentNext, QuietNext
  <1>3. ASSUME TypeOK, Spent PROVE ThreeSubmissions
    <2>1. PICK a \in Attempts : \A b \in Attempts : seen[RescueOf[b]] # "unsent" => b = a
      <3>1. CASE "original" \in rescued
        <4>1. \A b \in Attempts : seen[RescueOf[b]] # "unsent" => b = "original"
          BY <1>3, <3>1 DEF Spent, Attempts
        <4> QED
          BY <4>1 DEF Attempts
      <3>2. CASE "original" \notin rescued
        <4>1. \A b \in Attempts : seen[RescueOf[b]] # "unsent" => b = "second"
          BY <1>3, <3>2 DEF Spent, Attempts
        <4> QED
          BY <4>1 DEF Attempts
      <3> QED
        BY <3>1, <3>2
    <2>2. Sent \subseteq {"original", "second", RescueOf[a]}
      BY <2>1, TasksNamed DEF Sent, Attempts
    <2>3. Sent \cap Rescues \subseteq {RescueOf[a]}
      BY <2>1 DEF Sent, Rescues
    <2>4. Cardinality(Sent) <= 3
      BY <2>2, AtMostThree
    <2>5. IsFiniteSet({RescueOf[a]}) /\ Cardinality({RescueOf[a]}) = 1
      BY FS_Singleton
    <2>6. Cardinality(Sent \cap Rescues) <= 1
      BY <2>3, <2>5, FS_Subset
    <2> QED
      BY <2>4, <2>6 DEF ThreeSubmissions
  <1>4. Quiet => GivesUpLast
    BY DEF Quiet, Over, GivesUpLast
  <1>5. Inv => RecoveryInv
    BY <1>3, <1>4 DEF RecoveryInv
  <1> HIDE DEF Inv
  <1> QED
    BY <1>1, <1>2, <1>5, PTL DEF Spec
-----------------------------------------------------------------------------
(* What is submitted follows the evidence.                                 *)

\* A submission that is still to be created has no task; while the race is on, the
\* watch has been armed once for each submission that was accepted.
Counted ==
    /\ \A t \in Tasks : seen[t] \in {"unsent", "creating"} => task[t] = "absent"
    /\ pc \in {"race", "await"} => seen["second"] = "unsent"
    /\ pc = "race" => \/ generation = FirstArm /\ Accepted = {}
                      \/ generation = FirstArm + 1 /\ \E t \in Tasks : Accepted = {t}

LEMMA CountedInit == Init => Counted
  BY FourTasks DEF Init, ClaimInit, Counted, Accepted

\* What each step does to the creates: one of them is accepted and arms the watch, or
\* none is.
LEMMA CountedNext ==
    ASSUME TypeOK, Armings, Spent, Counted, [Next]_vars
    PROVE  Counted'
  <1>1. FirstArm' = FirstArm /\ ClaimTypeOK /\ seen \in [Tasks -> Observations]
    BY DEF Next, vars, FirstArm, TypeOK
  <1>2. ASSUME NEW t \in Tasks, CreateAccepted(t)
        PROVE  Counted'
    <2>1. /\ seen[t] = "creating" /\ task[t] = "absent" /\ pc' = pc
          /\ task' = [task EXCEPT ![t] = "claiming"] /\ seen' = [seen EXCEPT ![t] = "polling"]
          /\ pc = "race" => generation' = generation + 1
      BY <1>2 DEF CreateAccepted, Create, Arm
    <2>2. Accepted' = Accepted \cup {t}
      BY <1>1, <2>1 DEF Accepted, ClaimTypeOK
    <2>3. pc = "race" => generation = FirstArm /\ FirstArm \in {0, 1}
      BY <2>1, TasksNamed DEF Armings, FirstArm
    <2>4. pc = "race" => generation' = FirstArm + 1 /\ Accepted' = {t}
      BY <2>1, <2>2, <2>3 DEF Counted
    <2>5. \A u \in Tasks : seen'[u] \in {"unsent", "creating"} => task'[u] = "absent"
      BY <1>1, <2>1 DEF Counted, ClaimTypeOK
    <2> QED
      BY <1>1, <2>1, <2>4, <2>5 DEF Counted
  <1>3. ASSUME \A u \in Tasks : seen'[u] \in {"unsent", "creating"} => task'[u] = "absent",
               pc' \in {"race", "await"} =>
                  pc \in {"race", "await"} /\ seen'["second"] = seen["second"],
               pc' = "race" => pc = "race" /\ Accepted' = Accepted /\ generation' = generation
        PROVE  Counted'
    BY <1>1, <1>3 DEF Counted
  <1>4. ASSUME NEW t \in Tasks, CreateRefused(t)
        PROVE  Counted'
    <2>1. /\ seen[t] = "creating" /\ UNCHANGED claimVars /\ pc' = pc /\ generation' = generation
          /\ seen' = [seen EXCEPT ![t] = "failed"]
      BY <1>4 DEF CreateRefused, watchVars
    <2>2. task' = task /\ task[t] = "absent"
      BY <2>1 DEF Counted, claimVars
    <2>3. Accepted' = Accepted
      BY <1>1, <2>1, <2>2 DEF Accepted
    <2>4. \A u \in Tasks : seen'[u] \in {"unsent", "creating"} => task'[u] = "absent"
      BY <1>1, <2>1, <2>2 DEF Counted
    <2>5. t # "second" => seen'["second"] = seen["second"]
      BY <1>1, <2>1, FourTasks
    <2> QED
      BY <1>3, <2>1, <2>3, <2>4, <2>5 DEF Counted
  <1>5. ASSUME NEW t \in Tasks, CreateUncertain(t)
        PROVE  Counted'
    <2>1. /\ seen[t] = "creating" /\ pc' = pc /\ generation' = generation
          /\ task' = task \/ task' = [task EXCEPT ![t] = "claiming"]
          /\ \/ /\ MayRescue(t)
                /\ seen' = [seen EXCEPT ![t] = "uncertain", ![RescueOf[t]] = "creating"]
             \/ ~Done /\ seen' = [seen EXCEPT ![t] = "uncertain"]
             \/ Done /\ seen' = [seen EXCEPT ![t] = "failed"]
      BY <1>5 DEF CreateUncertain, Create, claimVars, watchVars
    <2>2. MayRescue(t) => /\ RescueOf[t] \in Tasks \ {t, "second"}
                          /\ seen[RescueOf[t]] = "unsent"
      BY TasksNamed DEF MayRescue, Spent, Attempts
    <2>3. \A u \in Tasks : seen'[u] \in {"unsent", "creating"} => task'[u] = "absent"
      BY <1>1, <2>1, <2>2 DEF Counted, ClaimTypeOK
    <2>4. ~Done => Accepted' = Accepted
      BY <1>1, <2>1, <2>2 DEF Accepted, ClaimTypeOK
    <2>5. t # "second" => seen'["second"] = seen["second"]
      BY <1>1, <2>1, <2>2, FourTasks
    <2> QED
      BY <1>3, <2>1, <2>3, <2>4, <2>5 DEF Done, Counted
  <1>6. ASSUME NEW t \in Tasks, Observe(t)
        PROVE  Counted'
    <2>1. /\ seen[t] = "polling" /\ UNCHANGED claimVars /\ pc' = pc /\ generation' = generation
          /\ \E o \in Answers \cup {"failed", "timeout"} : seen' = [seen EXCEPT ![t] = o]
      BY <1>6 DEF Observe, Shown, watchVars
    <2>2. task' = task /\ \A u \in Tasks \ {t} : seen'[u] = seen[u]
      BY <1>1, <2>1 DEF claimVars
    <2>3. seen'[t] \notin {"unsent", "creating", "uncertain"}
      BY <1>1, <2>1 DEF Answers
    <2>4. Accepted' = Accepted
      BY <1>1, <2>1, <2>2, <2>3 DEF Accepted
    <2> QED
      BY <1>3, <2>1, <2>2, <2>3, <2>4 DEF Counted
  <1>7. ASSUME UNCHANGED seen, pc' = "race" => pc = "race" /\ generation' = generation,
               pc' = "await" => pc \in {"race", "await"},
               \A t \in Tasks : task[t] = "absent" <=> task'[t] = "absent"
        PROVE  Counted'
    <2>1. Accepted' = Accepted
      BY <1>7 DEF Accepted
    <2> QED
      BY <1>3, <1>7, <2>1 DEF Counted
  <1>8. CASE OriginalSettles \/ Hedge
    <2>1. /\ pc \in {"race", "await"} /\ pc' \notin {"race", "await"} /\ UNCHANGED task
          /\ seen' \in {seen, [seen EXCEPT !["second"] = "creating"]}
      BY <1>8 DEF OriginalSettles, ResolveOriginal, Return, Throw, Hedge, claimVars
    <2>2. \A u \in Tasks : seen'[u] \in {"unsent", "creating"} => task'[u] = "absent"
      BY <1>1, <2>1, FourTasks DEF Counted
    <2> QED
      BY <1>3, <2>1, <2>2
  <1>9. ASSUME NEW t \in Tasks, Reread(t)
        PROVE  Counted'
    BY <1>7, <1>9 DEF Reread, claimVars, watchVars
  <1>10. ASSUME NEW a \in Attempts, RereadRescue(a) \/ AttemptWins(a) \/ Recovered(a)
        PROVE  Counted'
    BY <1>7, <1>10 DEF RereadRescue, AttemptWins, Recovered, Return, claimVars, watchVars
  <1>11. CASE RaceAgain \/ KeepOriginal \/ Recover \/ RecoveryFails
    BY <1>7, <1>11 DEF RaceAgain, KeepOriginal, Recover, RecoveryFails, Throw, claimVars, hostVars,
                       watchVars
  <1>12. CASE WatchStep
    BY <1>7, <1>12 DEF WatchStep, WatchFires, ClaimRead, WatchAnswers, claimVars, hostVars
  <1>13. CASE RobloxStep
    <2>1. UNCHANGED <<hostVars, watchVars>>
      BY <1>13 DEF RobloxStep
    <2>2. \A t \in Tasks : task[t] = "absent" <=> task'[t] = "absent"
      BY <1>1, <1>13 DEF RobloxStep, TaskStep, UpdateGranted, UpdateDeclined, UpdateErrors, Finish,
                         WindowShuts, ClaimExpires, ClaimTypeOK
    <2> QED
      BY <1>7, <2>1, <2>2 DEF hostVars, watchVars
  <1>14. CASE UNCHANGED vars
    BY <1>7, <1>14 DEF vars, claimVars, hostVars, watchVars
  <1> QED
    BY <1>2, <1>4, <1>5, <1>6, <1>8, <1>9, <1>10, <1>11, <1>12, <1>13, <1>14 DEF Next, HostStep

\* Nothing is submitted for a caller that has its answer.
LEMMA NothingSentLate ==
    ASSUME TypeOK, Done, [Next]_vars
    PROVE  Sent' = Sent
  <1>1. seen \in [Tasks -> Observations] /\ pc = "done"
    BY DEF TypeOK, Done
  <1>2. \/ UNCHANGED seen
        \/ \E t \in Tasks : /\ seen[t] # "unsent"
                            /\ \E o \in Observations \ {"unsent"} : seen' = [seen EXCEPT ![t] = o]
    <2>1. ASSUME NEW t \in Tasks, CreateAccepted(t) \/ CreateRefused(t) \/ CreateUncertain(t)
                                    \/ Observe(t)
          PROVE  /\ seen[t] # "unsent"
                 /\ \E o \in Observations \ {"unsent"} : seen' = [seen EXCEPT ![t] = o]
      BY <2>1 DEF CreateAccepted, CreateRefused, CreateUncertain, Observe, Shown, Answers,
                  Observations, Pending, Recoverable
    <2>2. CASE WatchStep \/ RobloxStep \/ UNCHANGED vars
      BY <2>2 DEF WatchStep, WatchFires, ClaimRead, WatchAnswers, RobloxStep, hostVars, vars
    <2>3. CASE OriginalSettles \/ RaceAgain \/ KeepOriginal \/ Hedge \/ Recover \/ RecoveryFails
      BY <1>1, <2>3 DEF OriginalSettles, RaceAgain, KeepOriginal, Hedge, Recover, RecoveryFails
    <2>4. ASSUME NEW a \in Attempts, RereadRescue(a) \/ AttemptWins(a) \/ Recovered(a)
          PROVE  UNCHANGED seen
      BY <2>4 DEF RereadRescue, AttemptWins, Recovered
    <2>5. ASSUME NEW t \in Tasks, Reread(t)
          PROVE  UNCHANGED seen
      BY <2>5 DEF Reread
    <2> QED
      BY <2>1, <2>2, <2>3, <2>4, <2>5 DEF Next, HostStep
  <1> QED
    BY <1>1, <1>2 DEF Sent

\* The hedge goes by a claim read that was sent after the last submission so far was accepted
\* and had its whole boot window, and nothing is submitted after the answer
\* (execution-boot-watch.ts:98, execution-recovery.ts:101, 165).
THEOREM SubmissionsFollowEvidence == Spec => SubmitsOnEvidence
  <1> DEFINE Inv == TypeOK /\ Held /\ Armings /\ Evidence /\ Spent /\ Quiet /\ Counted
             Submits == /\ pc = "race" /\ pc' = "hedge" =>
                             settled[holding].generation = FirstArm + Cardinality(Accepted)
                        /\ Done => Sent' = Sent
  <1>1. Init => Inv
    BY TypedInit, HeldInit, SpentInit, CountedInit DEF Init, Evidence, Done
  <1>2. Inv /\ [Next]_vars => Inv'
    <2> SUFFICES ASSUME Inv, [Next]_vars PROVE Inv'
      OBVIOUS
    <2>1. TypeOK' /\ Held' /\ Armings' /\ Evidence'
      BY TypedNext, HeldNext, EvidenceNext DEF TypeOK
    <2> QED
      BY <2>1, SpentNext, QuietNext, CountedNext
  <1>3. Inv /\ [Next]_vars => [Submits]_vars
    <2> SUFFICES ASSUME Inv, [Next]_vars PROVE Submits
      OBVIOUS
    <2>1. ASSUME pc = "race", pc' = "hedge"
          PROVE  settled[holding].generation = FirstArm + Cardinality(Accepted)
      <3>1. Hedge
        BY <2>1 DEF Next, HostStep, vars, CreateAccepted, CreateRefused, CreateUncertain, Observe,
                    Reread, RereadRescue, AttemptWins, Recovered, OriginalSettles, ResolveOriginal,
                    RaceAgain, KeepOriginal, Recover, RecoveryFails, Return, Throw, WatchStep,
                    WatchFires, ClaimRead, WatchAnswers, RobloxStep, hostVars
      <3>2. settled[holding].generation = generation
        BY <3>1 DEF Hedge, IsCurrent
      <3>3. FirstArm \in {0, 1} /\ Cardinality({}) = 0 /\ \A t \in Tasks : Cardinality({t}) = 1
        BY FS_EmptySet, FS_Singleton DEF FirstArm
      <3>4. Accepted = {} \/ \E t \in Tasks : Accepted = {t}
        BY <2>1 DEF Counted
      <3> QED
        BY <2>1, <3>2, <3>3 DEF Counted
    <2>2. Done => Sent' = Sent
      BY NothingSentLate
    <2> QED
      BY <2>1, <2>2
  <1> HIDE DEF Inv
  <1> QED
    BY <1>1, <1>2, <1>3, PTL DEF Spec, SubmitsOnEvidence
============================================================================
