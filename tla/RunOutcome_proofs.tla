------------------------- MODULE RunOutcome_proofs -------------------------
(***************************************************************************)
(* From the end of a task to the exit code: that its result comes home     *)
(* whole over the relay (ResultRelay), for every number of chunks and of   *)
(* faults, and that the CLI makes of the results what they say (CliRun),   *)
(* for every number of projects, packages and requests.                    *)
(***************************************************************************)
EXTENDS ResultRelay, CliRun, FiniteSetTheorems, TLAPS

(***************************************************************************)
(* ResultRelay.  InStep is the argument: the task and the reader are never *)
(* more than one chunk apart, a chunk the task waits for is in the map     *)
(* until the reader has it, and the only delete that may be under way is   *)
(* of that chunk.                                                          *)
(***************************************************************************)
InStep ==
    /\ part \in {got, got + 1}
    /\ task \in {"absent", "script", "put"} => part = got + 1 /\ part \notin store
    /\ task = "await" /\ part \notin store => part = got
    /\ unacked \in {0, got}
    /\ store \subseteq {got, got + 1}
    /\ store \subseteq 1..part
    /\ unacked = 0 => got \notin store
    /\ deletes \subseteq {unacked}
    /\ reader = "deleting" => unacked # 0 /\ (unacked \in deletes \/ unacked \notin store)
    /\ reader = "complete" => unacked = 0 /\ got = Chunks

LEMMA InStepInit == Init => TypeOK /\ InStep
  BY ChunksAssumption, FaultsAssumption DEF Init, TypeOK, InStep, Parts

\* Steps of the task.
LEMMA TaskKeepsStep ==
    ASSUME TypeOK, InStep, CreateLands \/ Publish \/ PublishFails
    PROVE  TypeOK' /\ InStep'
  <1> USE ChunksAssumption, FaultsAssumption
  <1>1. CASE CreateLands
    BY <1>1 DEF CreateLands, readerVars, callerVars, TypeOK, InStep, Parts
  <1>2. CASE ScriptEnds
    BY <1>2 DEF ScriptEnds, readerVars, callerVars, TypeOK, InStep, Parts
  <1>3. CASE PutChunk
    <2>1. TypeOK'
      BY <1>3 DEF PutChunk, readerVars, callerVars, TypeOK, Parts
    <2> QED
      BY <1>3, <2>1 DEF PutChunk, readerVars, callerVars, TypeOK, InStep, Parts
  <1>4. CASE SeesAcknowledged
    <2>1. TypeOK'
      BY <1>4 DEF SeesAcknowledged, readerVars, callerVars, TypeOK, Parts
    <2> QED
      BY <1>4, <2>1 DEF SeesAcknowledged, readerVars, callerVars, TypeOK, InStep, Parts
  <1>5. CASE TaskEnds
    BY <1>5 DEF TaskEnds, readerVars, callerVars, TypeOK, InStep, Parts
  <1>6. CASE PublishFails
    <2>1. faults' \in 0..MaxFaults
      BY <1>6 DEF PublishFails, Fault, TypeOK
    <2>2. task' = "published" /\ store' \in {store, store \cup {part}}
          /\ (task = "put" \/ store' = store)
          /\ UNCHANGED <<outcome, part, deletes, readerVars, callerVars>>
      BY <1>6 DEF PublishFails
    <2>3. TypeOK'
      BY <2>1, <2>2 DEF readerVars, callerVars, TypeOK
    <2> QED
      BY <2>2, <2>3 DEF readerVars, TypeOK, InStep, Parts
  <1> QED
    BY <1>1, <1>2, <1>3, <1>4, <1>5, <1>6 DEF Publish

\* Steps of the reader and of the store.
LEMMA RelayKeepsStep ==
    ASSUME TypeOK, InStep,
           Relay \/ ReaderFails \/ \E k \in Parts : Expire(k) \/ DeleteLost(k)
    PROVE  TypeOK' /\ InStep'
  <1> USE ChunksAssumption, FaultsAssumption
  <1>1. CASE ReadChunk
    <2>1. got + 1 = part /\ part \in store /\ got \notin store /\ deletes = {}
      BY <1>1 DEF ReadChunk, TypeOK, InStep, Parts
    <2>2. got' = part /\ unacked' = part /\ reader' = "reading"
          /\ UNCHANGED <<taskVars, store, deletes, readers, callerVars, faults>>
      BY <1>1, <2>1 DEF ReadChunk
    <2>3. TypeOK'
      BY <2>2 DEF taskVars, callerVars, TypeOK, Parts
    <2> QED
      BY <2>1, <2>2, <2>3 DEF taskVars, TypeOK, InStep, Parts
  <1>2. CASE SendDelete
    BY <1>2 DEF SendDelete, taskVars, callerVars, TypeOK, InStep, Parts
  <1>3. CASE DeleteAnswered
    <2>1. unacked' = 0 /\ unacked \notin store /\ unacked = got /\ deletes = {}
          /\ UNCHANGED <<taskVars, store, deletes, readers, got, native, faults>>
      BY <1>3 DEF DeleteAnswered, InStep
    <2>2. phase' \in {phase, "done"} /\ answer' \in {answer, outcome}
          /\ ((reader' = "complete" /\ got = Chunks) \/ reader' = "reading")
      BY <1>3 DEF DeleteAnswered, Complete, Answer
    <2> QED
      BY <2>1, <2>2 DEF taskVars, TypeOK, InStep
  <1>4. CASE ReadOn
    BY <1>4 DEF ReadOn, taskVars, callerVars, TypeOK, InStep
  <1>5. ASSUME NEW k \in Parts, DeleteLands(k)
        PROVE  TypeOK' /\ InStep'
    BY <1>5 DEF DeleteLands, taskVars, readerVars, callerVars, TypeOK, InStep, Parts
  <1>6. CASE ReaderFails
    <2>1. reader' = "ended" /\ phase' \in {phase, "done"} /\ answer' \in {answer, Failed}
          /\ UNCHANGED <<taskVars, store, deletes, readers, got, unacked, native>>
      BY <1>6 DEF ReaderFails, EndsUnread, Answer
    <2>2. faults' \in 0..MaxFaults
      BY <1>6 DEF ReaderFails, Fault, TypeOK
    <2> QED
      BY <2>1, <2>2 DEF taskVars, TypeOK, InStep
  <1>7. ASSUME NEW k \in Parts, Expire(k)
        PROVE  TypeOK' /\ InStep'
    BY <1>7 DEF Expire, taskVars, readerVars, callerVars, TypeOK, InStep, Parts
  <1>8. ASSUME NEW k \in Parts, DeleteLost(k)
        PROVE  TypeOK' /\ InStep'
    BY <1>8 DEF DeleteLost, taskVars, readerVars, callerVars, TypeOK, InStep, Parts
  <1> QED
    BY <1>1, <1>2, <1>3, <1>4, <1>5, <1>6, <1>7, <1>8 DEF Relay

\* The caller only ever stops the reader.
LEMMA CallerKeepsStep ==
    ASSUME TypeOK, InStep, Native \/ Recovery
    PROVE  TypeOK' /\ InStep'
  <1>1. UNCHANGED <<taskVars, store, deletes, readers, got, unacked>>
    BY DEF Native, Recovery, SubmitAnswered, NativeAnswers, NativeFails, NativeTimesOut,
           ReadResult, RereadSettles, Abort, Abandon, readerVars
  <1>2. reader' = reader \/ (reader # "complete" /\ reader' = "ended")
    BY DEF Native, Recovery, SubmitAnswered, NativeAnswers, NativeFails, NativeTimesOut,
           ReadResult, RereadSettles, Abort, Abandon, readerVars
  <1>3. faults' \in 0..MaxFaults
    BY FaultsAssumption DEF Native, Recovery, SubmitAnswered, NativeAnswers, NativeFails,
           NativeTimesOut, ReadResult, RereadSettles, Abort, Fault, TypeOK
  <1>4. /\ native' \in {"submitting", "polling", "uncertain", "timeout", "settled"}
        /\ phase' \in {"race", "thrown", "recovering", "done", "aborted"}
        /\ answer' \in Outcomes \cup {NoOutcome, Failed}
    BY DEF Native, Recovery, SubmitAnswered, NativeAnswers, NativeFails, NativeTimesOut,
           ReadResult, RereadSettles, Abort, Answer, TypeOK
  <1>5. TypeOK'
    BY <1>1, <1>2, <1>3, <1>4 DEF taskVars, TypeOK
  <1>6. InStep'
    BY <1>1, <1>2 DEF taskVars, InStep
  <1> QED
    BY <1>5, <1>6

LEMMA InStepNext == TypeOK /\ InStep /\ [Next]_vars => TypeOK' /\ InStep'
  <1> SUFFICES ASSUME TypeOK, InStep, [Next]_vars
               PROVE  TypeOK' /\ InStep'
    OBVIOUS
  <1>1. CASE UNCHANGED vars
    BY <1>1 DEF vars, taskVars, readerVars, callerVars, TypeOK, InStep
  <1> QED
    BY <1>1, TaskKeepsStep, RelayKeepsStep, CallerKeepsStep DEF Next

\* Every variable keeps its type, for every number of chunks and faults
\* (result-relay.ts, execution-result-relay.luau).
THEOREM TypeCorrect == Spec => []TypeOK
  BY InStepInit, InStepNext, PTL DEF Spec

\* Whatever fails, expires, is given up or lands late, and however long the
\* result: a chunk that the task believes acknowledged is one the CLI holds.
THEOREM AcknowledgedIsRead == Spec => []AckMeansRead
  <1>1. TypeOK /\ InStep => AckMeansRead
    BY DEF TypeOK, InStep, AckMeansRead, Parts
  <1> QED
    BY InStepInit, InStepNext, <1>1, PTL DEF Spec

\* No chunk is left behind the reader, and none at all once the result is whole.
THEOREM NothingLeftBehind == Spec => []LeavesNothing
  <1>1. TypeOK /\ InStep => LeavesNothing
    BY ChunksAssumption DEF TypeOK, InStep, LeavesNothing, Parts
  <1> QED
    BY InStepInit, InStepNext, <1>1, PTL DEF Spec

\* Task, map and reader stay in step: what is acknowledged is held, what is held
\* is gone from the map.
THEOREM RelayInStep == Spec => []ChunksInStep
  BY AcknowledgedIsRead, NothingLeftBehind, PTL DEF ChunksInStep

\* A result is whole only for a caller that is not waiting: it has its answer,
\* or will find the result when it asks.
Kept == reader = "complete" => phase \notin {"race", "recovering"}

LEMMA KeptNext ==
    ASSUME TypeOK, Kept, [Next]_vars
    PROVE  Kept' /\ (reader = "complete" /\ answer' # answer => answer' = outcome)
  <1>1. CASE UNCHANGED vars
    BY <1>1 DEF vars, readerVars, callerVars, Kept
  <1>2. CASE CreateLands \/ Publish \/ PublishFails
    BY <1>2 DEF Publish, CreateLands, ScriptEnds, PutChunk, SeesAcknowledged, TaskEnds,
                PublishFails, readerVars, callerVars, Kept
  <1>3. CASE ReadChunk \/ SendDelete \/ ReadOn
    BY <1>3 DEF ReadChunk, SendDelete, ReadOn, callerVars, Kept
  <1>4. CASE DeleteAnswered
    BY <1>4 DEF DeleteAnswered, Complete, Answer, Kept
  <1>5. CASE ReaderFails
    BY <1>5 DEF ReaderFails, EndsUnread, Answer, Kept
  <1>6. ASSUME NEW k \in Parts, DeleteLands(k) \/ Expire(k) \/ DeleteLost(k)
        PROVE  Kept' /\ answer' = answer
    BY <1>6 DEF DeleteLands, Expire, DeleteLost, readerVars, callerVars, Kept
  <1>7. CASE SubmitAnswered \/ NativeAnswers \/ NativeFails \/ NativeTimesOut
    BY <1>7 DEF SubmitAnswered, NativeAnswers, NativeFails, NativeTimesOut, Answer, Abandon,
                readerVars, Kept
  <1>8. CASE ReadResult
    BY <1>8 DEF ReadResult, Answer, readerVars, Kept
  <1>9. CASE RereadSettles \/ Abort
    BY <1>9 DEF RereadSettles, Abort, Answer, Abandon, Kept
  <1> QED
    BY <1>1, <1>2, <1>3, <1>4, <1>5, <1>6, <1>7, <1>8, <1>9 DEF Next, Relay, Native, Recovery

\* Once the result is whole, the caller is told that result or nothing, however
\* the poll, the reread of the task and the hedge turn out.
THEOREM WholeResultIsKept == Spec => CompletedIsKept
  <1>1. Init => Kept
    BY DEF Init, Kept
  <1>2. TypeOK /\ Kept /\ [Next]_vars
        => Kept' /\ (reader = "complete" /\ answer' # answer => answer' = outcome)
    BY KeptNext
  <1> QED
    BY InStepInit, InStepNext, <1>1, <1>2, PTL DEF Spec, CompletedIsKept

-----------------------------------------------------------------------------
(***************************************************************************)
(* JobOrder: the elements of a set of numbers do have an order.            *)
(***************************************************************************)
Enumerates(s, S) == s \in [1..Cardinality(S) -> S] /\ Ascending(s)

LEMMA LeastExists ==
  ASSUME NEW T, T \subseteq Nat, T # {}
  PROVE  \E m \in T : \A k \in T : m <= k
  <1> DEFINE R == {p \in Nat \X Nat : p[1] < p[2]}
  <1>1. IsWellFoundedOn(R, Nat)
    BY NatLessThanWellFounded DEF OpToRel
  <1>2. \E x \in T : \A y \in T : ~ (<<y, x>> \in R)
    <2> HIDE DEF R
    <2> QED
      BY <1>1, WFMin
  <1>3. PICK x \in T : \A y \in T : ~ (<<y, x>> \in R)
    BY <1>2
  <1>4. ASSUME NEW y \in T PROVE x <= y
    <2>1. <<y, x>> \in Nat \X Nat
      OBVIOUS
    <2> QED
      BY <1>3, <2>1
  <1> QED
    BY <1>4

\* What holds of 0, and of a number if of the one before it, holds up to n.
LEMMA UpTo ==
  ASSUME NEW n \in Nat, NEW T, 0 \in T, \A i \in 1..n : i - 1 \in T => i \in T
  PROVE  n \in T
  <1> SUFFICES ASSUME n \notin T PROVE FALSE
    OBVIOUS
  <1> DEFINE U == (0..n) \ T
  <1>1. U \subseteq Nat /\ U # {}
    OBVIOUS
  <1>2. PICK m \in U : \A k \in U : m <= k
    <2> HIDE DEF U
    <2> QED
      BY <1>1, LeastExists
  <1>3. m \in 1..n /\ m - 1 \in T
    BY <1>2
  <1> QED
    BY <1>3

LEMMA FiniteBelow ==
  ASSUME NEW n \in Nat, NEW S, S \subseteq 1..n
  PROVE  IsFiniteSet(S) /\ Cardinality(S) \in Nat
  <1>1. IsFiniteSet(1..n)
    BY FS_Interval
  <1> QED
    BY <1>1, FS_Subset, FS_CardinalityType

LEMMA EnumerationExists ==
  ASSUME NEW n \in Nat, NEW S, S \subseteq 1..n
  PROVE  \E s : Enumerates(s, S)
  <1> DEFINE Below(k) == S \cap (1..k)
             T == {k \in 0..n : \E s : Enumerates(s, Below(k))}
  <1>1. 0 \in T
    <2>1. Below(0) = {}
      OBVIOUS
    <2>2. Cardinality(Below(0)) = 0
      BY <2>1, FS_EmptySet
    <2>3. Enumerates([i \in 1..0 |-> 0], Below(0))
      BY <2>2 DEF Enumerates, Ascending
    <2> QED
      BY <2>3
  <1>2. ASSUME NEW k \in 1..n, k - 1 \in T PROVE k \in T
    <2>1. PICK s : Enumerates(s, Below(k - 1))
      BY <1>2
    <2>2. CASE k \notin S
      <3>1. Below(k) = Below(k - 1)
        BY <2>2
      <3>2. Enumerates(s, Below(k))
        BY <2>1, <3>1
      <3> QED
        BY <3>2
    <2>3. CASE k \in S
      <3> DEFINE m == Cardinality(Below(k - 1))
                 h == [i \in 1..(m + 1) |-> IF i = m + 1 THEN k ELSE s[i]]
      <3>1. Below(k) = Below(k - 1) \cup {k} /\ k \notin Below(k - 1)
        BY <2>3
      <3>2. IsFiniteSet(Below(k - 1)) /\ m \in Nat
        <4>1. Below(k - 1) \subseteq 1..n
          OBVIOUS
        <4> QED
          BY <4>1, FiniteBelow
      <3>3. Cardinality(Below(k)) = m + 1
        <4> HIDE DEF Below
        <4> QED
          BY <3>1, <3>2, FS_AddElement
      <3>4. s \in [1..m -> Below(k - 1)] /\ Ascending(s)
        BY <2>1 DEF Enumerates
      <3> HIDE DEF m
      <3>5. \A i \in 1..m : s[i] \in Below(k) /\ s[i] < k /\ s[i] \in Nat
        BY <3>1, <3>2, <3>4
      <3>6. h \in [1..(m + 1) -> Below(k)]
        BY <2>3, <3>2, <3>5
      <3>7. Ascending(h)
        BY <3>2, <3>4, <3>5 DEF Ascending
      <3>8. Enumerates(h, Below(k))
        BY <3>3, <3>6, <3>7 DEF Enumerates
      <3> QED
        BY <3>8
    <2> QED
      BY <2>2, <2>3
  <1>3. n \in T
    <2> HIDE DEF T
    <2> QED
      BY <1>1, <1>2, UpTo
  <1>4. Below(n) = S
    OBVIOUS
  <1> QED
    BY <1>3, <1>4

\* InOrder(S) has every element of S, once and in order.
LEMMA InOrderFacts ==
  ASSUME NEW n \in Nat, NEW S, S \subseteq 1..n
  PROVE  /\ Cardinality(S) \in Nat
         /\ InOrder(S) \in [1..Cardinality(S) -> S]
         /\ \A i, j \in 1..Cardinality(S) : InOrder(S)[i] = InOrder(S)[j] => i = j
         /\ \A x \in S : \E i \in 1..Cardinality(S) : InOrder(S)[i] = x
  <1> DEFINE c == Cardinality(S)
             s == InOrder(S)
  <1>1. IsFiniteSet(S) /\ c \in Nat
    BY FiniteBelow
  <1>2. Enumerates(s, S)
    BY EnumerationExists DEF Enumerates, InOrder
  <1>3. s \in [1..c -> S] /\ Ascending(s)
    BY <1>2 DEF Enumerates
  <1> HIDE DEF s, c
  <1>4. ASSUME NEW i \in 1..c, NEW j \in 1..c, s[i] = s[j] PROVE i = j
    <2>1. s[i] \in S /\ s[j] \in S /\ S \subseteq Nat
      BY <1>3
    <2>2. s[i] \in Nat /\ i \in DOMAIN s /\ j \in DOMAIN s
      BY <1>3, <2>1
    <2>3. ~ (i < j) /\ ~ (j < i)
      BY <1>3, <1>4, <2>2 DEF Ascending
    <2> QED
      BY <1>1, <2>3
  <1>5. s \in Injection(1..c, S)
    BY <1>3, <1>4 DEF Injection, IsInjective
  <1>6. Cardinality(1..c) = c
    BY <1>1, FS_Interval
  <1>7. s \in Surjection(1..c, S)
    BY <1>1, <1>5, <1>6, FS_Injection DEF c
  <1> QED
    BY <1>1, <1>3, <1>4, <1>7 DEF c, s, Surjection

-----------------------------------------------------------------------------
(***************************************************************************)
(* CliRun.  The invariant follows a run: what is asked and planned, how    *)
(* far its two halves are, what the dispatch brought, and what code is set.*)
(***************************************************************************)
Early == {"start", "select", "planned", "staging"}
Late == {"closing", "report", "ending", "done"}
NothingToRun == {"refused", "untested", "lenient"}

Answerable(a) ==
  /\ a.names \subseteq Projects \cup {Unknown}
  /\ a.files \subseteq TestFiles /\ a.disk \subseteq TestFiles
  /\ a.lenient \subseteq Packages

\* What the plan is made from.
AskedFor ==
  /\ pc \in {"start", "select"} => plan = NoPlan /\ asked.cli \in CliLayers
  /\ pc = "start" => backend = "none"
  /\ pc = "select" => mode = "workspace" /\ (asked.cli.only = "yes" => backend = "none")
  /\ pc = "planned" => /\ Answerable(asked)
                       /\ picked = Picked(mode, asked) /\ plan = BuildTestPlan(mode, asked)
                       /\ mode = "multi" => backend = "none"

\* A project has one job at most, and none in a multi run without a backend.
Planned ==
  /\ \A i, j \in DOMAIN plan.jobs : plan.jobs[i] = plan.jobs[j] => i = j
  /\ mode = "multi" /\ plan.local => plan.jobs = <<>>

\* How the two halves stand to what the run has thrown.
Course ==
  /\ pc \in Early => err = "none" /\ dispatch = "idle" /\ checker = "none"
  /\ pc = "planned" => plan.verdict # "none"
  /\ pc \in {"staging", "running", "report"} => plan.verdict = "run"
  /\ pc = "running" =>
       /\ dispatch # "idle"
       /\ dispatch # "rejected" => err = IF checker = "rejected" THEN "run" ELSE "none"
  /\ Rejected => err # "none"
  /\ pc \in Late /\ dispatch = "running" => err = "run" /\ checker = "rejected"
  /\ pc \in Late /\ err = "none" =>
       IF plan.verdict = "run" THEN dispatch = "settled" /\ checker # "running"
       ELSE dispatch = "idle" /\ checker = "none" /\ plan.verdict \in NothingToRun
  /\ pc = "report" => err = "none"
  /\ pc = "ending" => err # "none" \/ plan.verdict \in NothingToRun

\* Where the code comes from.
CodeSet ==
  /\ exit = NoExit <=> pc # "done"
  /\ pc = "done" =>
       \/ /\ err # "none" \/ plan.verdict \in NothingToRun
          /\ exit = ExitCode
       \/ /\ err = "none" /\ plan.verdict = "run"
          /\ exit = EmitFinalStatus(MergeProjectResults(rows), TypesPass,
                                    ProcessCoverage(rows, plan.jobs, UnitOf, gated))

\* What the dispatch has brought: nothing, or an entry for each job that ran.
NothingBrought ==
  /\ raw = <<>> /\ bailed = {} /\ rows = <<>> /\ saved = {}
  /\ dispatch = "settled" => plan.jobs = <<>>

Brought ==
  /\ dispatch \in {"settled", "rejected"}
  /\ raw \in [1..Cardinality(DOMAIN plan.jobs \ bailed) -> Kinds]
  /\ BailHasCause(bailed, raw)
  /\ saved = SnapshotsOf(Entries)
  /\ IF dispatch = "settled"
     THEN ~Aborts(Entries) /\ rows = RunProjects(plan.jobs, bailed, Entries, plan.idle)
     ELSE rows = <<>>

RunInv ==
  /\ CliTypeOK /\ OpenedIsClosed /\ NothingOpenedForNothing
  /\ AskedFor /\ Planned /\ Course /\ CodeSet
  /\ NothingBrought \/ Brought

\* Jobs are projects, each at most once, and just those with a runtime test.
LEMMA JobsOfFacts ==
  ASSUME NEW found
  PROVE  LET jobs == JobsOf(found) IN
         /\ jobs \in Seq(Projects)
         /\ \A i, j \in DOMAIN jobs : jobs[i] = jobs[j] => i = j
         /\ \A i \in DOMAIN jobs : found[jobs[i]].runtime # {}
         /\ \A p \in Projects : found[p].runtime # {} => \E i \in DOMAIN jobs : jobs[i] = p
  <1> DEFINE some == {p \in Projects : found[p].runtime # {}}
             jobs == JobsOf(found)
             c == Cardinality(some)
  <1>1. some \subseteq 1..ProjectCount /\ ProjectCount \in Nat
    BY PlanAssumption DEF Projects
  <1>2. jobs = InOrder(some)
    BY DEF JobsOf
  <1>3. \A p \in some : p \in Projects /\ found[p].runtime # {}
    OBVIOUS
  <1>4. \A p \in Projects : found[p].runtime # {} => p \in some
    OBVIOUS
  <1> HIDE DEF some, jobs
  <1>5. /\ c \in Nat /\ jobs \in [1..c -> some]
        /\ \A i, j \in 1..c : jobs[i] = jobs[j] => i = j
        /\ \A p \in some : \E i \in 1..c : jobs[i] = p
    BY <1>1, <1>2, InOrderFacts
  <1> HIDE DEF c
  <1>6. jobs \in Seq(Projects) /\ DOMAIN jobs = 1..c
    <2>1. jobs \in [1..c -> Projects]
      BY <1>3, <1>5
    <2> QED
      BY <1>5, <2>1
  <1> QED
    BY <1>3, <1>4, <1>5, <1>6 DEF jobs

\* Whatever is asked, the plan is one of jobs that there are.
LEMMA PlanFacts ==
  ASSUME NEW m \in Modes, NEW a
  PROVE  LET built == BuildTestPlan(m, a) IN
         /\ built.jobs \in Seq(Projects)
         /\ \A i, j \in DOMAIN built.jobs : built.jobs[i] = built.jobs[j] => i = j
         /\ built.idle \subseteq Projects /\ built.types \in BOOLEAN /\ built.local \in BOOLEAN
         /\ built.verdict \in NothingToRun \cup {"run"}
         /\ m = "multi" /\ built.local => built.jobs = <<>>
  <1> DEFINE built == BuildTestPlan(m, a)
             found == Picked(m, a)
  <1>1. /\ built.jobs = JobsOf(found) /\ built.idle \subseteq Projects
        /\ built.types = HasTypes(found) /\ built.local = IsTypecheckOnlyRun(m, a)
        /\ built.verdict = Verdict(m, a, found)
    BY DEF BuildTestPlan
  <1>2. Verdict(m, a, found) \in NothingToRun \cup {"run"}
    BY DEF Verdict, NothingToRun
  <1>3. ASSUME m = "multi", IsTypecheckOnlyRun(m, a), NEW p \in Projects PROVE found[p].runtime = {}
    BY <1>3 DEF IsTypecheckOnlyRun, Picked, Selected, PlanProject, ClassifyTestFiles, NothingPicked
  <1> HIDE DEF built, found
  <1>4. /\ JobsOf(found) \in Seq(Projects)
        /\ \A i, j \in DOMAIN JobsOf(found) : JobsOf(found)[i] = JobsOf(found)[j] => i = j
        /\ \A i \in DOMAIN JobsOf(found) : found[JobsOf(found)[i]].runtime # {}
    BY JobsOfFacts
  <1>5. ASSUME m = "multi", IsTypecheckOnlyRun(m, a) PROVE JobsOf(found) = <<>>
    <2> DEFINE jobs == JobsOf(found)
    <2>1. jobs \in Seq(Projects) /\ \A i \in DOMAIN jobs : found[jobs[i]].runtime # {}
      BY <1>4
    <2> HIDE DEF jobs
    <2>2. \A i \in DOMAIN jobs : jobs[i] \in Projects
      BY <2>1
    <2>3. \A i \in DOMAIN jobs : FALSE
      BY <1>3, <1>5, <2>1, <2>2
    <2>4. jobs = <<>>
      BY <2>1, <2>3
    <2> QED
      BY <2>4 DEF jobs
  <1>6. HasTypes(found) \in BOOLEAN /\ IsTypecheckOnlyRun(m, a) \in BOOLEAN
    BY DEF HasTypes, IsTypecheckOnlyRun
  <1> QED
    BY <1>1, <1>2, <1>4, <1>5, <1>6 DEF built

LEMMA RunInvInit == CliInit => RunInv
  <1> SUFFICES ASSUME CliInit PROVE RunInv
    OBVIOUS
  <1>1. /\ pc = "start" /\ mode \in Modes /\ plan = NoPlan /\ backend = "none"
        /\ dispatch = "idle" /\ checker = "none" /\ err = "none" /\ exit = NoExit
        /\ raw = <<>> /\ bailed = {} /\ rows = <<>> /\ saved = {} /\ closable = FALSE /\ gated = {}
        /\ asked.cli \in CliLayers
    BY DEF CliInit
  <1>2. /\ plan.jobs = <<>> /\ plan.idle = {} /\ plan.types = FALSE /\ plan.local = FALSE
        /\ plan.verdict = "none"
    BY <1>1 DEF NoPlan
  <1>3. CliTypeOK
    <2>1. plan.jobs \in Seq(Projects)
      <3>1. <<>> \in Seq(Projects)
        OBVIOUS
      <3> QED
        BY <1>2, <3>1
    <2>2. plan.types \in BOOLEAN /\ plan.local \in BOOLEAN
      BY <1>2
    <2>3. plan.idle \subseteq Projects /\ bailed \subseteq DOMAIN plan.jobs /\ saved \subseteq Projects
      BY <1>1, <1>2
    <2> QED
      BY <1>1, <1>2, <2>1, <2>2, <2>3 DEF CliTypeOK, Pcs
  <1> QED
    BY <1>1, <1>2, <1>3
       DEF RunInv, OpenedIsClosed, NothingOpenedForNothing, AskedFor, Planned, Course, CodeSet,
           NothingBrought, Early, Late, Rejected

\* A step that leaves plan, dispatch and results alone brings nothing.
LEMMA BringsNothing ==
  ASSUME NothingBrought \/ Brought, UNCHANGED <<mode, plan, dispatch, results>>
  PROVE  (NothingBrought \/ Brought)'
  BY DEF results, NothingBrought, Brought, BailHasCause, Entries, RawEntries

LEMMA StartKeeps ==
  ASSUME RunInv, FailToStart \/ NoneAffected \/ ResolveWorkspaceBackend \/ PreflightFails
  PROVE  RunInv'
  <1>1. CASE FailToStart
    <2>1. (NothingBrought \/ Brought)'
      BY <1>1, BringsNothing DEF FailToStart, selection, RunInv
    <2> QED
      BY <1>1, <2>1
         DEF FailToStart, Step, Throw, selection, results, RunInv, CliTypeOK, Pcs,
             OpenedIsClosed,
         NothingOpenedForNothing, AskedFor, Planned, Course, CodeSet, Early, Late, Rejected, NoExit
  <1>2. CASE PreflightFails
    <2>1. (NothingBrought \/ Brought)'
      BY <1>2, BringsNothing DEF PreflightFails, selection, RunInv
    <2> QED
      BY <1>2, <2>1
         DEF PreflightFails, Step, Throw, selection, results, RunInv, CliTypeOK, Pcs,
             OpenedIsClosed,
         NothingOpenedForNothing, AskedFor, Planned, Course, CodeSet, Early, Late, Rejected, NoExit
  <1>3. CASE ResolveWorkspaceBackend
    <2>1. (NothingBrought \/ Brought)'
      BY <1>3, BringsNothing DEF ResolveWorkspaceBackend, selection, RunInv
    <2>2. plan.local = FALSE
      BY <1>3 DEF ResolveWorkspaceBackend, Step, RunInv, AskedFor, NoPlan
    <2> QED
      BY <1>3, <2>1, <2>2
         DEF ResolveWorkspaceBackend, OpenBackend, Step, Throw, selection, results, RunInv,
             CliTypeOK, Pcs, OpenedIsClosed,
         NothingOpenedForNothing, AskedFor, Planned, Course, CodeSet, Early, Late, Rejected, NoExit
  <1>4. CASE NoneAffected
    <2>1. /\ plan'.jobs = <<>> /\ plan'.idle = {} /\ plan'.types = FALSE /\ plan'.local = FALSE
          /\ plan'.verdict = "lenient"
      BY <1>4 DEF NoneAffected, NoPlan
    <2>2. NothingBrought'
      BY <1>4, <2>1 DEF NoneAffected, Step, results, RunInv, Course, Early, NothingBrought, Brought
    <2> QED
      BY <1>4, <2>1, <2>2
         DEF NoneAffected, Step, Throw, RunInv, CliTypeOK, Pcs, OpenedIsClosed, results,
         NothingOpenedForNothing, AskedFor, Planned, Course, CodeSet, Early, Late, Rejected, NoExit, NothingToRun
  <1> QED
    BY <1>1, <1>2, <1>3, <1>4

LEMMA SelectKeeps == ASSUME RunInv, Select PROVE RunInv'
  <1>1. /\ pc \in {"start", "select"} /\ pc = (IF mode = "multi" THEN "start" ELSE "select") /\ pc' = "planned"
        /\ asked' \in Requests(mode, asked.cli)
        /\ picked' = Picked(mode, asked') /\ plan' = BuildTestPlan(mode, asked')
        /\ UNCHANGED <<mode, backend, closable, gated, dispatch, results, checker, err, exit>>
    BY DEF Select, Step
  <1>2. mode \in Modes /\ asked.cli \in CliLayers
    BY <1>1 DEF RunInv, CliTypeOK, AskedFor
  <1>3. Answerable(asked') /\ asked'.cli = asked.cli
    BY <1>1, <1>2, RequestsAssumption DEF Answerable
  <1>4. /\ plan'.jobs \in Seq(Projects)
        /\ \A i, j \in DOMAIN plan'.jobs : plan'.jobs[i] = plan'.jobs[j] => i = j
        /\ plan'.idle \subseteq Projects /\ plan'.types \in BOOLEAN /\ plan'.local \in BOOLEAN
        /\ plan'.verdict \in NothingToRun \cup {"run"}
        /\ mode = "multi" /\ plan'.local => plan'.jobs = <<>>
    BY <1>1, <1>2, PlanFacts
  <1>5. plan'.local => backend = "none"
    <2>1. plan'.local = IsTypecheckOnlyRun(mode, asked')
      BY <1>1 DEF BuildTestPlan
    <2> QED
      BY <1>1, <1>3, <2>1 DEF IsTypecheckOnlyRun, RunInv, AskedFor
  <1>6. NothingBrought'
    BY <1>1 DEF results, RunInv, Course, Early, NothingBrought, Brought
  <1>7. CliTypeOK'
    BY <1>1, <1>4, <1>6 DEF RunInv, CliTypeOK, Pcs, NothingBrought, NothingToRun, results
  <1>8. Planned'
    BY <1>1, <1>4 DEF Planned
  <1>9. AskedFor'
    BY <1>1, <1>3 DEF RunInv, AskedFor, Answerable
  <1>10. Course'
    BY <1>1, <1>4 DEF RunInv, Course, Early, Late, Rejected, NothingToRun
  <1> QED
    BY <1>1, <1>5, <1>6, <1>7, <1>8, <1>9, <1>10
       DEF RunInv, OpenedIsClosed, NothingOpenedForNothing, AskedFor, CodeSet

LEMMA PlannedKeeps ==
  ASSUME RunInv, StopOnPlan \/ RunTypecheckOnly \/ ResolveRunBackend \/ ResolveRunBackendFails \/ StartStaging
  PROVE  RunInv'
  <1>1. CASE StopOnPlan
    <2>1. (NothingBrought \/ Brought)'
      BY <1>1, BringsNothing DEF StopOnPlan, selection, results, RunInv
    <2> QED
      BY <1>1, <2>1
         DEF StopOnPlan, Step, Forget, NothingToRun, selection, results, RunInv, CliTypeOK, Pcs,
             OpenedIsClosed, NothingOpenedForNothing, AskedFor, Planned, Course, CodeSet, Early,
             Late, Rejected, NoExit
  <1>2. CASE RunTypecheckOnly
    <2>1. plan.jobs = <<>>
      BY <1>2 DEF RunTypecheckOnly, RunsOnHost, RunInv, Planned, CliTypeOK, Modes
    <2>2. NothingBrought'
      BY <1>2, <2>1
         DEF RunTypecheckOnly, Step, results, RunInv, Course, Early, NothingBrought, Brought
    <2> QED
      BY <1>2, <2>2
         DEF RunTypecheckOnly, Step, Forget, CheckTypes, selection, results, RunInv, CliTypeOK,
             Pcs, OpenedIsClosed, NothingOpenedForNothing, AskedFor, Planned, Course, CodeSet,
             Early, Late, Rejected, NoExit
  <1>3. CASE ResolveRunBackend
    <2>1. (NothingBrought \/ Brought)'
      BY <1>3, BringsNothing DEF ResolveRunBackend, selection, results, RunInv
    <2> QED
      BY <1>3, <2>1
         DEF ResolveRunBackend, Step, Forget, OpenBackend, RunsOnHost, selection, results, RunInv,
             CliTypeOK, Pcs, OpenedIsClosed, NothingOpenedForNothing, AskedFor, Planned, Course,
             CodeSet, Early, Late, Rejected, NoExit
  <1>4. CASE ResolveRunBackendFails
    <2>1. (NothingBrought \/ Brought)'
      BY <1>4, BringsNothing DEF ResolveRunBackendFails, selection, results, RunInv
    <2> QED
      BY <1>4, <2>1
         DEF ResolveRunBackendFails, Step, Forget, Throw, selection, results, RunInv, CliTypeOK,
             Pcs, OpenedIsClosed, NothingOpenedForNothing, AskedFor, Planned, Course, CodeSet,
             Early, Late, Rejected, NoExit
  <1>5. CASE StartStaging
    <2>1. (NothingBrought \/ Brought)'
      BY <1>5, BringsNothing DEF StartStaging, selection, results, RunInv
    <2> QED
      BY <1>5, <2>1
         DEF StartStaging, Step, Forget, selection, results, RunInv, CliTypeOK, Pcs,
             OpenedIsClosed, NothingOpenedForNothing, AskedFor, Planned, Course, CodeSet, Early,
             Late, Rejected, NoExit
  <1> QED
    BY <1>1, <1>2, <1>3, <1>4, <1>5

LEMMA StagingKeeps == ASSUME RunInv, StageAndLaunch \/ StageFails PROVE RunInv'
  <1>1. CASE StageAndLaunch
    <2>1. NothingBrought'
      BY <1>1
         DEF StageAndLaunch, Step, selection, results, RunInv, Course, Early, NothingBrought,
             Brought
    <2> QED
      BY <1>1, <2>1
         DEF StageAndLaunch, Step, CheckTypes, selection, results, RunInv, CliTypeOK, Pcs,
             OpenedIsClosed, NothingOpenedForNothing, AskedFor, Planned, Course, CodeSet, Early,
             Late, Rejected, NoExit
  <1>2. CASE StageFails
    <2>1. (NothingBrought \/ Brought)'
      BY <1>2, BringsNothing DEF StageFails, selection, results, RunInv
    <2> QED
      BY <1>2, <2>1
         DEF StageFails, Step, Throw, selection, results, RunInv, CliTypeOK, Pcs, OpenedIsClosed,
             NothingOpenedForNothing, AskedFor, Planned, Course, CodeSet, Early, Late, Rejected,
             NoExit
  <1> QED
    BY <1>1, <1>2

LEMMA CloseKeeps == ASSUME RunInv, Join \/ SinksFail \/ CloseBackend PROVE RunInv'
  <1>1. CASE Join
    <2>1. (NothingBrought \/ Brought)'
      BY <1>1, BringsNothing DEF Join, selection, results, RunInv
    <2> QED
      BY <1>1, <2>1
         DEF Join, Step, Settled, selection, results, RunInv, CliTypeOK, Pcs, OpenedIsClosed,
             NothingOpenedForNothing, AskedFor, Planned, Course, CodeSet, Early, Late, Rejected,
             NoExit
  <1>2. CASE SinksFail
    <2>1. (NothingBrought \/ Brought)'
      BY <1>2, BringsNothing DEF SinksFail, selection, results, RunInv
    <2> QED
      BY <1>2, <2>1
         DEF SinksFail, Step, Settled, Throw, selection, results, RunInv, CliTypeOK, Pcs,
             OpenedIsClosed, NothingOpenedForNothing, AskedFor, Planned, Course, CodeSet, Early,
             Late, Rejected, NoExit
  <1>3. CASE CloseBackend
    <2>1. (NothingBrought \/ Brought)'
      BY <1>3, BringsNothing DEF CloseBackend, selection, results, RunInv
    <2> QED
      BY <1>3, <2>1
         DEF CloseBackend, Step, selection, results, RunInv, CliTypeOK, Pcs, OpenedIsClosed,
             NothingOpenedForNothing, AskedFor, Planned, Course, CodeSet, Early, Late, Rejected,
             NoExit
  <1> QED
    BY <1>1, <1>2, <1>3

LEMMA EndKeeps == ASSUME RunInv, OutputMultiResult \/ OutputFails \/ SetExitCode PROVE RunInv'
  <1>1. CASE OutputMultiResult
    <2>1. (NothingBrought \/ Brought)'
      BY <1>1, BringsNothing DEF OutputMultiResult, selection, results, RunInv
    <2> QED
      BY <1>1, <2>1
         DEF OutputMultiResult, Step, EmitFinalStatus, UnitOf, TypesPass, selection, results,
             RunInv, CliTypeOK, Pcs, OpenedIsClosed, NothingOpenedForNothing, AskedFor, Planned,
             Course, CodeSet, Early, Late, Rejected, NoExit
  <1>2. CASE OutputFails
    <2>1. (NothingBrought \/ Brought)'
      BY <1>2, BringsNothing DEF OutputFails, selection, results, RunInv
    <2> QED
      BY <1>2, <2>1
         DEF OutputFails, Step, Throw, selection, results, RunInv, CliTypeOK, Pcs, OpenedIsClosed,
             NothingOpenedForNothing, AskedFor, Planned, Course, CodeSet, Early, Late, Rejected,
             NoExit
  <1>3. CASE SetExitCode
    <2>1. (NothingBrought \/ Brought)'
      BY <1>3, BringsNothing DEF SetExitCode, selection, results, RunInv
    <2> QED
      BY <1>3, <2>1
         DEF SetExitCode, Step, ExitCode, selection, results, RunInv, CliTypeOK, Pcs,
             OpenedIsClosed, NothingOpenedForNothing, AskedFor, Planned, Course, CodeSet, Early,
             Late, Rejected, NoExit
  <1> QED
    BY <1>1, <1>2, <1>3

RawEntry == [project : Projects, kind : Kinds]

\* An answer has an entry for each job that ran, in job order.
LEMMA RawEntriesFacts ==
  ASSUME plan.jobs \in Seq(Projects), NEW skipped, skipped \subseteq DOMAIN plan.jobs,
         NEW kinds \in [1..Cardinality(DOMAIN plan.jobs \ skipped) -> Kinds]
  PROVE  LET ran == InOrder(DOMAIN plan.jobs \ skipped)
             entries == RawEntries(skipped, kinds)
             c == Cardinality(DOMAIN plan.jobs \ skipped)
         IN /\ c \in Nat /\ entries \in Seq(RawEntry) /\ Len(entries) = c /\ DOMAIN entries = 1..c
            /\ \A i \in 1..c : /\ ran[i] \in DOMAIN plan.jobs \ skipped
                               /\ entries[i].project = plan.jobs[ran[i]]
                               /\ entries[i].kind = kinds[i]
            /\ \A i, j \in 1..c : ran[i] = ran[j] => i = j
            /\ \A k \in DOMAIN plan.jobs \ skipped : \E i \in 1..c : ran[i] = k
  <1> DEFINE left == DOMAIN plan.jobs \ skipped
             c == Cardinality(left)
             ran == InOrder(left)
             entries == RawEntries(skipped, kinds)
  <1>1. Len(plan.jobs) \in Nat /\ left \subseteq 1..Len(plan.jobs) /\ left \subseteq DOMAIN plan.jobs
    OBVIOUS
  <1>2. entries = [i \in 1..c |-> [project |-> plan.jobs[ran[i]], kind |-> kinds[i]]]
    BY DEF RawEntries
  <1>3. kinds \in [1..c -> Kinds]
    OBVIOUS
  <1> HIDE DEF left, entries
  <1>4. /\ c \in Nat /\ ran \in [1..c -> left]
        /\ \A i, j \in 1..c : ran[i] = ran[j] => i = j
        /\ \A k \in left : \E i \in 1..c : ran[i] = k
    BY <1>1, InOrderFacts
  <1> HIDE DEF c, ran
  <1>5. \A i \in 1..c : ran[i] \in left /\ plan.jobs[ran[i]] \in Projects /\ kinds[i] \in Kinds
    <2>1. \A k \in DOMAIN plan.jobs : plan.jobs[k] \in Projects
      OBVIOUS
    <2>2. \A i \in 1..c : ran[i] \in left
      BY <1>4
    <2> QED
      BY <1>1, <1>3, <2>1, <2>2
  <1>6. entries \in [1..c -> RawEntry]
    BY <1>2, <1>5 DEF RawEntry
  <1>7. entries \in Seq(RawEntry) /\ Len(entries) = c /\ DOMAIN entries = 1..c
    BY <1>4, <1>6
  <1>8. \A i \in 1..c : entries[i].project = plan.jobs[ran[i]] /\ entries[i].kind = kinds[i]
    BY <1>2
  <1> QED
    BY <1>4, <1>5, <1>7, <1>8 DEF left, c, ran, entries

\* The snapshots on disk: those of the entries before the first that throws.
LEMMA SnapshotsFacts ==
  ASSUME NEW entries \in Seq(RawEntry)
  PROVE  /\ SnapshotsOf(entries) \subseteq Projects
         /\ \A i \in DOMAIN entries :
              \/ entries[i].project \in SnapshotsOf(entries)
              \/ entries[i].kind \in {"luau", "unwritable"}
              \/ \E j \in 1..i : entries[j].kind \in Aborting
  <1> DEFINE done == Processed(entries)
             Stops(n) == /\ DOMAIN done = 1..n /\ \A i \in 1..n : done[i] = entries[i]
                         /\ n < Len(entries) => entries[n + 1].kind \in Aborting
  <1>1. /\ Len(entries) \in Nat /\ DOMAIN entries = 1..Len(entries)
        /\ \A i \in 1..Len(entries) : entries[i] \in RawEntry
    OBVIOUS
  <1>3. SnapshotsOf(entries) = {done[i].project : i \in {j \in DOMAIN done : WritesSnapshots(done[j])}}
    BY DEF SnapshotsOf
  <1>7. done = IF Aborts(entries) THEN SubSeq(entries, 1, FirstAbort(entries) - 1) ELSE entries
    BY DEF Processed
  <1> HIDE DEF done, Stops
  <1>2. \E n \in 0..Len(entries) : Stops(n)
    <2>1. CASE Aborts(entries)
      <3> DEFINE T == {i \in DOMAIN entries : entries[i].kind \in Aborting}
                 f == FirstAbort(entries)
      <3>1. T \subseteq Nat /\ T # {} /\ \A i \in T : i \in 1..Len(entries) /\ entries[i].kind \in Aborting
        BY <1>1, <2>1 DEF Aborts
      <3>2. PICK m \in T : \A i \in T : m <= i
        <4> HIDE DEF T
        <4> QED
          BY <3>1, LeastExists
      <3>3. m \in DOMAIN entries /\ entries[m].kind \in Aborting
            /\ \A j \in 1..(m - 1) : entries[j].kind \notin Aborting
        BY <1>1, <3>2
      <3>4. f \in DOMAIN entries /\ entries[f].kind \in Aborting
        BY <3>3 DEF FirstAbort
      <3> HIDE DEF f
      <3>5. done = SubSeq(entries, 1, f - 1) /\ f \in 1..Len(entries)
        BY <1>1, <1>7, <2>1, <3>4 DEF f
      <3>6. DOMAIN done = 1..(f - 1) /\ \A i \in 1..(f - 1) : done[i] = entries[i]
        BY <1>1, <3>5
      <3> DEFINE g == f - 1
      <3>7. g \in 0..Len(entries) /\ entries[g + 1].kind \in Aborting
        BY <1>1, <3>4, <3>5
      <3>8. Stops(g)
        BY <3>6, <3>7 DEF Stops
      <3> QED
        BY <3>7, <3>8
    <2>2. CASE ~Aborts(entries)
      <3>1. done = entries
        BY <1>7, <2>2
      <3>2. Len(entries) \in 0..Len(entries) /\ Stops(Len(entries))
        BY <1>1, <3>1 DEF Stops
      <3> QED
        BY <3>2
    <2> QED
      BY <2>1, <2>2
  <1>4. PICK n \in 0..Len(entries) : Stops(n)
    BY <1>2
  <1>5. \A i \in 1..n : done[i] \in RawEntry /\ done[i].project \in Projects
    <2>1. \A i \in 1..n : done[i] \in RawEntry
      BY <1>1, <1>4 DEF Stops
    <2> QED
      BY <2>1 DEF RawEntry
  <1>6. ASSUME NEW i \in DOMAIN entries
        PROVE  \/ entries[i].project \in SnapshotsOf(entries)
               \/ entries[i].kind \in {"luau", "unwritable"}
               \/ \E j \in 1..i : entries[j].kind \in Aborting
    <2>1. CASE i <= n
      BY <1>1, <1>3, <1>4, <1>6, <2>1 DEF Stops, WritesSnapshots
    <2>2. CASE i > n
      <3>1. n + 1 \in 1..i /\ n < Len(entries)
        BY <1>1, <1>4, <2>2
      <3> QED
        BY <1>4, <3>1 DEF Stops
    <2> QED
      BY <1>1, <1>4, <2>1, <2>2
  <1> QED
    BY <1>3, <1>4, <1>5, <1>6 DEF Stops

LEMMA AnswerKeeps == ASSUME RunInv, DispatchAnswers PROVE RunInv'
  <1>1. /\ dispatch = "running" /\ bailed' \in SUBSET DOMAIN plan.jobs
        /\ raw' \in [1..Cardinality(DOMAIN plan.jobs \ bailed') -> Kinds]
        /\ BailHasCause(bailed', raw')
        /\ Process(RawEntries(bailed', raw'))
        /\ UNCHANGED <<mode, pc, selection, backend, closable, gated, checker, exit>>
    BY DEF DispatchAnswers, CanAnswer
  <1>2. UNCHANGED <<asked, picked, plan>>
    BY <1>1 DEF selection
  <1> DEFINE entries == RawEntries(bailed', raw')
  <1>3. Entries' = entries /\ BailHasCause(bailed, raw)' = BailHasCause(bailed', raw')
    BY <1>1, <1>2 DEF Entries, RawEntries, BailHasCause
  <1>4. entries \in Seq(RawEntry)
    BY <1>1, RawEntriesFacts DEF RunInv, CliTypeOK
  <1> HIDE DEF entries
  <1>5. saved' = SnapshotsOf(entries) /\ saved' \subseteq Projects
    BY <1>1, <1>4, SnapshotsFacts DEF Process, entries
  <1>6. /\ dispatch' = IF Aborts(entries) THEN "rejected" ELSE "settled"
        /\ rows' = IF Aborts(entries) THEN rows ELSE RunProjects(plan.jobs, bailed', entries, plan.idle)
        /\ err' \in {"none", "run", "infra"}
        /\ IF Aborts(entries) /\ pc = "running" THEN err' # "none" /\ (err # "none" => err' = err) ELSE err' = err
    BY <1>1 DEF Process, ThrowIfAwaited, Throw, entries, RunInv, CliTypeOK
  <1>7. Brought'
    <2>1. rows = <<>>
      BY <1>1 DEF RunInv, NothingBrought, Brought
    <2> QED
      BY <1>1, <1>2, <1>3, <1>5, <1>6, <2>1 DEF Brought
  <1>8. dispatch' \in {"settled", "rejected"} /\ (dispatch' = "rejected" => err' # "none")
    BY <1>1, <1>6 DEF RunInv, Course, Early, Late, CliTypeOK, Pcs
  <1>9. CliTypeOK'
    BY <1>1, <1>2, <1>5, <1>6, <1>8 DEF RunInv, CliTypeOK
  <1>10. Course'
    BY <1>1, <1>2, <1>6, <1>8 DEF RunInv, CliTypeOK, Pcs, Course, Early, Late, Rejected
  <1>11. CodeSet'
    BY <1>1, <1>2, <1>6 DEF RunInv, CodeSet, Course, Late, ExitCode
  <1> QED
    BY <1>1, <1>2, <1>7, <1>9, <1>10, <1>11
       DEF RunInv, OpenedIsClosed, NothingOpenedForNothing, AskedFor, Planned

LEMMA FailKeeps == ASSUME RunInv, DispatchFails PROVE RunInv'
  <1>1. /\ dispatch = "running" /\ dispatch' = "rejected"
        /\ UNCHANGED <<mode, pc, asked, picked, plan, backend, closable, gated, raw, bailed, rows, saved, checker, exit>>
    BY DEF DispatchFails, selection, results
  <1>2. err' \in {"none", "run", "infra"} /\ IF pc = "running" THEN err' # "none" ELSE err' = err
    BY DEF DispatchFails, ThrowIfAwaited, Throw, RunInv, CliTypeOK
  <1>3. NothingBrought'
    BY <1>1 DEF RunInv, NothingBrought, Brought
  <1>4. CliTypeOK'
    BY <1>1, <1>2 DEF RunInv, CliTypeOK
  <1>5. Course'
    BY <1>1, <1>2 DEF RunInv, CliTypeOK, Pcs, Course, Early, Late, Rejected
  <1>6. CodeSet'
    BY <1>1, <1>2 DEF RunInv, CodeSet, Course, Late, ExitCode
  <1> QED
    BY <1>1, <1>3, <1>4, <1>5, <1>6
       DEF RunInv, OpenedIsClosed, NothingOpenedForNothing, AskedFor, Planned

LEMMA CheckerKeeps == ASSUME RunInv, CheckerEnds PROVE RunInv'
  <1>1. (NothingBrought \/ Brought)'
    BY BringsNothing DEF CheckerEnds, selection, RunInv
  <1>2. /\ checker = "running" /\ checker' \in {"clean", "errors", "rejected"}
        /\ UNCHANGED <<mode, pc, asked, picked, plan, backend, closable, gated, dispatch, raw, bailed,
                       rows, saved, exit>>
    BY DEF CheckerEnds, selection, results
  <1>3. /\ err' \in {"none", "run", "infra"}
        /\ IF checker' = "rejected" /\ pc = "running"
           THEN err' = IF err = "none" THEN "run" ELSE err
           ELSE err' = err
    BY DEF CheckerEnds, ThrowIfAwaited, Throw, RunInv, CliTypeOK
  <1>4. CliTypeOK'
    BY <1>2, <1>3 DEF RunInv, CliTypeOK
  <1>5. Course'
    BY <1>2, <1>3 DEF RunInv, CliTypeOK, Pcs, Course, Early, Late, Rejected
  <1>6. CodeSet'
    BY <1>2, <1>3 DEF RunInv, CodeSet, Course, Late, ExitCode
  <1> QED
    BY <1>1, <1>2, <1>4, <1>5, <1>6
       DEF RunInv, OpenedIsClosed, NothingOpenedForNothing, AskedFor, Planned

LEMMA RunInvNext == RunInv /\ [CliNext]_cliVars => RunInv'
  <1> SUFFICES ASSUME RunInv, [CliNext]_cliVars PROVE RunInv'
    OBVIOUS
  <1>1. CASE UNCHANGED cliVars
    <2>1. (NothingBrought \/ Brought)'
      BY <1>1, BringsNothing DEF cliVars, selection, RunInv
    <2> QED
      BY <1>1, <2>1
         DEF cliVars, selection, results, RunInv, CliTypeOK, Pcs, OpenedIsClosed,
             NothingOpenedForNothing, AskedFor, Planned, Course, CodeSet, Early, Late, Rejected,
             NoExit, UnitOf, TypesPass, ExitCode
  <1> QED
    BY <1>1, StartKeeps, SelectKeeps, PlannedKeeps, StagingKeeps, CloseKeeps, EndKeeps,
       AnswerKeeps,
       FailKeeps, CheckerKeeps DEF CliNext, HostStep, DispatchEnds

LEMMA RunInvHolds == CliSpec => []RunInv
  BY RunInvInit, RunInvNext, PTL DEF CliSpec

\* Snapshots land before the exit code is set, for every plan and every answer,
\* but for a dispatch that the type checker's rejection left behind, and then the
\* code is 2 (run/execution.ts, runTestPlanAsync).
THEOREM NothingWrittenLate == CliSpec => OnlyOrphansWriteLate
  <1>1. ASSUME RunInv, [CliNext]_cliVars, saved' # saved, exit # NoExit
        PROVE  exit = 2 /\ checker = "rejected"
    <2>1. dispatch = "running"
      BY <1>1
         DEF CliNext, HostStep, DispatchEnds, DispatchAnswers, CanAnswer, DispatchFails,
             CheckerEnds,
         FailToStart, NoneAffected, ResolveWorkspaceBackend, PreflightFails, Select, StopOnPlan,
         RunTypecheckOnly, ResolveRunBackend, ResolveRunBackendFails, StartStaging, StageAndLaunch,
         StageFails, Join, SinksFail, CloseBackend, OutputMultiResult, OutputFails, SetExitCode,
         cliVars, results
    <2>2. pc = "done" /\ err = "run" /\ checker = "rejected"
      BY <1>1, <2>1 DEF RunInv, CodeSet, Course, Late
    <2>3. CodeSet /\ err # "none"
      BY <1>1, <2>2 DEF RunInv
    <2>4. exit = ExitCode
      BY <2>2, <2>3 DEF CodeSet
    <2>5. ExitCode = 2
      <3>1. err = "run" /\ ~ (err = "infra")
        BY <2>2
      <3> QED
        BY <3>1 DEF ExitCode
    <2> QED
      BY <2>2, <2>4, <2>5
  <1> QED
    BY <1>1, RunInvHolds, PTL DEF CliSpec, OnlyOrphansWriteLate

-----------------------------------------------------------------------------
(***************************************************************************)
(* CliRun: results, snapshots and their projects.                          *)
(***************************************************************************)
\* Entries, when the dispatch has brought any.
LEMMA EntriesFacts ==
  ASSUME RunInv, Brought
  PROVE  LET ran == InOrder(DOMAIN plan.jobs \ bailed)
             c == Cardinality(DOMAIN plan.jobs \ bailed)
         IN /\ c \in Nat /\ Entries \in Seq(RawEntry) /\ Len(Entries) = c /\ DOMAIN Entries = 1..c
            /\ raw \in [1..c -> Kinds] /\ Len(raw) = c /\ DOMAIN raw = 1..c
            /\ \A i \in 1..c : /\ ran[i] \in DOMAIN plan.jobs \ bailed
                               /\ Entries[i].project = plan.jobs[ran[i]]
                               /\ Entries[i].project \in Projects
                               /\ Entries[i].kind = raw[i]
            /\ \A i, j \in 1..c : ran[i] = ran[j] => i = j
            /\ \A k \in DOMAIN plan.jobs \ bailed : \E i \in 1..c : ran[i] = k
  <1> DEFINE left == DOMAIN plan.jobs \ bailed
             c == Cardinality(left)
             ran == InOrder(left)
  <1>1. plan.jobs \in Seq(Projects) /\ bailed \subseteq DOMAIN plan.jobs /\ raw \in [1..c -> Kinds]
    BY DEF RunInv, CliTypeOK, Brought
  <1>2. /\ c \in Nat /\ Entries \in Seq(RawEntry) /\ Len(Entries) = c /\ DOMAIN Entries = 1..c
        /\ \A i \in 1..c : /\ ran[i] \in left
                           /\ Entries[i].project = plan.jobs[ran[i]]
                           /\ Entries[i].kind = raw[i]
        /\ \A i, j \in 1..c : ran[i] = ran[j] => i = j
        /\ \A k \in left : \E i \in 1..c : ran[i] = k
    BY <1>1, RawEntriesFacts DEF Entries
  <1>3. \A k \in DOMAIN plan.jobs : plan.jobs[k] \in Projects
    BY <1>1
  <1>4. left \subseteq DOMAIN plan.jobs
    OBVIOUS
  <1> HIDE DEF ran, c, left
  <1>5. Len(raw) = c /\ DOMAIN raw = 1..c
    BY <1>1, <1>2
  <1>6. \A i \in 1..c : Entries[i].project \in Projects
    BY <1>2, <1>3, <1>4
  <1> QED
    BY <1>1, <1>2, <1>5, <1>6 DEF ran, c, left

\* The rows, when there are any, are those entries, each under its project.
LEMMA RowsFacts ==
  ASSUME RunInv, Brought, dispatch = "settled"
  PROVE  /\ Len(rows) = Len(raw) /\ DOMAIN rows = 1..Len(raw)
         /\ \A i \in 1..Len(raw) : /\ rows[i].project = Entries[i].project
                                   /\ rows[i].result = ProcessOrRecoverEntry(Entries[i], plan.idle)
  <1> DEFINE ran == InOrder(DOMAIN plan.jobs \ bailed)
             c == Cardinality(DOMAIN plan.jobs \ bailed)
  <1>1. rows = RunProjects(plan.jobs, bailed, Entries, plan.idle)
    BY DEF Brought
  <1>2. /\ c \in Nat /\ Len(Entries) = c /\ Len(raw) = c
        /\ \A i \in 1..c : Entries[i].project = plan.jobs[ran[i]]
    BY EntriesFacts
  <1>3. rows = [i \in 1..c |-> [project |-> plan.jobs[ran[i]],
                                result |-> ProcessOrRecoverEntry(Entries[i], plan.idle)]]
    BY <1>1, <1>2 DEF RunProjects, SelectRanIndices
  <1> HIDE DEF ran, c
  <1> QED
    BY <1>2, <1>3

LEMMA PairedRows == RunInv => ResultsStayPaired
  <1> SUFFICES ASSUME RunInv, rows # <<>> PROVE
        /\ Len(rows) = Len(raw)
        /\ \A i \in DOMAIN rows :
             /\ rows[i].project = Entries[i].project
             /\ \A j \in DOMAIN rows : rows[i].project = rows[j].project => i = j
        /\ mode = "workspace" =>
             \A k \in Packages :
               k \in BailedPackages(plan.jobs, bailed, PkgOf) <=>
                 /\ \E i \in DOMAIN plan.jobs : PkgOf[plan.jobs[i]] = k
                 /\ \A i \in DOMAIN rows : PkgOf[rows[i].project] # k
    BY DEF ResultsStayPaired
  <1> DEFINE ran == InOrder(DOMAIN plan.jobs \ bailed)
             c == Cardinality(DOMAIN plan.jobs \ bailed)
  <1>1. Brought /\ dispatch = "settled"
    BY DEF RunInv, NothingBrought, Brought
  <1>2. /\ c \in Nat /\ Len(raw) = c
        /\ \A i \in 1..c : /\ ran[i] \in DOMAIN plan.jobs \ bailed
                           /\ Entries[i].project = plan.jobs[ran[i]]
        /\ \A i, j \in 1..c : ran[i] = ran[j] => i = j
        /\ \A k \in DOMAIN plan.jobs \ bailed : \E i \in 1..c : ran[i] = k
    BY <1>1, EntriesFacts
  <1>3. /\ Len(rows) = c /\ DOMAIN rows = 1..c
        /\ \A i \in 1..c : rows[i].project = Entries[i].project
    BY <1>1, <1>2, RowsFacts
  <1> HIDE DEF ran, c
  <1>4. \A i, j \in DOMAIN plan.jobs : plan.jobs[i] = plan.jobs[j] => i = j
    BY DEF RunInv, Planned
  <1>5. \A i, j \in 1..c : rows[i].project = rows[j].project => i = j
    BY <1>2, <1>3, <1>4
  <1>6. plan.jobs \in Seq(Projects) /\ bailed \subseteq DOMAIN plan.jobs
    BY DEF RunInv, CliTypeOK
  <1>7. DOMAIN plan.jobs = 1..Len(plan.jobs)
    BY <1>6
  <1>8. ASSUME NEW k
        PROVE  k \in BailedPackages(plan.jobs, bailed, PkgOf) <=>
                 /\ \E i \in DOMAIN plan.jobs : PkgOf[plan.jobs[i]] = k
                 /\ \A i \in 1..c : PkgOf[rows[i].project] # k
    <2>1. k \in BailedPackages(plan.jobs, bailed, PkgOf) <=>
            /\ \E i \in bailed : PkgOf[plan.jobs[i]] = k
            /\ \A i \in DOMAIN plan.jobs \ bailed : PkgOf[plan.jobs[i]] # k
      BY <1>7 DEF BailedPackages
    <2>2. (\A i \in 1..c : PkgOf[rows[i].project] # k)
            <=> \A i \in DOMAIN plan.jobs \ bailed : PkgOf[plan.jobs[i]] # k
      BY <1>2, <1>3
    <2> QED
      BY <1>6, <2>1, <2>2
  <1> QED
    BY <1>2, <1>3, <1>5, <1>8

LEMMA KeptSnapshots == RunInv => SiblingsSurvive
  <1> SUFFICES ASSUME RunInv, NEW i \in DOMAIN raw
               PROVE  \/ Entries[i].project \in saved
                      \/ raw[i] \in {"luau", "unwritable"}
                      \/ \E j \in 1..i : raw[j] \in Aborting /\ exit \in {2, 3, NoExit}
    BY DEF SiblingsSurvive
  <1>1. Brought
    BY DEF RunInv, NothingBrought
  <1>2. /\ Entries \in Seq(RawEntry) /\ DOMAIN Entries = DOMAIN raw
        /\ \A k \in DOMAIN raw : Entries[k].kind = raw[k]
        /\ Len(raw) \in Nat /\ DOMAIN raw = 1..Len(raw)
    BY <1>1, EntriesFacts
  <1>3. saved = SnapshotsOf(Entries)
    BY <1>1 DEF Brought
  <1>4. \/ Entries[i].project \in saved
        \/ Entries[i].kind \in {"luau", "unwritable"}
        \/ \E j \in 1..i : Entries[j].kind \in Aborting
    BY <1>2, <1>3, SnapshotsFacts
  <1>5. ASSUME NEW j \in 1..i, Entries[j].kind \in Aborting
        PROVE  raw[j] \in Aborting /\ exit \in {2, 3, NoExit}
    <2>1. j \in DOMAIN Entries
      BY <1>2
    <2>2. Aborts(Entries)
      BY <1>5, <2>1 DEF Aborts
    <2>3. dispatch = "rejected"
      BY <1>1, <2>2 DEF Brought
    <2>4. err # "none"
      BY <2>3 DEF RunInv, Course, Rejected
    <2>5. exit = NoExit \/ exit = ExitCode
      BY <2>4 DEF RunInv, CodeSet
    <2>6. ExitCode \in {2, 3}
      BY <2>4 DEF ExitCode
    <2> QED
      BY <1>2, <1>5, <2>1, <2>5, <2>6
  <1> QED
    BY <1>2, <1>4, <1>5

\* For every plan and every answer: a backend that was opened is closed before a
\* code is set and none is opened for a run that will not dispatch (cli.ts,
\* runAsync; run/execution.ts), each result is shown under its own project whatever
\* a bail skipped (executor.ts, selectRanIndices), and one project's script failure
\* costs no other its snapshots (executor/process-entry.ts).
THEOREM RunKeepsApart == CliSpec => []CliInv
  <1>1. RunInv => CliInv
    BY PairedRows, KeptSnapshots DEF RunInv, CliInv
  <1> QED
    BY <1>1, RunInvHolds, PTL

-----------------------------------------------------------------------------
(***************************************************************************)
(* CliRun: the plan against the request.                                   *)
(***************************************************************************)
\* What a project outside the selection, or one inside it, has to run.
LEMMA PickedFacts ==
  ASSUME NEW m \in Modes, NEW a, NEW p \in Projects
  PROVE  LET found == Picked(m, a)[p] IN
         /\ found = [runtime |-> found.runtime, types |-> found.types]
         /\ p \notin Selected(m, a) => found.runtime = {} /\ found.types = {}
         /\ p \in Selected(m, a) /\ m = "multi" =>
              /\ found.runtime = IF Only(a, p) THEN {} ELSE DiscoverTestFiles(a, p) \ TypeTests
              /\ found.types = IF Enabled(a, p) THEN DiscoverTestFiles(a, p) \cap TypeTests ELSE {}
         /\ p \in Selected(m, a) /\ m = "workspace" =>
              LET files == IF a.files # {} THEN a.files \cap Owned(p) ELSE a.disk \cap Owned(p) IN
              /\ found.runtime = IF Only(a, p) THEN {} ELSE files \ TypeTests
              /\ found.types = IF Enabled(a, p) THEN files \cap TypeTests ELSE {}
  <1>1. CASE p \notin Selected(m, a)
    BY <1>1 DEF Picked, NothingPicked
  <1>2. CASE p \in Selected(m, a) /\ m = "multi"
    <2>1. Picked(m, a)[p] = PlanProject(a, p)
      BY <1>2 DEF Picked
    <2> QED
      BY <1>2, <2>1 DEF PlanProject, ClassifyTestFiles
  <1>3. CASE p \in Selected(m, a) /\ m = "workspace"
    <2>1. Picked(m, a)[p] = WorkspaceFiles(a, p)
      BY <1>3 DEF Picked
    <2> QED
      BY <1>3, <2>1 DEF WorkspaceFiles, ClassifyTestFiles
  <1> QED
    BY <1>1, <1>2, <1>3 DEF Modes

\* A project runs what it was asked to run, of what is its own.
LEMMA PickedWithinRequest ==
  ASSUME NEW m \in Modes, NEW a, Answerable(a), NEW p \in Projects
  PROVE  LET found == Picked(m, a)[p]
             run == found.runtime \cup found.types
         IN /\ a.names # {} /\ p \notin a.names => run = {}
            /\ a.files # {} => run \subseteq a.files
            /\ (a.files # {} /\ a.names # {} /\ m = "multi") \/ run \subseteq Owned(p)
            /\ Only(a, p) => found.runtime = {}
  <1> DEFINE found == Picked(m, a)[p]
  <1>1. /\ p \notin Selected(m, a) => found.runtime = {} /\ found.types = {}
        /\ p \in Selected(m, a) /\ m = "multi" =>
             /\ found.runtime = IF Only(a, p) THEN {} ELSE DiscoverTestFiles(a, p) \ TypeTests
             /\ found.types = IF Enabled(a, p) THEN DiscoverTestFiles(a, p) \cap TypeTests ELSE {}
        /\ p \in Selected(m, a) /\ m = "workspace" =>
             LET files == IF a.files # {} THEN a.files \cap Owned(p) ELSE a.disk \cap Owned(p) IN
             /\ found.runtime = IF Only(a, p) THEN {} ELSE files \ TypeTests
             /\ found.types = IF Enabled(a, p) THEN files \cap TypeTests ELSE {}
    BY PickedFacts
  <1> HIDE DEF found
  <1>2. CASE p \notin Selected(m, a)
    BY <1>1, <1>2 DEF found
  <1>3. CASE p \in Selected(m, a) /\ m = "multi"
    <2>1. found.runtime \cup found.types \subseteq DiscoverTestFiles(a, p)
      BY <1>1, <1>3
    <2>2. Only(a, p) => found.runtime = {}
      BY <1>1, <1>3
    <2>3. p \in MultiSelected(a)
      BY <1>3 DEF Selected
    <2>4. CASE a.names # {}
      <3>1. p \in a.names
        BY <2>3, <2>4 DEF MultiSelected
      <3>2. DiscoverTestFiles(a, p) = IF a.files # {} THEN a.files ELSE a.disk \cap Owned(p) \cap a.pattern
        BY <2>4 DEF DiscoverTestFiles, CliFilesOf
      <3> QED
        BY <1>3, <2>1, <2>2, <2>4, <3>1, <3>2 DEF found
    <2>5. CASE a.names = {}
      <3>1. a.files = {} \/ a.files \cap Owned(p) # {}
        BY <2>3, <2>5 DEF MultiSelected
      <3>2. DiscoverTestFiles(a, p) = IF a.files # {} THEN a.files \cap Owned(p)
                                      ELSE a.disk \cap Owned(p) \cap a.pattern
        BY <2>5, <3>1 DEF DiscoverTestFiles, CliFilesOf
      <3> QED
        BY <2>1, <2>2, <2>5, <3>2 DEF found
    <2> QED
      BY <2>4, <2>5
  <1>4. CASE p \in Selected(m, a) /\ m = "workspace"
    <2>1. p \in WorkspaceNamed(a)
      BY <1>4 DEF Selected, WorkspaceSelected
    <2>2. a.names # {} => p \in a.names
      BY <2>1 DEF WorkspaceNamed
    <2> QED
      BY <1>1, <1>4, <2>2 DEF found
  <1> QED
    BY <1>2, <1>3, <1>4 DEF Modes

\* Of every test on disk nothing is left out but what the settings leave out.
LEMMA PickedIsComplete ==
  ASSUME NEW m \in Modes, NEW a, Answerable(a), a.files = {}, a.names = {}, a.pattern = TestFiles,
         NEW f \in a.disk, NEW p \in Owners[f]
  PROVE  \/ f \in Picked(m, a)[p].runtime \cup Picked(m, a)[p].types
         \/ IF f \in TypeTests THEN ~Enabled(a, p) ELSE Only(a, p)
  <1>1. f \in TestFiles /\ p \in Projects
    BY PlanAssumption DEF Answerable
  <1>2. f \in Owned(p)
    BY <1>1 DEF Owned
  <1>3. p \in Selected(m, a)
    BY <1>1 DEF Modes, Selected, MultiSelected, WorkspaceSelected, WorkspaceNamed
  <1>4. f \in DiscoverTestFiles(a, p)
    BY <1>1, <1>2 DEF DiscoverTestFiles, CliFilesOf
  <1>5. Picked(m, a)[p] = [runtime |-> Picked(m, a)[p].runtime, types |-> Picked(m, a)[p].types]
    BY <1>1, PickedFacts
  <1>6. CASE m = "multi"
    <2>1. /\ Picked(m, a)[p].runtime = IF Only(a, p) THEN {} ELSE DiscoverTestFiles(a, p) \ TypeTests
          /\ Picked(m, a)[p].types
               = IF Enabled(a, p) THEN DiscoverTestFiles(a, p) \cap TypeTests ELSE {}
      BY <1>1, <1>3, <1>6, PickedFacts
    <2> QED
      BY <1>4, <2>1
  <1>7. CASE m = "workspace"
    <2>1. /\ Picked(m, a)[p].runtime = IF Only(a, p) THEN {} ELSE (a.disk \cap Owned(p)) \ TypeTests
          /\ Picked(m, a)[p].types
               = IF Enabled(a, p) THEN (a.disk \cap Owned(p)) \cap TypeTests ELSE {}
      BY <1>1, <1>3, <1>7, PickedFacts
    <2> QED
      BY <1>2, <2>1
  <1> QED
    BY <1>6, <1>7 DEF Modes

\* A plan that passes without a test was allowed to.
LEMMA LenientFacts ==
  ASSUME NEW m \in Modes, NEW a, Answerable(a), Verdict(m, a, Picked(m, a)) = "lenient"
  PROVE  /\ \A p \in Projects : Picked(m, a)[p].runtime \cup Picked(m, a)[p].types = {}
         /\ \A p \in Selected(m, a) : PkgOf[p] \in a.lenient
  <1> DEFINE found == Picked(m, a)
  <1>1. /\ JobsOf(found) = <<>> /\ ~HasTypes(found)
        /\ ~ (m = "workspace" /\ EmptyPackages(a, found) # {})
        /\ ~ (m = "multi" /\ a.lenient # Packages)
    BY DEF Verdict
  <1>2. \A p \in Projects : found[p] = [runtime |-> found[p].runtime, types |-> found[p].types]
    BY PickedFacts
  <1> HIDE DEF found
  <1>3. \A p \in Projects : found[p].runtime = {}
    <2>1. \A p \in Projects : found[p].runtime # {} => \E i \in DOMAIN JobsOf(found) : JobsOf(found)[i] = p
      BY JobsOfFacts
    <2>2. DOMAIN JobsOf(found) = {}
      BY <1>1
    <2> QED
      BY <2>1, <2>2
  <1>4. \A p \in Projects : found[p].types = {}
    BY <1>1 DEF HasTypes
  <1>5. \A p \in Projects : found[p] = NothingPicked
    BY <1>2, <1>3, <1>4 DEF NothingPicked
  <1>6. ASSUME NEW p \in Selected(m, a) PROVE PkgOf[p] \in a.lenient
    <2>1. p \in Projects
      BY DEF Selected, MultiSelected, WorkspaceSelected, WorkspaceNamed
    <2>2. PkgOf[p] \in Packages
      BY <2>1 DEF Packages
    <2>3. CASE m = "multi"
      BY <1>1, <2>2, <2>3
    <2>4. CASE m = "workspace"
      <3>1. p \in WorkspaceSelected(a) /\ EmptyPackages(a, found) = {}
        BY <1>1, <1>6, <2>4 DEF Selected
      <3>2. WorkspaceSelected(a) \subseteq Projects
        BY DEF WorkspaceSelected, WorkspaceNamed
      <3> DEFINE mine == {q \in WorkspaceSelected(a) : PkgOf[q] = PkgOf[p]}
      <3>3. mine # {} /\ \A q \in mine : found[q] = NothingPicked
        BY <1>5, <3>1, <3>2
      <3>4. PkgOf[p] \notin a.lenient => PkgOf[p] \in EmptyPackages(a, found)
        BY <2>2, <3>3 DEF EmptyPackages
      <3> QED
        BY <3>1, <3>4
    <2> QED
      BY <2>3, <2>4 DEF Modes
  <1> QED
    BY <1>3, <1>4, <1>6 DEF found

\* For every request: what is planned is what was asked for, in both modes, and
\* nothing that was asked for is left out in silence (run/test-plan.ts,
\* workspace/test-selection.ts).
THEOREM PlanIsTheRequest == CliSpec => []PlanHonoursRequest
  <1>1. RunInv => PlanHonoursRequest
    <2> SUFFICES ASSUME RunInv, pc = "planned", plan.verdict # "refused" PROVE
          /\ \A p \in Projects :
               /\ asked.names # {} /\ p \notin asked.names => RunOf(p) = {}
               /\ asked.files # {} => RunOf(p) \subseteq asked.files
               /\ \/ asked.files # {} /\ asked.names # {} /\ mode = "multi"
                  \/ RunOf(p) \subseteq Owned(p)
               /\ Only(asked, p) => \A i \in DOMAIN plan.jobs : plan.jobs[i] # p
          /\ asked.files = {} /\ asked.names = {} /\ asked.pattern = TestFiles =>
               \A f \in asked.disk : \A p \in Owners[f] :
                 f \in RunOf(p) \/ (IF f \in TypeTests THEN ~Enabled(asked, p)
                                    ELSE Only(asked, p))
          /\ plan.verdict = "lenient" =>
               /\ \A p \in Projects : RunOf(p) = {}
               /\ \A p \in Selected(mode, asked) : PkgOf[p] \in asked.lenient
      BY DEF PlanHonoursRequest
    <2>1. /\ mode \in Modes /\ Answerable(asked)
          /\ picked = Picked(mode, asked) /\ plan = BuildTestPlan(mode, asked)
      BY DEF RunInv, CliTypeOK, AskedFor
    <2>2. plan.jobs = JobsOf(picked) /\ plan.verdict = Verdict(mode, asked, picked)
      BY <2>1 DEF BuildTestPlan
    <2>3. \A i \in DOMAIN plan.jobs : picked[plan.jobs[i]].runtime # {}
      BY <2>2, JobsOfFacts
    <2>4. ASSUME NEW p \in Projects
          PROVE  /\ asked.names # {} /\ p \notin asked.names => RunOf(p) = {}
                 /\ asked.files # {} => RunOf(p) \subseteq asked.files
                 /\ \/ asked.files # {} /\ asked.names # {} /\ mode = "multi"
                    \/ RunOf(p) \subseteq Owned(p)
                 /\ Only(asked, p) => \A i \in DOMAIN plan.jobs : plan.jobs[i] # p
      <3>1. /\ asked.names # {} /\ p \notin asked.names => RunOf(p) = {}
            /\ asked.files # {} => RunOf(p) \subseteq asked.files
            /\ \/ asked.files # {} /\ asked.names # {} /\ mode = "multi"
               \/ RunOf(p) \subseteq Owned(p)
            /\ Only(asked, p) => picked[p].runtime = {}
        BY <2>1, PickedWithinRequest DEF RunOf
      <3> QED
        BY <2>3, <3>1
    <2>5. ASSUME asked.files = {}, asked.names = {}, asked.pattern = TestFiles,
                 NEW f \in asked.disk, NEW p \in Owners[f]
          PROVE  f \in RunOf(p) \/ (IF f \in TypeTests THEN ~Enabled(asked, p) ELSE Only(asked, p))
      BY <2>1, <2>5, PickedIsComplete DEF RunOf
    <2>6. ASSUME plan.verdict = "lenient"
          PROVE  /\ \A p \in Projects : RunOf(p) = {}
                 /\ \A p \in Selected(mode, asked) : PkgOf[p] \in asked.lenient
      BY <2>1, <2>2, <2>6, LenientFacts DEF RunOf
    <2> QED
      BY <2>4, <2>5, <2>6
  <1> QED
    BY <1>1, RunInvHolds, PTL

-----------------------------------------------------------------------------
(***************************************************************************)
(* CliRun: the exit code.                                                  *)
(***************************************************************************)
Silent == {"blind", "luau"}

\* What becomes of one entry that did not throw.
LEMMA EntryFacts ==
  ASSUME NEW entry \in RawEntry, entry.kind \notin Aborting, NEW idle
  PROVE  LET result == ProcessOrRecoverEntry(entry, idle) IN
         /\ (result.success /\ ~result.unwritten /\ ~result.unchecked)
              <=> entry.kind \in PassedKinds
         /\ result.hits = IF entry.kind \in Silent THEN NoData ELSE {entry.project} \ idle
  <1>1. CASE entry.kind = "luau"
    BY <1>1 DEF ProcessOrRecoverEntry, RecoverFromParseFailure, PassedKinds, Silent
  <1>2. CASE entry.kind # "luau"
    BY <1>2 DEF ProcessOrRecoverEntry, ProcessProjectResult, FailWhenBlocked, PassedKinds, Silent,
                RawEntry, Kinds, Green, Aborting
  <1> QED
    BY <1>1, <1>2

\* Jobs that all passed are all the jobs: a bail has a failure for its cause.
LEMMA PassedMeansAll ==
  ASSUME RunInv, Brought, \A i \in DOMAIN raw : raw[i] \in PassedKinds
  PROVE  Len(raw) = Len(plan.jobs)
  <1>1. bailed = {}
    BY DEF Brought, BailHasCause, PassedKinds
  <1>2. plan.jobs \in Seq(Projects)
    BY DEF RunInv, CliTypeOK
  <1>3. DOMAIN plan.jobs \ bailed = 1..Len(plan.jobs) /\ Len(plan.jobs) \in Nat
    BY <1>1, <1>2
  <1>4. Cardinality(1..Len(plan.jobs)) = Len(plan.jobs)
    BY <1>3, FS_Interval
  <1>5. Len(raw) = Cardinality(DOMAIN plan.jobs \ bailed)
    BY EntriesFacts
  <1> QED
    BY <1>3, <1>4, <1>5

\* The gate of one unit, in terms of what its jobs brought.
LEMMA GateFacts ==
  ASSUME RunInv, Brought, dispatch = "settled", NEW unit
  PROVE  EnforceUnitThreshold(rows, plan.jobs, UnitOf, unit) <=> GateHeld(unit)
  <1> DEFINE parts == HitsOf(rows, UnitOf, unit)
             hits == MergeRawCoverage(parts)
             n == Len(raw)
  <1>1. /\ n \in Nat /\ DOMAIN raw = 1..n /\ DOMAIN Entries = 1..n
        /\ \A i \in 1..n : /\ Entries[i] \in RawEntry /\ Entries[i].kind = raw[i]
                           /\ Entries[i].project \in Projects
    <2> DEFINE c == Cardinality(DOMAIN plan.jobs \ bailed)
    <2>1. /\ c \in Nat /\ n = c /\ DOMAIN raw = 1..c /\ Entries \in Seq(RawEntry)
          /\ DOMAIN Entries = 1..c
          /\ \A i \in 1..c : Entries[i].kind = raw[i] /\ Entries[i].project \in Projects
      BY EntriesFacts
    <2> HIDE DEF c
    <2> QED
      BY <2>1
  <1>2. \A i \in 1..n : raw[i] \notin Aborting
    BY <1>1 DEF Brought, Aborts
  <1>3. /\ DOMAIN rows = 1..n
        /\ \A i \in 1..n : /\ rows[i].project = Entries[i].project
                           /\ rows[i].result = ProcessOrRecoverEntry(Entries[i], plan.idle)
    BY RowsFacts
  <1>4. ASSUME NEW i \in 1..n
        PROVE  rows[i].result.hits
                 = IF raw[i] \in Silent THEN NoData ELSE {rows[i].project} \ plan.idle
    <2>1. Entries[i] \in RawEntry /\ Entries[i].kind = raw[i] /\ Entries[i].kind \notin Aborting
      BY <1>1, <1>2
    <2>2. ProcessOrRecoverEntry(Entries[i], plan.idle).hits
            = IF Entries[i].kind \in Silent THEN NoData ELSE {Entries[i].project} \ plan.idle
      BY <2>1, EntryFacts
    <2> QED
      BY <1>3, <2>1, <2>2
  <1>5. \A i \in 1..n : rows[i].project \in Projects /\ 0 \notin {rows[i].project}
    BY <1>1, <1>3, PlanAssumption DEF Projects
  <1> HIDE DEF n
  <1>6. /\ \A i \in 1..n : UnitOf[rows[i].project] = unit => rows[i].result.hits \in parts
        /\ \A h \in parts : \E i \in 1..n : UnitOf[rows[i].project] = unit /\ h = rows[i].result.hits
    BY <1>3 DEF HitsOf
  <1> HIDE DEF parts
  <1>7. parts \subseteq {NoData} <=> WithoutData(unit)
    <2>1. WithoutData(unit) <=> \A i \in 1..n : UnitOf[rows[i].project] = unit => raw[i] \in Silent
      BY <1>1, <1>3 DEF WithoutData, Silent
    <2>2. \A i \in 1..n : rows[i].result.hits = NoData <=> raw[i] \in Silent
      BY <1>4, <1>5 DEF NoData
    <2> QED
      BY <1>6, <2>1, <2>2
  <1>8. CASE WithoutData(unit)
    <2>1. hits = NoData
      BY <1>7, <1>8 DEF MergeRawCoverage
    <2> QED
      BY <1>8, <2>1 DEF EnforceUnitThreshold, GateHeld, parts
  <1>9. CASE ~WithoutData(unit)
    <2>1. hits = UNION (parts \ {NoData})
      BY <1>7, <1>9 DEF MergeRawCoverage
    <2>2. ASSUME NEW h \in parts, 0 \in h PROVE h = NoData
      <3>1. PICK i \in 1..n : h = rows[i].result.hits
        BY <1>6
      <3>2. 0 \notin {rows[i].project} \ plan.idle
        BY <1>5
      <3> QED
        BY <1>4, <2>2, <3>1, <3>2
    <2>3. hits # NoData
      BY <2>1, <2>2 DEF NoData
    <2> HIDE DEF hits
    <2>4. ASSUME NEW p, UnitOf[p] = unit
          PROVE  p \in hits <=> /\ p \notin plan.idle
                                /\ \E j \in 1..n : rows[j].project = p /\ raw[j] \notin Silent
      <3>1. ASSUME p \in hits PROVE p \notin plan.idle
                                    /\ \E j \in 1..n : rows[j].project = p /\ raw[j] \notin Silent
        <4>1. PICK h \in parts : h # NoData /\ p \in h
          BY <2>1, <3>1
        <4>2. PICK i \in 1..n : h = rows[i].result.hits
          BY <1>6, <4>1
        <4> QED
          BY <1>4, <4>1, <4>2
      <3>2. ASSUME p \notin plan.idle, NEW j \in 1..n, rows[j].project = p, raw[j] \notin Silent
            PROVE  p \in hits
        <4>1. rows[j].result.hits = {p} /\ {p} \in parts /\ p # 0
          BY <1>4, <1>5, <1>6, <2>4, <3>2
        <4> QED
          BY <2>1, <4>1 DEF NoData
      <3> QED
        BY <3>1, <3>2
    <2>5. EnforceUnitThreshold(rows, plan.jobs, UnitOf, unit)
            <=> \A i \in DOMAIN plan.jobs : UnitOf[plan.jobs[i]] = unit => plan.jobs[i] \in hits
      BY <2>3 DEF EnforceUnitThreshold, hits, parts
    <2>6. GateHeld(unit) <=>
            \A i \in DOMAIN plan.jobs : UnitOf[plan.jobs[i]] = unit =>
              /\ plan.jobs[i] \notin plan.idle
              /\ \E j \in 1..n : rows[j].project = plan.jobs[i] /\ raw[j] \notin Silent
      BY <1>1, <1>3, <1>9 DEF GateHeld, Silent
    <2> QED
      BY <2>4, <2>5, <2>6
  <1> QED
    BY <1>8, <1>9

\* A run that was carried through exits 0 just when everything passed.
LEMMA StatusFacts ==
  ASSUME RunInv, pc = "done", err = "none", plan.verdict = "run"
  PROVE  EmitFinalStatus(MergeProjectResults(rows), TypesPass,
                         ProcessCoverage(rows, plan.jobs, UnitOf, gated))
           = IF EverythingPassed THEN 0 ELSE 1
  <1> DEFINE merged == MergeProjectResults(rows)
             gates == ProcessCoverage(rows, plan.jobs, UnitOf, gated)
             passes == merged.success /\ ~merged.unwritten /\ ~merged.unchecked
  <1>1. dispatch = "settled"
    BY DEF RunInv, Course, Late
  <1>2. passes <=> \A i \in DOMAIN rows : /\ rows[i].result.success
                                          /\ ~rows[i].result.unwritten /\ ~rows[i].result.unchecked
    BY DEF MergeProjectResults
  <1>3. EmitFinalStatus(merged, TypesPass, gates) = IF passes /\ TypesPass /\ gates THEN 0 ELSE 1
    BY DEF EmitFinalStatus
  <1> HIDE DEF passes, merged, gates
  <1>4. CASE NothingBrought
    <2>1. raw = <<>> /\ rows = <<>> /\ plan.jobs = <<>>
      BY <1>1, <1>4 DEF NothingBrought
    <2>2. DOMAIN raw = {} /\ DOMAIN rows = {} /\ DOMAIN plan.jobs = {} /\ Len(raw) = Len(plan.jobs)
      BY <2>1
    <2>3. gates
      BY <2>2 DEF gates, ProcessCoverage, EnforceUnitThreshold
    <2>4. \A unit \in gated : GateHeld(unit)
      BY <2>2 DEF GateHeld, WithoutData
    <2> QED
      BY <1>2, <1>3, <2>2, <2>3, <2>4 DEF EverythingPassed, TypesPass, merged, gates
  <1>5. CASE Brought
    <2>1. gates <=> \A unit \in gated : GateHeld(unit)
      BY <1>1, <1>5, GateFacts DEF gates, ProcessCoverage
    <2>2. passes <=> \A i \in DOMAIN raw : raw[i] \in PassedKinds
      <3> DEFINE c == Cardinality(DOMAIN plan.jobs \ bailed)
      <3>1. /\ Len(raw) = c /\ c \in Nat /\ DOMAIN raw = 1..c /\ Entries \in Seq(RawEntry)
            /\ DOMAIN Entries = 1..c /\ \A i \in 1..c : Entries[i].kind = raw[i]
        BY <1>5, EntriesFacts
      <3>2. /\ DOMAIN rows = 1..Len(raw)
            /\ \A i \in 1..Len(raw) :
                 rows[i].result = ProcessOrRecoverEntry(Entries[i], plan.idle)
        BY <1>1, <1>5, RowsFacts
      <3> HIDE DEF c
      <3>3. \A i \in 1..c : Entries[i] \in RawEntry /\ Entries[i].kind \notin Aborting
        BY <1>1, <1>5, <3>1 DEF Brought, Aborts
      <3>4. ASSUME NEW i \in 1..c
            PROVE  (/\ rows[i].result.success
                    /\ ~rows[i].result.unwritten /\ ~rows[i].result.unchecked)
                     <=> raw[i] \in PassedKinds
        <4> DEFINE result == ProcessOrRecoverEntry(Entries[i], plan.idle)
        <4>1. (result.success /\ ~result.unwritten /\ ~result.unchecked)
                <=> Entries[i].kind \in PassedKinds
          BY <3>3, EntryFacts
        <4>2. rows[i].result = result /\ Entries[i].kind = raw[i]
          BY <3>1, <3>2
        <4> HIDE DEF result
        <4> QED
          BY <4>1, <4>2
      <3> QED
        BY <1>2, <3>1, <3>2, <3>4
    <2>3. passes => Len(raw) = Len(plan.jobs)
      BY <1>5, <2>2, PassedMeansAll
    <2> QED
      BY <1>3, <2>1, <2>2, <2>3 DEF EverythingPassed, TypesPass, merged, gates
  <1> QED
    BY <1>4, <1>5 DEF RunInv

\* For every request, plan and answer the exit code is the run's outcome: 3 for an
\* infrastructure error, 2 for any other error and for a plan refused or without a
\* test, 0 when it was allowed to test nothing or everything passed, 1 for the rest
\* (cli.ts, dispatchResultAsync; output.ts, emitFinalStatus).
THEOREM ExitIsTheOutcome == CliSpec => []ExitTellsOutcome
  <1>1. RunInv => ExitTellsOutcome
    <2> SUFFICES ASSUME RunInv, pc = "done" PROVE
          /\ exit = 3 <=> err = "infra"
          /\ exit = 2 <=> err = "run" \/ (err = "none" /\ plan.verdict \in {"refused", "untested"})
          /\ exit = 0 <=> /\ err = "none"
                          /\ plan.verdict = "lenient" \/ (plan.verdict = "run" /\ EverythingPassed)
      BY DEF ExitTellsOutcome
    <2>1. err \in {"none", "run", "infra"} /\ CodeSet
      BY DEF RunInv, CliTypeOK
    <2>2. CASE (err # "none" \/ plan.verdict \in NothingToRun) /\ exit = ExitCode
      BY <2>1, <2>2 DEF ExitCode, NothingToRun
    <2>3. CASE err = "none" /\ plan.verdict = "run"
               /\ exit = EmitFinalStatus(MergeProjectResults(rows), TypesPass,
                                         ProcessCoverage(rows, plan.jobs, UnitOf, gated))
      <3>1. exit = IF EverythingPassed THEN 0 ELSE 1
        BY <2>3, StatusFacts
      <3> QED
        BY <2>3, <3>1
    <2> QED
      BY <2>1, <2>2, <2>3 DEF CodeSet
  <1> QED
    BY <1>1, RunInvHolds, PTL
=============================================================================
