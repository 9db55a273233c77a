------------------------- MODULE ExecutionRecovery -------------------------
(***************************************************************************)
(* One logical execution as the CLI drives it                              *)
(* (src/backends/execution-recovery.ts, execution-hedge.ts and             *)
(* execution-boot-watch.ts): an original submission raced against a watch  *)
(* of its claim, a hedge or a retry when it stalls, and one rescue when a  *)
(* create may have happened without saying so.                             *)
(*                                                                         *)
(* A submission is observed by executeWithResultRelayAsync, whose two      *)
(* sources -- the task's own state and the relay -- are one here.  An      *)
(* await is a step boundary.                                               *)
(***************************************************************************)
EXTENDS ExecutionClaim, Sequences

\* The submissions the CLI chooses itself, and the rescue of each.
Attempts == {"original", "second"}
RescueOf == [original |-> "originalRescue", second |-> "secondRescue"]
Rescues == {RescueOf[a] : a \in Attempts}

ASSUME SubmissionsAssumption == Tasks = Attempts \cup Rescues

VARIABLES
    watchesSubmission, \* the boot watch is armed by every create that is accepted, as
                       \* the CLI has it; by default it is armed before any of them too
    pc,          \* where executeWithRecoveryAsync stands
    seen,        \* what each submission's observer has come to
    reread,      \* what reading a settled submission again has come to
    canRescue,   \* withSubmissionRescue has not spent its one rescue
    rescued,     \* the attempts whose create a rescue answers
    answer,      \* the task whose result was returned, or "failed"
    generation,  \* the boot watch's arm, 0 before the first
    armed,       \* its timer is pending
    reads,       \* the claim reads the watch has made, by generation
    settled,     \* the promises the watch has handed out, oldest first
    holding      \* the one the race is waiting on

watchVars == <<generation, armed, reads, settled, holding>>
hostVars == <<pc, seen, reread, canRescue, rescued, answer>>
vars == <<claimVars, hostVars, watchVars, watchesSubmission>>

NoAnswer == "noAnswer"
Failed == "failed"

Pending == {"unsent", "creating", "polling"}
Recoverable == {"timeout", "uncertain"}    \* instances of ExecutionTimeoutError
Observations == Pending \cup Recoverable \cup Answers \cup {"failed"}
Rereads == {"idle", "reading", "failed"} \cup Answers

Generations == 0..2
FirstArm == IF watchesSubmission THEN 0 ELSE 1
Claims == {"found", "missing", "failed"}
NoObservation == [generation |-> 0, status |-> "pending"]
Observation == [generation : Generations \ {0}, status : Claims]

-----------------------------------------------------------------------------
(* Outcomes.                                                               *)

\* Mutant: a start-expired sentinel passes for the script's outputs.
Claimed_OnlyNotClaimed(o) == o \in {"result", "startExpired"}

\* requireClaim, claimedResult: outputs that are not a sentinel.
Claimed(o) == o = "result"

RereadSettled(t) == reread[t] \notin {"idle", "reading"}

\* resolveHedgeAsync between the relay of attempt a's create and its rescue,
\* and the reread of a rescue that stalled; its error is no ExecutionTimeoutError.
RescueOutcome(a) ==
    LET r == RescueOf[a] IN
    IF Claimed(reread[a]) \/ Claimed(seen[r]) THEN "result"
    ELSE IF ~RereadSettled(a) \/ seen[r] \in Pending THEN "polling"
    ELSE IF seen[r] \notin Recoverable THEN "failed"
    ELSE IF Claimed(reread[r]) THEN "result"
    ELSE IF RereadSettled(r) THEN "failed" ELSE "polling"

Outcome(a) == IF a \in rescued THEN RescueOutcome(a) ELSE seen[a]

\* The task whose outputs Outcome(a) stands for, when they are Claimed.
SourceOf(a) == IF a \in rescued /\ ~Claimed(reread[a]) THEN RescueOf[a] ELSE a

\* executeWithRecoveryAsync returns or throws; every observation is aborted.
Done == pc = "done"
Return(t) == pc' = "done" /\ answer' = t
Throw == pc' = "done" /\ answer' = Failed

-----------------------------------------------------------------------------
(* Submissions.                                                            *)

\* invalidate: the arm it supersedes has its read aborted.
Arm == IF pc = "race"
       THEN /\ generation' = generation + 1
            /\ armed' = TRUE
            /\ UNCHANGED <<reads, settled, holding>>
       ELSE UNCHANGED watchVars    \* cancelled

CreateAccepted(t) ==
    /\ seen[t] = "creating"
    /\ Create(t)
    /\ Arm
    /\ seen' = [seen EXCEPT ![t] = "polling"]
    /\ UNCHANGED <<pc, reread, canRescue, rescued, answer>>

CreateRefused(t) ==
    /\ seen[t] = "creating"
    /\ seen' = [seen EXCEPT ![t] = "failed"]
    /\ UNCHANGED <<claimVars, watchVars, pc, reread, canRescue, rescued, answer>>

\* Mutant: every ambiguous create of an attempt gets a rescue.
MayRescue_Again(t) == t \in Attempts

\* observeAsync wraps the attempts, not the rescues themselves.
MayRescue(t) == t \in Attempts /\ canRescue

\* Mutant: the aborted observation is not looked at before the rescue is sent.
CreateUncertain_Late(t) ==
    /\ seen[t] = "creating"
    /\ Create(t) \/ UNCHANGED claimVars
    /\ IF MayRescue(t)
       THEN /\ seen' = [seen EXCEPT ![t] = "uncertain", ![RescueOf[t]] = "creating"]
            /\ rescued' = rescued \cup {t}
            /\ reread' = [reread EXCEPT ![t] = "reading"]
       ELSE /\ seen' = [seen EXCEPT ![t] = "uncertain"]
            /\ UNCHANGED <<rescued, reread>>
    /\ canRescue' = (canRescue /\ ~MayRescue(t))
    /\ UNCHANGED <<watchVars, pc, answer>>

\* The create failed in a way that may have left a task behind.  With the
\* rescue unspent, the relay of that task and a fresh submission race for it;
\* once the observation is aborted the rescue is spent and nothing is sent.
CreateUncertain(t) ==
    /\ seen[t] = "creating"
    /\ Create(t) \/ UNCHANGED claimVars
    /\ IF MayRescue(t) /\ ~Done
       THEN /\ seen' = [seen EXCEPT ![t] = "uncertain", ![RescueOf[t]] = "creating"]
            /\ rescued' = rescued \cup {t}
            /\ reread' = [reread EXCEPT ![t] = "reading"]
       ELSE /\ seen' = [seen EXCEPT ![t] = IF Done THEN "failed" ELSE "uncertain"]
            /\ UNCHANGED <<rescued, reread>>
    /\ canRescue' = (canRescue /\ ~MayRescue(t))
    /\ UNCHANGED <<watchVars, pc, answer>>

\* What an observer of task t may read off a finished task.
Shown(t) == IF task[t] \in Answers \cup {"failed"} THEN {task[t]} ELSE {}

\* The task's state, or its relay, settles the observer; or the poll fails, or
\* the deadline passes with the task still going, or not yet seen to end.
Observe(t) ==
    /\ seen[t] = "polling"
    /\ \E o \in Shown(t) \cup {"failed", "timeout"} : seen' = [seen EXCEPT ![t] = o]
    /\ UNCHANGED <<claimVars, watchVars, pc, reread, canRescue, rescued, answer>>

\* The nested hedge has no claimed result: the rescue that stalled is read again.
RereadRescue(a) ==
    LET r == RescueOf[a] IN
    /\ a \in rescued /\ ~Done
    /\ RereadSettled(a) /\ ~Claimed(reread[a])
    /\ seen[r] \in Recoverable /\ reread[r] = "idle"
    /\ reread' = [reread EXCEPT ![r] = "reading"]
    /\ UNCHANGED <<claimVars, watchVars, pc, seen, canRescue, rescued, answer>>

\* A reread ends with what the task shows by now, or with an error.
Reread(t) ==
    /\ reread[t] = "reading"
    /\ \E o \in Shown(t) \cup {"failed"} : reread' = [reread EXCEPT ![t] = o]
    /\ UNCHANGED <<claimVars, watchVars, pc, seen, canRescue, rescued, answer>>

-----------------------------------------------------------------------------
(* The boot watch.                                                         *)

\* The timer of the current arm fires and the claim is read.
WatchFires ==
    /\ pc = "race" /\ armed
    /\ armed' = FALSE
    /\ reads' = [reads EXCEPT ![generation] = "sent"]
    /\ UNCHANGED <<claimVars, hostVars, generation, settled, holding>>

\* The service answers the read of arm g.
ClaimRead(g) ==
    /\ reads[g] = "sent"
    /\ \E s \in {"failed", IF claim = NoTask THEN "missing" ELSE "found"} :
         reads' = [reads EXCEPT ![g] = s]
    /\ UNCHANGED <<claimVars, hostVars, generation, armed, settled, holding>>

Newest == settled[Len(settled)]

\* currentSettled: a promise an earlier arm resolved is not handed out again.
CurrentSettled == IF Newest.generation \notin {0, generation}
                  THEN Append(settled, NoObservation)
                  ELSE settled

\* Mutant: whatever arm the answer belongs to, it settles the watch.
IsCurrent_Any(g) == TRUE

IsCurrent(g) == g = generation

\* The answer reaches the host; one of a superseded arm, or one that the
\* cancelled watch no longer wants, is dropped.
WatchAnswers(g) ==
    /\ reads[g] \in Claims
    /\ reads' = [reads EXCEPT ![g] = "delivered"]
    /\ settled' = IF pc = "race" /\ IsCurrent(g)
                  THEN LET s == CurrentSettled
                       IN [s EXCEPT ![Len(s)] = [generation |-> g, status |-> reads[g]]]
                  ELSE settled
    /\ UNCHANGED <<claimVars, hostVars, generation, armed, holding>>

\* The race is won by an observation of an arm since superseded: it is run
\* again on the promise the watch hands out now.
RaceAgain ==
    /\ pc = "race" /\ settled[holding] # NoObservation
    /\ ~IsCurrent(settled[holding].generation)
    /\ settled' = CurrentSettled
    /\ holding' = Len(CurrentSettled)
    /\ UNCHANGED <<claimVars, hostVars, generation, armed, reads>>

-----------------------------------------------------------------------------
(* executeWithRecoveryAsync.                                               *)

\* resolveOriginalAsync, up to the retry it may submit.
ResolveOriginal ==
    /\ IF seen["original"] = "timeout"
       THEN /\ pc' = "retry"
            /\ seen' = [seen EXCEPT !["second"] = "creating"]
            /\ UNCHANGED answer
       ELSE /\ IF Claimed(Outcome("original"))
               THEN Return(SourceOf("original"))
               ELSE Throw
            /\ UNCHANGED seen
    /\ UNCHANGED <<reread, canRescue, rescued>>

\* The original settles first, or alone once its claim was found or unreadable.
OriginalSettles ==
    /\ pc \in {"race", "await"}
    /\ Outcome("original") \notin Pending
    /\ ResolveOriginal
    /\ UNCHANGED <<claimVars, watchVars>>

\* The watch found the claim, or could not read it: the original is kept.
KeepOriginal ==
    /\ pc = "race" /\ settled[holding] # NoObservation
    /\ IsCurrent(settled[holding].generation)
    /\ settled[holding].status \in {"found", "failed"}
    /\ pc' = "await"
    /\ UNCHANGED <<claimVars, watchVars, seen, reread, canRescue, rescued, answer>>

\* The watch saw no claim: a second submission is hedged against the original.
Hedge ==
    /\ pc = "race" /\ settled[holding] # NoObservation
    /\ IsCurrent(settled[holding].generation)
    /\ settled[holding].status = "missing"
    /\ pc' = "hedge"
    /\ seen' = [seen EXCEPT !["second"] = "creating"]
    /\ UNCHANGED <<claimVars, watchVars, reread, canRescue, rescued, answer>>

\* resolveHedgeAsync, and the retry's own result: the first claimed one.
AttemptWins(a) ==
    /\ pc = "hedge" \/ (pc = "retry" /\ a = "second")
    /\ Claimed(Outcome(a))
    /\ Return(SourceOf(a))
    /\ UNCHANGED <<claimVars, watchVars, seen, reread, canRescue, rescued>>

\* resolveRecoveryAsync starts: both attempts ended without a claimed result,
\* and each that may still have one to show is read again.
Recover ==
    /\ pc \in {"hedge", "retry"}
    /\ \A a \in Attempts : Outcome(a) \notin Pending /\ ~Claimed(Outcome(a))
    /\ pc' = "recover"
    /\ reread' = [t \in Tasks |-> IF t \in Attempts /\ Outcome(t) \in Recoverable
                                  THEN "reading" ELSE reread[t]]
    /\ UNCHANGED <<claimVars, watchVars, seen, canRescue, rescued, answer>>

\* Promise.any over the rereads.
Recovered(a) ==
    /\ pc = "recover" /\ Outcome(a) \in Recoverable /\ Claimed(reread[a])
    /\ Return(a)
    /\ UNCHANGED <<claimVars, watchVars, seen, reread, canRescue, rescued>>

\* Mutant: it waits for a reread of every attempt, readable or not.
RecoveryFails_WaitsForAll ==
    /\ pc = "recover"
    /\ \A a \in Attempts : RereadSettled(a) /\ ~Claimed(reread[a])
    /\ Throw
    /\ UNCHANGED <<claimVars, watchVars, seen, reread, canRescue, rescued>>

RecoveryFails ==
    /\ pc = "recover"
    /\ \A a \in Attempts :
         Outcome(a) \in Recoverable => RereadSettled(a) /\ ~Claimed(reread[a])
    /\ Throw
    /\ UNCHANGED <<claimVars, watchVars, seen, reread, canRescue, rescued>>

-----------------------------------------------------------------------------
Init == /\ ClaimInit
        /\ watchesSubmission \in BOOLEAN
        /\ pc = "race"
        /\ seen = [t \in Tasks |-> IF t = "original" THEN "creating" ELSE "unsent"]
        /\ reread = [t \in Tasks |-> "idle"]
        /\ canRescue = TRUE
        /\ rescued = {}
        /\ answer = NoAnswer
        /\ generation = FirstArm
        /\ armed = ~watchesSubmission
        /\ reads = [g \in Generations |-> "unsent"]
        /\ settled = <<NoObservation>>
        /\ holding = 1

\* What the CLI does, and what its deadlines make happen.
HostStep ==
    \/ \E t \in Tasks : \/ CreateAccepted(t) \/ CreateRefused(t) \/ CreateUncertain(t)
                        \/ Observe(t) \/ Reread(t)
    \/ \E a \in Attempts : RereadRescue(a) \/ AttemptWins(a) \/ Recovered(a)
    \/ OriginalSettles \/ RaceAgain \/ KeepOriginal \/ Hedge
    \/ Recover \/ RecoveryFails

WatchStep == WatchFires \/ \E g \in Generations : ClaimRead(g) \/ WatchAnswers(g)

RobloxStep ==
    /\ \/ \E t \in Tasks : TaskStep(t)
       \/ WindowShuts \/ ClaimExpires
    /\ UNCHANGED <<hostVars, watchVars>>

Next == /\ HostStep \/ WatchStep \/ RobloxStep
        /\ UNCHANGED watchesSubmission

Spec == Init /\ [][Next]_vars

\* Creates, polls and rereads all run under deadlines of the CLI, and its own
\* continuations run when they can.  Nothing is asked of Roblox or the watch.
FairSpec == Spec /\ WF_vars(HostStep /\ UNCHANGED watchesSubmission)

-----------------------------------------------------------------------------
(* Properties.                                                             *)

TypeOK ==
    /\ ClaimTypeOK
    /\ watchesSubmission \in BOOLEAN
    /\ pc \in {"race", "await", "retry", "hedge", "recover", "done"}
    /\ seen \in [Tasks -> Observations]
    /\ reread \in [Tasks -> Rereads]
    /\ canRescue \in BOOLEAN
    /\ rescued \subseteq Attempts
    /\ answer \in Tasks \cup {NoAnswer, Failed}
    /\ generation \in Generations
    /\ armed \in BOOLEAN
    /\ reads \in [Generations -> Claims \cup {"unsent", "sent", "delivered"}]
    /\ settled \in Seq(Observation \cup {NoObservation})
    /\ holding \in DOMAIN settled

\* "Every submission shares the claim that admits only one execution": whatever
\* the updates, the clock, the retention and the submissions do, at most one
\* task goes on to the test script (luau/execution-claim.luau:11-20).
RunsOnce == Cardinality(ran) <= 1

\* What the caller gets refines OneExecution: a returned result is the result of
\* the task that ran, never a sentinel and never before a task ran
\* (src/backends/execution-hedge.ts:41, 169).
Service == INSTANCE OneExecution
AnswersForTheRun == Service!Spec

\* "A stalled observer gets one hedge and an ambiguous create gets one rescue"
\* (src/backends/execution-recovery.ts:46): at most three creates are sent, and
\* never both rescues, though the two attempts share the allowance.
Sent == {t \in Tasks : seen[t] # "unsent"}
ThreeSubmissions == Cardinality(Sent) <= 3 /\ Cardinality(Sent \cap Rescues) <= 1

\* The submissions accepted so far.
Accepted == {t \in Tasks : /\ seen[t] \notin {"unsent", "creating", "uncertain"}
                           /\ task[t] # "absent"}

\* The caller is told of a failure only after every submission whose task may
\* still answer was read again, and a result the CLI has been shown is never
\* thrown away with the errors around it (execution-hedge.ts:76-95).
GivesUpLast ==
    answer = Failed =>
        /\ \A t \in Tasks : seen[t] \in Recoverable => RereadSettled(t)
        /\ \A t \in Tasks : seen[t] # "result" /\ reread[t] # "result"

\* What the host submits follows the evidence it has.  A hedge starts only on a
\* claim read that was sent after the last submission so far was accepted and
\* had its whole boot window: a rescue that has just started is never hedged on
\* the strength of a read older than it (execution-boot-watch.ts:98,
\* execution-recovery.ts:101).  And once the caller has its answer nothing more
\* is submitted, even when a create outstanding at that moment turns out
\* ambiguous (execution-recovery.ts:165).
SubmitsOnEvidence ==
    [][/\ pc = "race" /\ pc' = "hedge" =>
            settled[holding].generation = FirstArm + Cardinality(Accepted)
       /\ Done => Sent' = Sent]_vars

\* Submissions and failures of the recovery itself are bounded and final.
RecoveryInv == TypeOK /\ ThreeSubmissions /\ GivesUpLast

\* Whatever Roblox and the watch do -- the task never starts, the claim read
\* never answers -- the execution ends (deadlines of ocale-runner.ts:112-133
\* and result-relay.ts:92).
Terminates == <>Done
=============================================================================
