---------------------------- MODULE ResultRelay ----------------------------
(***************************************************************************)
(* The second way a task's result comes home (src/backends/                *)
(* result-relay.ts and luau/execution-result-relay.luau): after the script *)
(* the task publishes its outputs to a MemoryStore sorted map, one chunk   *)
(* at a time, and takes a chunk's disappearance for its acknowledgement;   *)
(* the CLI reads and deletes the chunks while it polls the task, and goes  *)
(* on reading when the poll has timed out and the execution is hedged.     *)
(*                                                                         *)
(* Every request is sent, lands and is answered in steps of its own, and a *)
(* request that was given up may land all the same.  A continuation that   *)
(* waits for no request runs with the step that woke it.                   *)
(***************************************************************************)
EXTENDS Integers, FiniteSets

CONSTANTS
    Chunks,       \* chunks the compressed outputs fill
    MaxFaults     \* requests that fail, and waits for an acknowledgement that
                  \* run out, within one behaviour

ASSUME ChunksAssumption == Chunks \in Nat \ {0}
ASSUME FaultsAssumption == MaxFaults \in Nat

VARIABLES
    task,       \* how far the task is
    outcome,    \* what its script came to
    part,       \* the chunk it is publishing
    store,      \* the chunks in the sorted map
    deletes,    \* the deletes the CLI sent that may still land
    native,     \* what the poll of the task has come to
    reader,     \* where readRelayAsync stands
    readers,    \* how often it was started
    got,        \* progress.chunks
    unacked,    \* progress.pendingAcknowledgement, or 0
    phase,      \* where the caller stands
    answer,     \* what it was told
    faults

taskVars == <<task, outcome, part>>
readerVars == <<reader, readers, got, unacked>>
callerVars == <<native, phase, answer>>
vars == <<taskVars, store, deletes, readerVars, callerVars, faults>>

Parts == 1..Chunks
Outcomes == {"outputs", "values", "raised"}    \* values: not all are strings
NoOutcome == "none"
Failed == "failed"

Fault == faults < MaxFaults /\ faults' = faults + 1

-----------------------------------------------------------------------------
(* The task.                                                               *)

\* The create request lands, before or after the CLI gave it up.
CreateLands ==
    /\ task = "absent" /\ native \in {"submitting", "uncertain"}
    /\ task' = "script"
    /\ UNCHANGED <<outcome, part, store, deletes, readerVars, callerVars, faults>>

\* Outputs that are not all strings are not published; nor is anything when the
\* script has used up the time the wrapper was given.
ScriptEnds ==
    /\ task = "script"
    /\ \E o \in Outcomes : outcome' = o
    /\ \/ outcome' # "values" /\ task' = "put"
       \/ task' = "published"
    /\ UNCHANGED <<part, store, deletes, readerVars, callerVars, faults>>

PutChunk ==
    /\ task = "put"
    /\ store' = store \cup {part}
    /\ task' = "await"
    /\ UNCHANGED <<outcome, part, deletes, readerVars, callerVars, faults>>

\* GetAsync returns nil: the chunk is taken for read.
SeesAcknowledged ==
    /\ task = "await" /\ part \notin store
    /\ IF part = Chunks
       THEN task' = "published" /\ UNCHANGED part
       ELSE task' = "put" /\ part' = part + 1
    /\ UNCHANGED <<outcome, store, deletes, readerVars, callerVars, faults>>

\* A call raises, a chunk waits five seconds, or publishing a minute.  The write
\* that was under way may land.
PublishFails ==
    /\ task \in {"put", "await"} /\ Fault
    /\ task' = "published"
    /\ store' = store \/ (task = "put" /\ store' = store \cup {part})
    /\ UNCHANGED <<outcome, part, deletes, readerVars, callerVars>>

\* The task returns what the script returned, or raises what it raised.
TaskEnds ==
    /\ task = "published"
    /\ task' = "ended"
    /\ UNCHANGED <<outcome, part, store, deletes, readerVars, callerVars, faults>>

\* Mutant: a chunk lives no longer than the task waits for it.
Expire_Awaited(k) ==
    /\ k \in store
    /\ store' = store \ {k}
    /\ UNCHANGED <<taskVars, deletes, readerVars, callerVars, faults>>

\* A chunk expires after 120 seconds, long after the task has stopped waiting.
Expire(k) ==
    /\ k \in store /\ ~(task = "await" /\ part = k)
    /\ store' = store \ {k}
    /\ UNCHANGED <<taskVars, deletes, readerVars, callerVars, faults>>

-----------------------------------------------------------------------------
(* The reader, and what its end means to the caller.                       *)

\* abort of the observation, once the caller has its answer or wants none.
Abandon == /\ reader' = IF reader = "complete" THEN reader ELSE "ended"
           /\ UNCHANGED <<readers, got, unacked>>

Answer(a) == answer' = a /\ phase' = "done"

\* Every chunk is here and acknowledged.  In the race, and in a recovery that is
\* under way, the caller has its answer; after the poll timed out it is kept.
Complete ==
    /\ reader' = "complete"
    /\ IF phase \in {"race", "recovering"} THEN Answer(outcome) ELSE UNCHANGED <<phase, answer>>

\* The reader is done for: after an ambiguous create nothing else can answer.
EndsUnread ==
    /\ reader' = "ended"
    /\ IF phase = "recovering" /\ native = "uncertain"
       THEN Answer(Failed)
       ELSE UNCHANGED <<phase, answer>>

ReadChunk ==
    /\ reader = "reading" /\ unacked = 0
    /\ got + 1 \in store
    /\ got' = got + 1
    /\ unacked' = got + 1
    /\ UNCHANGED <<taskVars, store, deletes, reader, readers, callerVars, faults>>

SendDelete ==
    /\ reader = "reading" /\ unacked # 0
    /\ deletes' = deletes \cup {unacked}
    /\ reader' = "deleting"
    /\ UNCHANGED <<taskVars, store, readers, got, unacked, callerVars, faults>>

DeleteLands(k) ==
    /\ k \in deletes
    /\ store' = store \ {k}
    /\ deletes' = deletes \ {k}
    /\ UNCHANGED <<taskVars, readerVars, callerVars, faults>>

\* Mutant: whatever the delete comes back with is taken for its success.
DeleteAnswered_AnyError ==
    /\ reader = "deleting"
    /\ unacked' = 0
    /\ IF got = Chunks THEN Complete ELSE reader' = "reading" /\ UNCHANGED <<phase, answer>>
    /\ UNCHANGED <<taskVars, store, deletes, readers, got, native, faults>>

\* Success, or a 404 for the chunk that an earlier delete, or time, removed.
DeleteAnswered ==
    /\ reader = "deleting" /\ unacked \notin deletes
    /\ unacked' = 0
    /\ IF got = Chunks THEN Complete ELSE reader' = "reading" /\ UNCHANGED <<phase, answer>>
    /\ UNCHANGED <<taskVars, store, deletes, readers, got, native, faults>>

\* Any other error, or its own deadline, ends the reader; the next one resumes
\* from the progress it made.
ReaderFails ==
    /\ reader \in {"reading", "deleting"} /\ Fault
    /\ EndsUnread
    /\ UNCHANGED <<taskVars, store, deletes, readers, got, unacked, native>>

\* A delete that never reached the store.
DeleteLost(k) ==
    /\ k \in deletes /\ reader # "deleting"
    /\ deletes' = deletes \ {k}
    /\ UNCHANGED <<taskVars, store, readerVars, callerVars, faults>>

\* Mutant: nobody reads between the timed-out poll and the recovery.
ReadOn_OnlyRecovering ==
    /\ native = "timeout" /\ reader = "ended"
    /\ phase = "recovering" /\ readers < 3
    /\ reader' = "reading" /\ readers' = readers + 1
    /\ UNCHANGED <<taskVars, store, deletes, got, unacked, callerVars, faults>>

\* readAsync again, from where it stood: while the hedge runs, and once more
\* when the recovery asks.
ReadOn ==
    /\ native = "timeout" /\ reader = "ended"
    /\ \/ phase \in {"thrown", "recovering"} /\ readers = 1
       \/ phase = "recovering" /\ readers = 2
    /\ reader' = "reading" /\ readers' = readers + 1
    /\ UNCHANGED <<taskVars, store, deletes, got, unacked, callerVars, faults>>

-----------------------------------------------------------------------------
(* The caller: executeWithResultRelayAsync.                                *)

\* The create is answered: the task is polled, or the answer leaves open whether
\* there is one.  Then the error goes to the caller and the reader goes on.
SubmitAnswered ==
    /\ native = "submitting"
    /\ \/ task # "absent" /\ native' = "polling" /\ UNCHANGED phase
       \/ /\ native' = "uncertain"
          /\ phase' = IF phase = "race" THEN "thrown" ELSE phase
    /\ UNCHANGED <<taskVars, store, deletes, readerVars, answer, faults>>

\* The poll sees the task end.
NativeAnswers ==
    /\ phase = "race" /\ native = "polling" /\ task = "ended"
    /\ native' = "settled"
    /\ Answer(outcome)
    /\ Abandon
    /\ UNCHANGED <<taskVars, store, deletes, faults>>

\* The create is refused, or the poll fails.
NativeFails ==
    /\ phase = "race" /\ native \in {"submitting", "polling"} /\ Fault
    /\ native = "submitting" => task = "absent"
    /\ native' = "settled"
    /\ Answer(Failed)
    /\ Abandon
    /\ UNCHANGED <<taskVars, store, deletes>>

\* The poll runs out of time: the first reader is stopped and the error handed
\* to the caller, with a way to read on.
NativeTimesOut ==
    /\ phase = "race" /\ native = "polling"
    /\ native' = "timeout"
    /\ phase' = "thrown"
    /\ Abandon
    /\ UNCHANGED <<taskVars, store, deletes, answer, faults>>

\* Mutant: a result that came in meanwhile is not looked for first.
ReadResult_Races ==
    /\ phase = "thrown"
    /\ phase' = "recovering"
    /\ UNCHANGED <<taskVars, store, deletes, readerVars, native, answer, faults>>

\* readResultAsync of the error: the result that came in meanwhile, or a race
\* between reading on and asking for the task once more.
ReadResult ==
    /\ phase = "thrown"
    /\ CASE reader = "complete" -> Answer(outcome)
         [] reader = "ended" /\ native = "uncertain" -> Answer(Failed)
         [] OTHER -> phase' = "recovering" /\ UNCHANGED answer
    /\ UNCHANGED <<taskVars, store, deletes, readerVars, native, faults>>

\* The reread of the task, or the deadline of an ambiguous create, ends the race.
RereadSettles ==
    /\ phase = "recovering"
    /\ \/ native = "timeout" /\ task = "ended" /\ Answer(outcome)
       \/ Answer(Failed)
    /\ Abandon
    /\ UNCHANGED <<taskVars, store, deletes, native, faults>>

\* options.signal: another submission of the execution has answered.
Abort ==
    /\ phase \in {"race", "thrown", "recovering"}
    /\ phase' = "aborted"
    /\ Abandon
    /\ UNCHANGED <<taskVars, store, deletes, native, answer, faults>>

-----------------------------------------------------------------------------
Init ==
    /\ task = "absent" /\ outcome = NoOutcome /\ part = 1
    /\ store = {} /\ deletes = {}
    /\ native = "submitting" /\ phase = "race" /\ answer = NoOutcome
    /\ reader = "reading" /\ readers = 1 /\ got = 0 /\ unacked = 0
    /\ faults = 0

Publish == ScriptEnds \/ PutChunk \/ SeesAcknowledged \/ TaskEnds
Relay == ReadChunk \/ SendDelete \/ DeleteAnswered \/ ReadOn \/ \E k \in Parts : DeleteLands(k)
Native == SubmitAnswered \/ NativeAnswers \/ NativeFails \/ NativeTimesOut
Recovery == ReadResult \/ RereadSettles \/ Abort

Next ==
    \/ CreateLands \/ Publish \/ PublishFails
    \/ Relay \/ ReaderFails
    \/ \E k \in Parts : Expire(k) \/ DeleteLost(k)
    \/ Native \/ Recovery

Spec == Init /\ [][Next]_vars

\* The task runs on, and requests of the reader are sent, land and are answered.
\* Nothing is asked of the poll of the task or of the caller.
FairSpec == Spec /\ WF_vars(Publish) /\ WF_vars(Relay)

-----------------------------------------------------------------------------
(* Properties.                                                             *)

TypeOK ==
    /\ task \in {"absent", "script", "put", "await", "published", "ended"}
    /\ outcome \in Outcomes \cup {NoOutcome}
    /\ part \in Parts
    /\ store \subseteq Parts
    /\ deletes \subseteq Parts
    /\ native \in {"submitting", "polling", "uncertain", "timeout", "settled"}
    /\ reader \in {"reading", "deleting", "ended", "complete"}
    /\ readers \in 1..3
    /\ got \in 0..Chunks
    /\ unacked \in 0..Chunks
    /\ phase \in {"race", "thrown", "recovering", "done", "aborted"}
    /\ answer \in Outcomes \cup {NoOutcome, Failed}
    /\ faults \in 0..MaxFaults

\* The task moves on to the next chunk only when the CLI holds the last one: a
\* chunk that is gone was read, whoever gave up, resumed or expired meanwhile
\* (execution-result-relay.luau:25-36, result-relay.ts:298-299).
AckMeansRead == part <= got + 1

\* The map never keeps a chunk the reader has moved past, and is empty once the
\* result is whole, although deletes fail, land late and are sent again
\* (result-relay.ts:243-260).
LeavesNothing ==
    /\ store \subseteq {got, got + 1}
    /\ reader = "complete" => store = {}

\* Task, map and reader stay in step.
ChunksInStep == AckMeansRead /\ LeavesNothing

\* A result that came in while the execution was hedged is what the recovery
\* returns, whatever becomes of asking for the task again
\* (result-relay.ts:186-188).
CompletedIsKept == [][reader = "complete" /\ answer' # answer => answer' = outcome]_vars

\* Without a fault of the store, what the task starts to publish is read to the
\* end, though its poll never answers or has timed out and nobody has asked to
\* read on: "the publisher requires prompt acknowledgements"
\* (result-relay.ts:178).
Delivers == task = "put" ~> reader = "complete" \/ phase \in {"done", "aborted"} \/ faults > 0
=============================================================================
