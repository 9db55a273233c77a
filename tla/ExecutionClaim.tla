--------------------------- MODULE ExecutionClaim ---------------------------
(***************************************************************************)
(* The Roblox side of one logical execution: the tasks submitted for it,   *)
(* each of which runs luau/execution-claim.luau before the test script,    *)
(* and the one MemoryStore key they all update.                            *)
(*                                                                         *)
(* Time is two moments: startBefore passes (the window shuts), and later   *)
(* the key's retention, which the snippet stretches to outlast it, ends.   *)
(***************************************************************************)
EXTENDS Integers, FiniteSets

CONSTANTS
    Tasks,           \* the tasks that may be created for the execution
    ClaimAttempts    \* how often a task calls UpdateAsync before it gives up

ASSUME TasksAssumption == IsFiniteSet(Tasks)
ASSUME AttemptsAssumption == ClaimAttempts \in Nat \ {0}

NoTask == "noTask"
ASSUME NoTaskAssumption == NoTask \notin Tasks

VARIABLES
    task,      \* where each task stands
    tries,     \* UpdateAsync calls each task has left
    claim,     \* the owner the key holds
    window,    \* whether startBefore is still ahead
    ran        \* the tasks that went on to the test script

claimVars == <<task, tries, claim, window, ran>>

\* A finished task carries the script's own outputs or one of the sentinels.
Answers == {"result", "notClaimed", "startExpired"}
Statuses == {"absent", "claiming", "running", "failed"} \cup Answers

ClaimInit == /\ task = [t \in Tasks |-> "absent"]
             /\ tries = [t \in Tasks |-> ClaimAttempts]
             /\ claim = NoTask
             /\ window = "open"
             /\ ran = {}

\* Open Cloud creates the task; how long it waits for a server is left open.
Create(t) == /\ task[t] = "absent"
             /\ task' = [task EXCEPT ![t] = "claiming"]
             /\ UNCHANGED <<tries, claim, window, ran>>

\* The callback of UpdateAsync returns the claim rather than nil.
Grantable(t) == window = "open" /\ claim \in {NoTask, t}

\* The update lands and its reply arrives: the task runs the script.
UpdateGranted(t) ==
    /\ task[t] = "claiming" /\ Grantable(t)
    /\ claim' = t
    /\ task' = [task EXCEPT ![t] = "running"]
    /\ ran' = ran \cup {t}
    /\ UNCHANGED <<tries, window>>

\* The callback returned nil: the task says which clock or owner was against it.
UpdateDeclined(t) ==
    /\ task[t] = "claiming" /\ ~Grantable(t)
    /\ task' = [task EXCEPT ![t] = IF window = "shut" THEN "startExpired" ELSE "notClaimed"]
    /\ UNCHANGED <<tries, claim, window, ran>>

\* The call raises, whether or not the update landed first; the third error
\* ends the task, which may then own a claim it will never use.
UpdateErrors(t) ==
    /\ task[t] = "claiming"
    /\ claim' \in {claim} \cup (IF Grantable(t) THEN {t} ELSE {})
    /\ tries' = [tries EXCEPT ![t] = @ - 1]
    /\ task' = [task EXCEPT ![t] = IF tries[t] = 1 THEN "failed" ELSE @]
    /\ UNCHANGED <<window, ran>>

\* The script returns, or dies.
Finish(t) == /\ task[t] = "running"
             /\ \E s \in {"result", "failed"} : task' = [task EXCEPT ![t] = s]
             /\ UNCHANGED <<tries, claim, window, ran>>

WindowShuts == /\ window = "open"
               /\ window' = "shut"
               /\ UNCHANGED <<task, tries, claim, ran>>

\* Mutant: the key is kept for the client's retention and no longer.
ClaimExpires_Early == /\ claim # NoTask
                      /\ claim' = NoTask
                      /\ UNCHANGED <<task, tries, window, ran>>

\* max(retention, remaining + 60): the key outlives the start window.
ClaimExpires == /\ window = "shut" /\ claim # NoTask
                /\ claim' = NoTask
                /\ UNCHANGED <<task, tries, window, ran>>

TaskStep(t) == UpdateGranted(t) \/ UpdateDeclined(t) \/ UpdateErrors(t) \/ Finish(t)

ClaimTypeOK == /\ task \in [Tasks -> Statuses]
               /\ tries \in [Tasks -> 0..ClaimAttempts]
               /\ claim \in Tasks \cup {NoTask}
               /\ window \in {"open", "shut"}
               /\ ran \subseteq Tasks
=============================================================================
