---------------------------- MODULE OneExecution ----------------------------
(***************************************************************************)
(* What one logical execution promises, however many tasks are submitted   *)
(* for it: at most one of them ever runs the test script, and the caller   *)
(* gets either that task's result or an error, once.  The caller is        *)
(* executeClaimedAsync of src/backends/open-cloud.ts.                      *)
(***************************************************************************)
CONSTANT Tasks

VARIABLES ran,      \* the tasks that ran the test script
          answer    \* the task whose result the caller got, or how it ended

NoAnswer == "noAnswer"
Failed == "failed"

Init == ran = {} /\ answer = NoAnswer

Run(t) == ran = {} /\ ran' = {t} /\ UNCHANGED answer

Settle == /\ answer = NoAnswer
          /\ answer' \in ran \cup {Failed}
          /\ UNCHANGED ran

Next == Settle \/ \E t \in Tasks : Run(t)

Spec == Init /\ [][Next]_<<ran, answer>>
=============================================================================
