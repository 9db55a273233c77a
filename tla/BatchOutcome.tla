---------------------------- MODULE BatchOutcome ----------------------------
(***************************************************************************)
(* What a workspace dispatch promises its caller, whatever pool, queue and *)
(* tasks it uses to keep the promise: verdicts arrive for jobs, a verdict  *)
(* that has arrived is never replaced, and the dispatch settles once -- as *)
(* "complete" only when every job has its verdict, as "missing" only when  *)
(* one has none.  The caller is runProjectsAsync of src/executor.ts, which *)
(* pairs results with jobs and trusts that pairing.                        *)
(***************************************************************************)
CONSTANT Jobs

VARIABLES collected,   \* the verdict each job's entry carries, or "none"
          outcome      \* how the dispatch settled, "running" until it does

Verdicts == {"pass", "fail"}
Outcomes == {"running", "failed", "bailed", "missing", "complete"}

Init == /\ collected = [j \in Jobs |-> "none"]
        /\ outcome = "running"

\* Entries of a finished task arrive; the ones already there stay as they are.
Deliver == /\ outcome = "running"
           /\ collected' \in [Jobs -> Verdicts \cup {"none"}]
           /\ \A j \in Jobs : collected[j] # "none" => collected'[j] = collected[j]
           /\ UNCHANGED outcome

\* The dispatch settles for good.
Settle == /\ outcome = "running"
          /\ outcome' \in Outcomes \ {"running"}
          /\ outcome' = "complete" => \A j \in Jobs : collected[j] # "none"
          /\ outcome' = "missing" => \E j \in Jobs : collected[j] = "none"
          /\ UNCHANGED collected

Next == Deliver \/ Settle

Spec == Init /\ [][Next]_<<collected, outcome>>
=============================================================================
