--------------------------- MODULE MCWorkStealing ---------------------------
(* Small instances of WorkStealing for TLC.                                *)
EXTENDS WorkStealing

\* The budget is 2: "big" overflows it alone, two small entries fill it exactly.
MCSize == [j \in Jobs |-> IF j = "big" THEN 3 ELSE 1]

\* How often each kind may strike, by run.
Never == [k \in FaultKinds |-> 0]
Once(kinds) == [k \in FaultKinds |-> IF k \in kinds THEN 1 ELSE 0]

BackoffFaults == {[Never EXCEPT !["backoff"] = 1]}

\* Either the tasks and the signal fail, or items are delivered twice or not at
\* all, or the queue refuses what is put back.
TaskFaults == Once({"signal", "stream", "crash", "submit", "backoff", "read"})
ItemFaults == Once({"retire", "ttl", "window"})
PutBackFaults == [Once({"window"}) EXCEPT !["requeue"] = REQUEUE_ATTEMPTS]
AllFaults == {TaskFaults, ItemFaults, PutBackFaults}
=============================================================================
