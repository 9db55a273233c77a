--------------------------- MODULE CloudDispatch ----------------------------
(***************************************************************************)
(* A dispatch without a queue whose creates take time: StaticDispatch, with *)
(* every create of the bucket Watched followed through Submission.  The    *)
(* creates of the other buckets have a controller each and share nothing   *)
(* with it, so only their outcome is kept.  executeScriptAsync of          *)
(* packages/roblox-runner/src/ocale-runner.ts is what joins the two: it    *)
(* observes a task once its create is accepted, and rejects otherwise.     *)
(***************************************************************************)
EXTENDS StaticDispatch, Submission

Watched == 1

CloudInit == DispatchInit /\ Init

Submits == /\ pc[Watched] = "submitting"
           /\ Next
           /\ UNCHANGED dispatchVars

\* A settled create hands over to the dispatch; whatever the bucket sends next is
\* a create of its own.
CreateAccepted == /\ result = "accepted"
                  /\ Accepted(Watched)
                  /\ Begin

CreateFails == /\ pc[Watched] = "submitting"
               /\ result \in {"refused", "expired"}
               /\ Rejects(Watched)
               /\ Begin

WatchedReturns == /\ Returns(Watched) \/ ReturnsAll(Watched)
                  /\ UNCHANGED vars

Elsewhere == /\ \/ \E b \in Buckets \ {Watched} : BucketStep(b) \/ Rejects(b)
                \/ pc[Watched] = "running" /\ Rejects(Watched)
                \/ RunFails \/ Merge \/ Collect \/ Over
             /\ UNCHANGED vars

CloudNext == Submits \/ CreateAccepted \/ CreateFails \/ WatchedReturns \/ Elsewhere

cloudVars == <<dispatchVars, vars>>

SubmissionGoesOn ==
    /\ pc[Watched] = "submitting"
    /\ Dequeue \/ Send \/ Wakes \/ TimesOut \/ Expires
         \/ Tick \/ Watch
    /\ UNCHANGED dispatchVars

CloudSpec == CloudInit /\ [][CloudNext]_cloudVars

\* The fairness of both parts: timers fire, continuations run, a task that was
\* created returns or its poll gives up.
CloudFairSpec ==
    /\ CloudSpec
    /\ WF_cloudVars(SubmissionGoesOn)
    /\ WF_cloudVars(CreateAccepted \/ CreateFails)
    /\ WF_cloudVars(WatchedReturns)
    /\ \A b \in Buckets \ {Watched} : WF_cloudVars(BucketStep(b) /\ UNCHANGED vars)
    /\ WF_cloudVars((RunFails \/ Merge \/ Collect) /\ UNCHANGED vars)

-----------------------------------------------------------------------------
\* The types of both parts, and what the run may report: a job is missing only
\* behind a damaged result, skipped only behind a failure.
CloudInv == DispatchTypeOK /\ TypeOK /\ RoundsSuffice /\ SkippedBehindFailure
=============================================================================
