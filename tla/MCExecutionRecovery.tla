------------------------ MODULE MCExecutionRecovery ------------------------
(***************************************************************************)
(* Both ways executeWithRecoveryAsync arms its boot watch, in one run: on  *)
(* every accepted create, as the CLI has it, and once before any of them   *)
(* too, as it does by default.  The second is followed to the end of the   *)
(* race only: its question is which claim read the hedge goes by.          *)
(***************************************************************************)
EXTENDS ExecutionRecovery

Followed == watchesSubmission \/ pc = "race"
MCNext == Followed /\ Next

MCSpec == /\ Init /\ [][MCNext]_vars
          /\ WF_vars(Followed /\ HostStep /\ UNCHANGED watchesSubmission)

\* Whatever Roblox and the watch do -- the task never starts, the claim read
\* never answers -- the execution ends (deadlines of ocale-runner.ts:112-133
\* and result-relay.ts:92).
EndsAnyway == watchesSubmission => Terminates
=============================================================================
