---------------------------- MODULE StudioLaunch ----------------------------
(***************************************************************************)
(* The Studio a `studio-cli` run launches and how it is wound down         *)
(* (src/backends/studio-cli.ts, studio-cli-process.ts, hidden-helper.ts,   *)
(* studio-lock.ts): spawned directly, or by a helper that prints its pid;  *)
(* after an answer it is left to close its place and killed once the       *)
(* place's lock file is gone, after a failure it is killed at once.        *)
(*                                                                         *)
(* Every launch of a project opens the same place file, so that one lock   *)
(* file is shared by all of them.  Studio, the helper and the signals they *)
(* get are the system's; a command line may be killed at any point.        *)
(***************************************************************************)
EXTENDS Integers

CONSTANT MaxLaunches   \* bound: command lines that launch Studio in one history

ASSUME LaunchBound == MaxLaunches \in Nat

Launches == 1..MaxLaunches
NoLock == 0

VARIABLES
    launched,  \* command lines begun
    process,   \* per command line: "none" | "setup" | "waiting" | "settled" | "ended" | "killed"
    channel,   \* its result server: "none" | "open" | "closed"
    hidden,    \* Studio is launched by a helper
    studio,    \* "none" | "booting" | "open" | "closing" | "draining" | "gone"
    helper,    \* "none" | "running" | "stopped": told to | "gone"
    studioPid, \* "unknown" | "printed" | "known" to the command line
    killing,   \* "none" | "asked" | "sent" | "forced"
    watch,     \* "off" | "polling" | "expired" | "released" | "capped"
    lock,      \* the launch whose Studio wrote <place>.lock, or NoLock
    shared     \* bookkeeping: launches that were not alone with the place

commandVars == <<launched, process, channel, hidden, killing, watch, shared>>
helperVars == <<helper, studioPid>>
launchVars == <<commandVars, helperVars, studio, lock>>

LaunchInit ==
    /\ launched = 0
    /\ process = [l \in Launches |-> "none"]
    /\ channel = [l \in Launches |-> "none"]
    /\ hidden = [l \in Launches |-> FALSE]
    /\ studio = [l \in Launches |-> "none"]
    /\ helper = [l \in Launches |-> "none"]
    /\ studioPid = [l \in Launches |-> "unknown"]
    /\ killing = [l \in Launches |-> "none"]
    /\ watch = [l \in Launches |-> "off"]
    /\ lock = NoLock
    /\ shared = {}

Alive(l) == process[l] \in {"waiting", "settled"}

-----------------------------------------------------------------------------
(* Winding down.                                                           *)

\* terminateStudio, and terminate of deferredKill: with no pid yet, only the
\* helper can be stopped.
Terminate(l) ==
    IF hidden[l] /\ studioPid[l] # "known"
    THEN /\ killing' = [killing EXCEPT ![l] = "asked"]
         /\ helper' = [helper EXCEPT ![l] = IF @ = "running" THEN "stopped" ELSE @]
    ELSE killing' = [killing EXCEPT ![l] = "sent"] /\ UNCHANGED helper

\* hardTeardown.
WaitFails(l) ==
    /\ process[l] = "waiting"
    /\ process' = [process EXCEPT ![l] = "settled"]
    /\ channel' = [channel EXCEPT ![l] = "closed"]
    /\ Terminate(l)
    /\ UNCHANGED <<launched, hidden, studioPid, studio, watch, lock, shared>>

\* startGracefulTeardown: a result frame came over the run's channel, from a Studio that
\* has opened the place and may have begun to close it.
WaitAnswered(l) ==
    /\ process[l] = "waiting" /\ studio[l] \in {"open", "closing", "draining"}
    /\ process' = [process EXCEPT ![l] = "settled"]
    /\ channel' = [channel EXCEPT ![l] = "closed"]
    /\ watch' = [watch EXCEPT ![l] = "polling"]
    /\ UNCHANGED <<launched, hidden, helperVars, studio, killing, lock, shared>>

\* The grace cap passes.
GraceEnds(l) ==
    /\ watch[l] = "polling" /\ Alive(l)
    /\ watch' = [watch EXCEPT ![l] = "expired"]
    /\ UNCHANGED <<launched, process, channel, hidden, helperVars, studio, killing, lock, shared>>

\* watchLockRelease: one poll that finds the lock gone or the cap passed.
LockPolled(l) ==
    /\ Alive(l)
    /\ watch[l] = "expired" \/ (watch[l] = "polling" /\ lock = NoLock)
    /\ watch' = [watch EXCEPT ![l] = IF lock = NoLock THEN "released" ELSE "capped"]
    /\ Terminate(l)
    /\ UNCHANGED <<launched, process, channel, hidden, studioPid, studio, lock, shared>>

\* SIGTERM was ignored for five seconds; the handle no longer holds the process.
Escalates(l) ==
    /\ Alive(l) /\ ~hidden[l] /\ killing[l] = "sent" /\ studio[l] # "gone"
    /\ killing' = [killing EXCEPT ![l] = "forced"]
    /\ UNCHANGED <<launched, process, channel, hidden, helperVars, studio, watch, lock, shared>>

\* The helper outlives the kill by five seconds, or the kill was its last use.
StopsHelper(l) ==
    /\ Alive(l) /\ killing[l] = "sent" /\ helper[l] = "running"
    /\ helper' = [helper EXCEPT ![l] = "stopped"]
    /\ UNCHANGED <<commandVars, studioPid, studio, lock>>

\* What is still open holds the event loop.
HoldsLoop(l) ==
    \/ channel[l] = "open"
    \/ watch[l] \in {"polling", "expired"}
    \/ IF hidden[l] THEN helper[l] # "gone" \/ studioPid[l] = "printed"
                    ELSE studio[l] # "gone" /\ killing[l] # "forced"

ProcessEnds(l) ==
    /\ process[l] = "settled" /\ ~HoldsLoop(l)
    /\ process' = [process EXCEPT ![l] = "ended"]
    /\ UNCHANGED <<launched, channel, hidden, helperVars, studio, killing, watch, lock, shared>>

ProcessKilled(l) ==
    /\ process[l] \in {"setup", "waiting", "settled"}
    /\ process' = [process EXCEPT ![l] = "killed"]
    /\ channel' = [channel EXCEPT ![l] = IF @ = "open" THEN "closed" ELSE @]
    /\ UNCHANGED <<launched, hidden, helperVars, studio, killing, watch, lock, shared>>

-----------------------------------------------------------------------------
(* Launching.                                                              *)

\* The place is built, Studio found, the plugin installed and the server opened,
\* or one of these fails.
SetsUp(l) ==
    /\ l = launched + 1
    /\ launched' = l
    /\ \/ /\ process' = [process EXCEPT ![l] = "setup"]
          /\ channel' = [channel EXCEPT ![l] = "open"]
       \/ process' = [process EXCEPT ![l] = "ended"] /\ UNCHANGED channel
    /\ UNCHANGED <<hidden, helperVars, studio, killing, watch, lock, shared>>

\* Studios that have the place open, or may still come to it.
Others(l) == {k \in Launches \ {l} : process[k] \notin {"none", "setup"} /\ studio[k] # "gone"
                                      /\ ~(studio[k] = "none" /\ helper[k] = "none")}

\* Mutant: the lock a killed Studio left is not cleared.
Spawns_KeepsLock(l) ==
    /\ process[l] = "setup"
    /\ process' = [process EXCEPT ![l] = "waiting"]
    /\ shared' = IF Others(l) = {} THEN shared ELSE shared \cup Others(l) \cup {l}
    /\ \/ /\ studio' = [studio EXCEPT ![l] = "booting"]
          /\ UNCHANGED <<hidden, helper>>
       \/ /\ hidden' = [hidden EXCEPT ![l] = TRUE]
          /\ helper' = [helper EXCEPT ![l] = "running"]
          /\ UNCHANGED studio
    /\ UNCHANGED <<launched, channel, studioPid, killing, watch, lock>>

\* spawnStudio and launchThroughHelper clear the lock first.  A spawn that fails is
\* a Studio that is gone.
Spawns(l) ==
    /\ process[l] = "setup"
    /\ process' = [process EXCEPT ![l] = "waiting"]
    /\ lock' = NoLock
    /\ shared' = IF Others(l) = {} THEN shared ELSE shared \cup Others(l) \cup {l}
    /\ \/ /\ \E s \in {"booting", "gone"} : studio' = [studio EXCEPT ![l] = s]
          /\ UNCHANGED <<hidden, helper>>
       \/ /\ hidden' = [hidden EXCEPT ![l] = TRUE]
          /\ helper' = [helper EXCEPT ![l] = "running"]
          /\ UNCHANGED studio
    /\ UNCHANGED <<launched, channel, studioPid, killing, watch>>

\* The server binds no port, the lock cannot be cleared, or the spawn throws after it was.
NothingLaunched(l) ==
    /\ process[l] = "setup"
    /\ process' = [process EXCEPT ![l] = "ended"]
    /\ channel' = [channel EXCEPT ![l] = "closed"]
    /\ \/ UNCHANGED <<lock, shared>>
       \/ lock' = NoLock /\ shared' = shared \cup Others(l)
    /\ UNCHANGED <<launched, hidden, helperVars, studio, killing, watch>>

\* Mutant: a kill that was asked for before the pid came is forgotten.
HearsPid_Forgets(l) ==
    /\ Alive(l) /\ studioPid[l] = "printed"
    /\ studioPid' = [studioPid EXCEPT ![l] = "known"]
    /\ UNCHANGED <<commandVars, helper, studio, lock>>

\* onPid.
HearsPid(l) ==
    /\ Alive(l) /\ studioPid[l] = "printed"
    /\ studioPid' = [studioPid EXCEPT ![l] = "known"]
    /\ killing' = [killing EXCEPT ![l] = IF @ = "asked" THEN "sent" ELSE @]
    /\ UNCHANGED <<launched, process, channel, hidden, helper, studio, watch, lock, shared>>

-----------------------------------------------------------------------------
(* The helper and Studio.                                                  *)

Runs(l) == helper[l] \in {"running", "stopped"}

HelperLaunches(l) ==
    /\ Runs(l) /\ studio[l] = "none"
    /\ studio' = [studio EXCEPT ![l] = "booting"]
    /\ UNCHANGED <<commandVars, helperVars, lock>>

HelperPrints(l) ==
    /\ Runs(l) /\ studio[l] # "none" /\ studioPid[l] = "unknown"
    /\ studioPid' = [studioPid EXCEPT ![l] = "printed"]
    /\ UNCHANGED <<commandVars, helper, studio, lock>>

\* It dies of the signal, fails before it launched anything, or follows its Studio.
HelperExits(l) ==
    /\ \/ helper[l] = "stopped"
       \/ helper[l] = "running" /\ studio[l] = "none"
       \/ helper[l] = "running" /\ studio[l] = "gone" /\ studioPid[l] # "unknown"
    /\ helper' = [helper EXCEPT ![l] = "gone"]
    /\ studio' = [studio EXCEPT ![l] = IF @ = "none" THEN "gone" ELSE @]
    /\ UNCHANGED <<commandVars, studioPid, lock>>

StudioGoes(l, from, to) ==
    /\ studio[l] \in from
    /\ studio' = [studio EXCEPT ![l] = to]
    /\ UNCHANGED <<commandVars, helperVars>>

OpensPlace(l) == StudioGoes(l, {"booting"}, "open") /\ lock' = l

\* --quitAfterExecution: the bootstrap returned, its socket was closed or it lingered.
ClosesPlace(l) == StudioGoes(l, {"open"}, "closing") /\ UNCHANGED lock

\* ClosePlace ends; whether a lock another Studio wrote goes too is not known.
FreesLock(l) ==
    /\ StudioGoes(l, {"closing"}, "draining")
    /\ lock' \in IF lock = l THEN {NoLock} ELSE {NoLock, lock}

\* A kill that lands, or an end of its own: the lock stays where it is.
StudioDies(l) ==
    /\ StudioGoes(l, {"booting", "open", "closing", "draining"}, "gone")
    /\ UNCHANGED lock

LaunchNext ==
    \E l \in Launches :
      \/ SetsUp(l) \/ Spawns(l) \/ NothingLaunched(l) \/ HearsPid(l)
      \/ WaitFails(l) \/ WaitAnswered(l) \/ GraceEnds(l) \/ LockPolled(l)
      \/ Escalates(l) \/ StopsHelper(l) \/ ProcessEnds(l) \/ ProcessKilled(l)
      \/ HelperLaunches(l) \/ HelperPrints(l) \/ HelperExits(l)
      \/ OpensPlace(l) \/ ClosesPlace(l) \/ FreesLock(l) \/ StudioDies(l)

LaunchSpec == LaunchInit /\ [][LaunchNext]_launchVars

-----------------------------------------------------------------------------
(* Properties.                                                             *)

LaunchTypeOK ==
    /\ launched \in 0..MaxLaunches
    /\ process \in [Launches -> {"none", "setup", "waiting", "settled", "ended", "killed"}]
    /\ channel \in [Launches -> {"none", "open", "closed"}]
    /\ hidden \in [Launches -> BOOLEAN]
    /\ studio \in [Launches -> {"none", "booting", "open", "closing", "draining", "gone"}]
    /\ helper \in [Launches -> {"none", "running", "stopped", "gone"}]
    /\ studioPid \in [Launches -> {"unknown", "printed", "known"}]
    /\ killing \in [Launches -> {"none", "asked", "sent", "forced"}]
    /\ watch \in [Launches -> {"off", "polling", "expired", "released", "capped"}]
    /\ lock \in Launches \cup {NoLock}
    /\ shared \subseteq Launches

\* A Studio that has the place to itself opens it onto no lock a killed one left, and
\* finds no lock gone but its own (studio-cli-process.ts:145-147).
LockIsOwn ==
    \A l \in Launches \ shared :
      /\ studio[l] = "booting" => lock = NoLock
      /\ studio[l] \in {"open", "closing"} => lock = l

\* After an answer Studio is given its time: it is killed early only once it has run its
\* handlers and let the place go (studio-cli-types.ts:18-27).
ClosesInPeace ==
    \A l \in Launches \ shared :
      watch[l] = "released" => studio[l] \in {"draining", "gone"}

\* A command line that ended has sent its Studio the strongest kill it has, whenever the
\* pid came; only a Studio whose helper was stopped before it named it gets none.
NoStudioForgotten ==
    \A l \in Launches : process[l] = "ended" /\ studio[l] \notin {"none", "gone"} =>
      IF hidden[l] THEN killing[l] = "sent" \/ studioPid[l] = "unknown"
                   ELSE killing[l] = "forced"

\* Nothing holds the process of a settled run but what is about to end: the watch, a kill
\* that was sent, or a helper that was told to stop.
LoopDrains ==
    \A l \in Launches : process[l] = "settled" =>
      /\ channel[l] = "closed"
      /\ watch[l] \in {"polling", "expired"} \/ killing[l] # "none"
      /\ killing[l] = "asked" => helper[l] \in {"stopped", "gone"}

\* What one run's Studio leaves to the next, and to its own process.
LaunchesAreSound ==
    LaunchTypeOK /\ LockIsOwn /\ ClosesInPeace /\ NoStudioForgotten /\ LoopDrains
=============================================================================
