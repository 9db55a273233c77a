---------------------------- MODULE AtomicWrite ----------------------------
(***************************************************************************)
(* Processes that publish to one file at once (src/utils/atomic-write.ts): *)
(* each writes a temporary file named after its pid and a nonce and renames *)
(* it over the target, after it has swept the temporary files whose owners *)
(* are gone.  Nothing is locked; a process may be killed between any two   *)
(* steps, and the system may give its pid to another.                      *)
(***************************************************************************)
EXTENDS Integers, FiniteSets

CONSTANTS
    Writers,    \* slots a process may run in
    Pids,       \* what the system has to give
    MaxWrites,  \* writes begun in one history
    MaxKills    \* processes killed in one history

ASSUME WritersFinite == IsFiniteSet(Writers) /\ IsFiniteSet(Pids)
ASSUME WriteBounds == MaxWrites \in Nat /\ MaxKills \in Nat

NoName == [pid |-> "none", nonce |-> 0]
Names == [pid : Pids, nonce : 1..MaxWrites]

VARIABLES
    published,  \* TRUE while the target holds the whole of what some write carried
    temps,      \* the temporary files beside the target
    filled,     \* those that hold all of their contents
    drawn,      \* nonces drawn so far
    kills,
    step,       \* where each process is in its write
    pid,        \* its pid
    name,       \* its own temporary file
    listed,     \* the names its sweep has still to look at
    judged      \* the name its sweep has found abandoned

directoryVars == <<published, temps, filled, drawn>>
writeVars == <<directoryVars, kills, step, pid, name, listed, judged>>

WriteInit ==
    /\ published = TRUE
    /\ temps = {} /\ filled = {} /\ drawn = 0 /\ kills = 0
    /\ step = [w \in Writers |-> "gone"]
    /\ pid = [w \in Writers |-> "none"]
    /\ name = [w \in Writers |-> NoName]
    /\ listed = [w \in Writers |-> {}]
    /\ judged = [w \in Writers |-> NoName]

\* process.kill(pid, 0): the pids that name a process.
Owners == {pid[w] : w \in {v \in Writers : step[v] # "gone"}}

\* A process starts, under any pid that is free.
Starts(w) ==
    /\ step[w] = "gone"
    /\ \E p \in Pids \ Owners : pid' = [pid EXCEPT ![w] = p]
    /\ step' = [step EXCEPT ![w] = "idle"]
    /\ UNCHANGED <<directoryVars, kills, name, listed, judged>>

\* A write begins with the names that lie in the directory, or without a
\* sweep: it was asked for none, or the directory will not be listed.
Lists(w) ==
    /\ step[w] = "idle" /\ drawn < MaxWrites
    /\ step' = [step EXCEPT ![w] = "sweeping"]
    /\ \E found \in {temps, {}} : listed' = [listed EXCEPT ![w] = found]
    /\ UNCHANGED <<directoryVars, kills, pid, name, judged>>

\* One name: kept while its owner runs.
Judges(w, n) ==
    /\ step[w] = "sweeping" /\ n \in listed[w]
    /\ listed' = [listed EXCEPT ![w] = @ \ {n}]
    /\ IF n.pid \in Owners
       THEN UNCHANGED <<step, judged>>
       ELSE /\ step' = [step EXCEPT ![w] = "removing"]
            /\ judged' = [judged EXCEPT ![w] = n]
    /\ UNCHANGED <<directoryVars, kills, pid, name>>

\* It is deleted, unless the file is held or somebody else took it.
Removes(w) ==
    /\ step[w] = "removing"
    /\ step' = [step EXCEPT ![w] = "sweeping"]
    /\ judged' = [judged EXCEPT ![w] = NoName]
    /\ \/ temps' = temps \ {judged[w]} /\ filled' = filled \ {judged[w]}
       \/ UNCHANGED <<temps, filled>>
    /\ UNCHANGED <<published, drawn, kills, pid, name, listed>>

\* Opening the temporary file empties what lies there.
Opens(w, n) ==
    /\ step[w] = "sweeping" /\ listed[w] = {} /\ drawn < MaxWrites
    /\ drawn' = drawn + 1
    /\ name' = [name EXCEPT ![w] = n]
    /\ temps' = temps \cup {n}
    /\ filled' = filled \ {n}
    /\ step' = [step EXCEPT ![w] = "filling"]
    /\ UNCHANGED <<published, kills, pid, listed, judged>>

\* Mutant: the name is made of the pid alone.
Creates_NoNonce(w) == Opens(w, [pid |-> pid[w], nonce |-> 1])

Creates(w) == Opens(w, [pid |-> pid[w], nonce |-> drawn + 1])

\* The contents are written, or the write fails and leaves the file behind.
Fills(w) ==
    /\ step[w] = "filling"
    /\ \/ /\ step' = [step EXCEPT ![w] = "renaming"]
          /\ filled' = filled \cup ({name[w]} \cap temps)
       \/ step' = [step EXCEPT ![w] = "idle"] /\ UNCHANGED filled
    /\ UNCHANGED <<published, temps, drawn, kills, pid, name, listed, judged>>

\* The rename, whose attempts may all be refused.
Renames(w) ==
    /\ step[w] = "renaming"
    /\ step' = [step EXCEPT ![w] = "idle"]
    /\ \/ /\ name[w] \in temps
          /\ published' = (name[w] \in filled)
          /\ temps' = temps \ {name[w]} /\ filled' = filled \ {name[w]}
       \/ UNCHANGED <<published, temps, filled>>
    /\ UNCHANGED <<drawn, kills, pid, name, listed, judged>>

Dies(w) ==
    /\ step[w] # "gone" /\ kills < MaxKills
    /\ kills' = kills + 1
    /\ step' = [step EXCEPT ![w] = "gone"]
    /\ listed' = [listed EXCEPT ![w] = {}]
    /\ judged' = [judged EXCEPT ![w] = NoName]
    /\ UNCHANGED <<directoryVars, pid, name>>

WriteNext ==
    \E w \in Writers :
      \/ Starts(w) \/ Lists(w) \/ Removes(w) \/ Creates(w) \/ Fills(w) \/ Renames(w) \/ Dies(w)
      \/ \E n \in listed[w] : Judges(w, n)

WriteSpec == WriteInit /\ [][WriteNext]_writeVars

-----------------------------------------------------------------------------
(* Properties                                                              *)

WriteTypeOK ==
    /\ published \in BOOLEAN
    /\ drawn \in 0..MaxWrites /\ kills \in 0..MaxKills
    /\ temps \subseteq Names /\ filled \subseteq temps
    /\ step \in [Writers -> {"gone", "idle", "sweeping", "removing", "filling", "renaming"}]
    /\ pid \in [Writers -> Pids \cup {"none"}]
    /\ name \in [Writers -> Names \cup {NoName}]
    /\ listed \in [Writers -> SUBSET Names]
    /\ judged \in [Writers -> Names \cup {NoName}]

Writing(w) == step[w] \in {"filling", "renaming"}

\* No sweep ever takes the file of a write that is still under way, no two
\* writes share one, and what is renamed over the target is whole: whatever is
\* killed, and however pids are given out again between a sweep's look at a
\* name and its delete (atomic-write.ts on what pid and nonce settle between them).
WritesAreWhole ==
    /\ WriteTypeOK
    /\ published
    /\ \A w \in Writers : Writing(w) =>
         /\ name[w] \in temps
         /\ step[w] = "renaming" => name[w] \in filled
         /\ \A v \in Writers : Writing(v) /\ v # w => name[v] # name[w]
=============================================================================
