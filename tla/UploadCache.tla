---------------------------- MODULE UploadCache ----------------------------
(***************************************************************************)
(* The place version a run's tests are pinned to, and the cache file that  *)
(* spares the upload (src/backends/open-cloud-place-version.ts,            *)
(* upload-cache.ts).                                                       *)
(*                                                                         *)
(* Several command lines of one project share the cache file and the place *)
(* files and lock neither.  A place file may be rebuilt at any time; a     *)
(* version keeps the bytes it was made of.  The cache is written in place, *)
(* so that another process may find it empty or garbled.                   *)
(***************************************************************************)
EXTENDS Integers, Sequences

CONSTANTS
    Clis,         \* slots a command line may run in
    Targets,      \* place files, each for its universe and place
    Bytes,        \* what a place file may hold
    Bootable,     \* the contents Roblox can boot
    MaxRuns,      \* command lines started in one history
    MaxRebuilds   \* place files rebuilt in one history

ASSUME BytesAreNumbered == Bytes \subseteq Nat \ {0} /\ Bootable \subseteq Bytes
ASSUME SomeTarget == Targets # {}
ASSUME UploadBounds == MaxRuns \in Nat /\ MaxRebuilds \in Nat

NoEntry == [hash |-> 0, version |-> 0]
Entries == [hash : Bytes, version : Nat] \cup {NoEntry}
EmptyCache == [t \in Targets |-> NoEntry]

\* A command line between two runs.
Resting == [at |-> "rest", target |-> CHOOSE t \in Targets : TRUE, caching |-> FALSE,
            probing |-> FALSE, hash |-> 0, sent |-> 0, version |-> 0, fromCache |-> FALSE,
            lost |-> FALSE, held |-> EmptyCache, overlaid |-> FALSE]

VARIABLES
    bytes,      \* what each place file holds
    cacheFile,  \* upload-cache.json: its entries, or torn
    server,     \* the bytes of each version Open Cloud accepted
    cli,        \* per slot: the run, its place in it and what it holds
    runs, rebuilds,
    proven,     \* bookkeeping: versions a probe has booted
    swapped     \* bookkeeping: versions whose file was rebuilt between hash and upload

uploadVars == <<bytes, cacheFile, server, cli, runs, rebuilds, proven, swapped>>
cloudVars == <<server, proven, swapped>>

UploadInit ==
    /\ bytes \in [Targets -> Bytes]
    /\ cacheFile = [torn |-> FALSE, entries |-> EmptyCache]
    /\ server = <<>>
    /\ cli = [c \in Clis |-> Resting]
    /\ runs = 0 /\ rebuilds = 0
    /\ proven = {} /\ swapped = {}

\* readCacheFile: anything that does not parse is an empty cache.
Cached == IF cacheFile.torn THEN EmptyCache ELSE cacheFile.entries

Becomes(c, run) == cli' = [cli EXCEPT ![c] = run]
Goes(c, to) == Becomes(c, [cli[c] EXCEPT !.at = to])

\* A run begins, with the cache on or off and with a probe or without.
StartRun(c) ==
    /\ cli[c].at = "rest" /\ runs < MaxRuns
    /\ runs' = runs + 1
    /\ \E t \in Targets : \E caching \in BOOLEAN : \E probing \in BOOLEAN :
         Becomes(c, [Resting EXCEPT !.at = IF caching THEN "hash" ELSE "send",
                                    !.target = t, !.caching = caching, !.probing = probing])
    /\ UNCHANGED <<bytes, cacheFile, cloudVars, rebuilds>>

-----------------------------------------------------------------------------
(* uploadOrReuseAsync                                                      *)

HashPlace(c) ==
    /\ cli[c].at = "hash"
    /\ Becomes(c, [cli[c] EXCEPT !.at = "lookup", !.hash = bytes[cli[c].target]])
    /\ UNCHANGED <<bytes, cacheFile, cloudVars, runs, rebuilds>>

\* Mutant: an entry serves whatever the place file holds by now.
Hit_AnyHash(entry, hash) == entry # NoEntry

\* readCachedVersion.
Hit(entry, hash) == entry # NoEntry /\ entry.hash = hash

\* A hit needs neither upload nor probe.
LookUp(c) ==
    /\ cli[c].at = "lookup"
    /\ LET entry == Cached[cli[c].target] IN
       IF Hit(entry, cli[c].hash)
       THEN Becomes(c, [cli[c] EXCEPT !.at = "tests", !.version = entry.version,
                                      !.fromCache = TRUE])
       ELSE Goes(c, "send")
    /\ UNCHANGED <<bytes, cacheFile, cloudVars, runs, rebuilds>>

\* The upload reads the file anew.
ReadPlace(c) ==
    /\ cli[c].at = "send"
    /\ Becomes(c, [cli[c] EXCEPT !.at = "upload", !.sent = bytes[cli[c].target]])
    /\ UNCHANGED <<bytes, cacheFile, cloudVars, runs, rebuilds>>

Upload(c) ==
    /\ cli[c].at = "upload"
    /\ server' = Append(server, cli[c].sent)
    /\ swapped' = IF cli[c].caching /\ cli[c].sent # cli[c].hash
                  THEN swapped \cup {Len(server')} ELSE swapped
    /\ Becomes(c, [cli[c] EXCEPT !.at = IF cli[c].probing THEN "probe" ELSE "tests",
                                 !.version = Len(server')])
    /\ UNCHANGED <<bytes, cacheFile, runs, rebuilds, proven>>

-----------------------------------------------------------------------------
(* verifyBootAsync                                                         *)

\* The probe reports the version it was pinned to.
ProbeBoots(c) ==
    /\ cli[c].at = "probe" /\ server[cli[c].version] \in Bootable
    /\ proven' = proven \cup {cli[c].version}
    /\ Goes(c, IF cli[c].caching THEN "record" ELSE "tests")
    /\ UNCHANGED <<bytes, cacheFile, server, runs, rebuilds, swapped>>

\* A probe is lost: it gets one more.
ProbeLost(c) ==
    /\ cli[c].at = "probe" /\ ~cli[c].lost
    /\ Becomes(c, [cli[c] EXCEPT !.lost = TRUE])
    /\ UNCHANGED <<bytes, cacheFile, cloudVars, runs, rebuilds>>

\* The run ends here: an upload refused, or one whose answer was lost after the
\* version was made; a second probe lost, another version booted or an error;
\* a process killed, in the middle of a write too.
RunBreaksOff(c) ==
    /\ cli[c].at # "rest"
    /\ Becomes(c, Resting)
    /\ \/ UNCHANGED <<server, swapped>>
       \/ /\ cli[c].at = "upload"
          /\ server' = Append(server, cli[c].sent)
          /\ UNCHANGED swapped
    /\ UNCHANGED <<bytes, cacheFile, runs, rebuilds, proven>>

-----------------------------------------------------------------------------
(* The cache file: read, changed, written back                             *)

\* writeCachedVersion and invalidateCachedVersion up to the write.
ReadForRecord(c) ==
    /\ cli[c].at = "record"
    /\ LET run == cli[c] IN
       Becomes(c, [run EXCEPT
         !.at = "open",
         !.held = [Cached EXCEPT ![run.target] = [hash |-> run.hash, version |-> run.version]]])
    /\ UNCHANGED <<bytes, cacheFile, cloudVars, runs, rebuilds>>

\* No entry, nothing to write.
ReadForDrop(c) ==
    /\ cli[c].at = "drop"
    /\ LET run == cli[c] IN
       IF Cached[run.target] = NoEntry
       THEN Becomes(c, Resting)
       ELSE Becomes(c, [run EXCEPT !.at = "open",
                                   !.held = [Cached EXCEPT ![run.target] = NoEntry]])
    /\ UNCHANGED <<bytes, cacheFile, cloudVars, runs, rebuilds>>

\* After a record come the tests; a drop ends a run that has failed.
Written(run) == IF run.fromCache THEN Resting ELSE [run EXCEPT !.at = "tests", !.held = EmptyCache]

\* writeFileSync empties the file before it fills it; a file that cannot be
\* opened stays as it was.
OpenCacheFile(c) ==
    /\ cli[c].at = "open"
    /\ \/ /\ cacheFile' = [torn |-> TRUE, entries |-> EmptyCache]
          /\ Becomes(c, [cli[c] EXCEPT !.at = "fill", !.overlaid = FALSE])
       \/ Becomes(c, Written(cli[c])) /\ UNCHANGED cacheFile
    /\ UNCHANGED <<bytes, cloudVars, runs, rebuilds>>

\* Of two writers at once the second may leave a tail of the first behind.
FillCacheFile(c) ==
    /\ cli[c].at = "fill"
    /\ \E torn \in {FALSE, cli[c].overlaid} :
         cacheFile' = IF torn THEN [torn |-> TRUE, entries |-> EmptyCache]
                              ELSE [torn |-> FALSE, entries |-> cli[c].held]
    /\ cli' = [d \in Clis |->
                IF d = c THEN Written(cli[c])
                ELSE IF cli[d].at = "fill" THEN [cli[d] EXCEPT !.overlaid = TRUE] ELSE cli[d]]
    /\ UNCHANGED <<bytes, cloudVars, runs, rebuilds>>

-----------------------------------------------------------------------------
(* The tests, and what goes on outside                                     *)

\* Dispatch ends well, or in another failure.
TestsEnd(c) ==
    /\ cli[c].at = "tests"
    /\ Becomes(c, Resting)
    /\ UNCHANGED <<bytes, cacheFile, cloudVars, runs, rebuilds>>

\* executeWithCachedUploadAsync: a 404, by a version that is no longer served or
\* otherwise, makes the entry it came from suspect.
TestsNotFound(c) ==
    /\ cli[c].at = "tests"
    /\ IF cli[c].fromCache THEN Goes(c, "drop") ELSE Becomes(c, Resting)
    /\ UNCHANGED <<bytes, cacheFile, cloudVars, runs, rebuilds>>

Rebuild(t, b) ==
    /\ rebuilds < MaxRebuilds /\ b # bytes[t]
    /\ bytes' = [bytes EXCEPT ![t] = b]
    /\ rebuilds' = rebuilds + 1
    /\ UNCHANGED <<cacheFile, cloudVars, cli, runs>>

UploadNext ==
    \/ \E c \in Clis :
         \/ StartRun(c) \/ HashPlace(c) \/ LookUp(c) \/ ReadPlace(c) \/ Upload(c)
         \/ ProbeBoots(c) \/ ProbeLost(c) \/ RunBreaksOff(c)
         \/ ReadForRecord(c) \/ ReadForDrop(c) \/ OpenCacheFile(c) \/ FillCacheFile(c)
         \/ TestsEnd(c) \/ TestsNotFound(c)
    \/ \E t \in Targets, b \in Bytes : Rebuild(t, b)

UploadSpec == UploadInit /\ [][UploadNext]_uploadVars

-----------------------------------------------------------------------------
(* Properties                                                              *)

UploadRuns ==
    [at : {"rest", "hash", "lookup", "send", "upload", "probe", "record", "drop", "open", "fill",
           "tests"},
     target : Targets, caching : BOOLEAN, probing : BOOLEAN, hash : Bytes \cup {0},
     sent : Bytes \cup {0}, version : Nat, fromCache : BOOLEAN, lost : BOOLEAN,
     held : [Targets -> Entries], overlaid : BOOLEAN]

UploadTypeOK ==
    /\ bytes \in [Targets -> Bytes]
    /\ cacheFile \in [torn : BOOLEAN, entries : [Targets -> Entries]]
    /\ server \in Seq(Bytes)
    /\ proven \cup swapped \subseteq DOMAIN server
    /\ cli \in [Clis -> UploadRuns]
    /\ runs \in 0..MaxRuns /\ rebuilds \in 0..MaxRebuilds

\* Every entry names a version that has booted and that holds the bytes the
\* entry was hashed from, unless the file was rebuilt under the upload; so does
\* whatever a writer has in hand.
EntryHolds(entry) ==
    entry # NoEntry =>
      /\ entry.version \in proven
      /\ server[entry.version] = entry.hash \/ entry.version \in swapped

EntriesHold ==
    /\ \A t \in Targets : EntryHolds(cacheFile.entries[t])
    /\ \A c \in Clis : \A t \in Targets : EntryHolds(cli[c].held[t])

\* Tests are sent to a version that holds what the run found in its place file,
\* with the same excuse, and that has booted unless the run asked for no probe.
TestsAreOnTheirPlace ==
    \A c \in Clis : cli[c].at = "tests" =>
      /\ cli[c].probing \/ cli[c].fromCache => cli[c].version \in proven
      /\ cli[c].caching => \/ server[cli[c].version] = cli[c].hash
                           \/ cli[c].version \in swapped

\* What several command lines make of one cache file: a lost update, a garbled
\* file or an entry that comes back cost an upload, never the wrong place
\* (upload-cache.ts: "costs speed, never correctness").
UploadsAreSound == UploadTypeOK /\ EntriesHold /\ TestsAreOnTheirPlace
=============================================================================
