-------------------------- MODULE KeptFiles_proofs --------------------------
(***************************************************************************)
(* The files that several command lines share, or leave to one another,   *)
(* for any number of command lines, files, contents and kills.             *)
(***************************************************************************)
EXTENDS AtomicWrite, UploadCache, PlaceReuse, StudioLaunch, CoverageCache, TLAPS

(***************************************************************************)
(* AtomicWrite: what many processes publish to one file is always whole.   *)
(*                                                                         *)
(* A sweep deletes by name and only after a while, so that the pid it      *)
(* found without an owner may have one again.  What saves the write under  *)
(* way is the nonce: a name the sweep has judged was drawn before, and the *)
(* name of a write that was under way even then has an owner.              *)
(***************************************************************************)

\* Every name in sight carries a nonce that was drawn.
Ages ==
    /\ \A n \in temps : n.nonce <= drawn
    /\ \A w \in Writers : \A n \in listed[w] : n.nonce <= drawn
    /\ \A w \in Writers : judged[w].nonce <= drawn /\ name[w].nonce <= drawn

\* A running process has its pid, and puts it into the name it writes.
Owned ==
    \A w \in Writers :
      /\ step[w] # "gone" => pid[w] \in Pids
      /\ Writing(w) => name[w] \in Names /\ name[w].pid = pid[w]
      /\ step[w] = "removing" => judged[w] \in Names

\* No sweep has judged the name of a write under way.
Apart ==
    \A v, w \in Writers : step[v] = "removing" /\ Writing(w) => judged[v] # name[w]

DirectoryInv == WritesAreWhole /\ Ages /\ Owned /\ Apart

\* Nothing lies in the directory and nobody writes.
LEMMA DirectoryInit == WriteInit => DirectoryInv
  BY WriteBounds
  DEF WriteInit, DirectoryInv, WritesAreWhole, WriteTypeOK, Writing, Ages, Owned, Apart, Names,
      NoName

\* A new process writes nothing yet.
LEMMA StartsKeeps ==
  ASSUME DirectoryInv, NEW w \in Writers, Starts(w)
  PROVE  DirectoryInv'
  <1>1. step[w] = "gone" /\ step' = [step EXCEPT ![w] = "idle"]
        /\ UNCHANGED <<published, temps, filled, drawn, kills, name, listed, judged>>
    BY DEF Starts, directoryVars
  <1>2. PICK p \in Pids : pid' = [pid EXCEPT ![w] = p]
    BY DEF Starts
  <1>3. WriteTypeOK'
    BY <1>1, <1>2 DEF DirectoryInv, WritesAreWhole, WriteTypeOK
  <1>4. \A v \in Writers : /\ Writing(v)' <=> Writing(v)
                           /\ Writing(v) => v # w
                           /\ step'[v] = "renaming" <=> step[v] = "renaming"
                           /\ step'[v] = "removing" <=> step[v] = "removing"
    BY <1>1 DEF DirectoryInv, WritesAreWhole, WriteTypeOK, Writing
  <1>5. WritesAreWhole'
    BY <1>1, <1>3, <1>4 DEF DirectoryInv, WritesAreWhole
  <1>6. Ages'
    BY <1>1 DEF DirectoryInv, Ages
  <1>7. Owned'
    BY <1>1, <1>2, <1>4 DEF DirectoryInv, Owned, WritesAreWhole, WriteTypeOK
  <1>8. Apart'
    BY <1>1, <1>4 DEF DirectoryInv, Apart
  <1> QED BY <1>5, <1>6, <1>7, <1>8 DEF DirectoryInv

\* A sweep lists names that were drawn.
LEMMA ListsKeeps ==
  ASSUME DirectoryInv, NEW w \in Writers, Lists(w)
  PROVE  DirectoryInv'
  <1>1. step[w] = "idle" /\ step' = [step EXCEPT ![w] = "sweeping"]
        /\ UNCHANGED <<published, temps, filled, drawn, kills, pid, name, judged>>
    BY DEF Lists, directoryVars
  <1>2. PICK found \in {temps, {}} : listed' = [listed EXCEPT ![w] = found]
    BY DEF Lists
  <1>3. WriteTypeOK'
    BY <1>1, <1>2 DEF DirectoryInv, WritesAreWhole, WriteTypeOK
  <1>4. \A v \in Writers : /\ Writing(v)' <=> Writing(v)
                           /\ step'[v] = "renaming" <=> step[v] = "renaming"
                           /\ step'[v] = "removing" <=> step[v] = "removing"
                           /\ step'[v] # "gone" <=> step[v] # "gone"
    BY <1>1 DEF DirectoryInv, WritesAreWhole, WriteTypeOK, Writing
  <1>5. WritesAreWhole'
    BY <1>1, <1>3, <1>4 DEF DirectoryInv, WritesAreWhole
  <1>6. Ages'
    BY <1>1, <1>2 DEF DirectoryInv, Ages, WritesAreWhole, WriteTypeOK
  <1>7. Owned'
    BY <1>1, <1>4 DEF DirectoryInv, Owned
  <1>8. Apart'
    BY <1>1, <1>4 DEF DirectoryInv, Apart
  <1> QED BY <1>5, <1>6, <1>7, <1>8 DEF DirectoryInv

\* A name is judged abandoned only without an owner, and a write under way has one.
LEMMA JudgesKeeps ==
  ASSUME DirectoryInv, NEW w \in Writers, NEW n \in listed[w], Judges(w, n)
  PROVE  DirectoryInv'
  <1>1. step[w] = "sweeping" /\ listed' = [listed EXCEPT ![w] = @ \ {n}]
        /\ UNCHANGED <<published, temps, filled, drawn, kills, pid, name>>
    BY DEF Judges, directoryVars
  <1>2. n \in Names /\ n.nonce <= drawn
    BY DEF DirectoryInv, Ages, WritesAreWhole, WriteTypeOK
  <1>3. CASE n.pid \in Owners
    <2>1. UNCHANGED <<step, judged>>
      BY <1>3 DEF Judges
    <2>2. WriteTypeOK'
      BY <1>1, <2>1 DEF DirectoryInv, WritesAreWhole, WriteTypeOK
    <2>3. WritesAreWhole'
      BY <1>1, <2>1, <2>2 DEF DirectoryInv, WritesAreWhole, Writing
    <2>4. Ages'
      BY <1>1, <2>1 DEF DirectoryInv, Ages, WritesAreWhole, WriteTypeOK
    <2>5. Owned' /\ Apart'
      BY <1>1, <2>1 DEF DirectoryInv, Owned, Apart, Writing
    <2> QED BY <2>3, <2>4, <2>5 DEF DirectoryInv
  <1>4. CASE n.pid \notin Owners
    <2>1. step' = [step EXCEPT ![w] = "removing"] /\ judged' = [judged EXCEPT ![w] = n]
      BY <1>4 DEF Judges
    <2>2. WriteTypeOK'
      BY <1>1, <1>2, <2>1 DEF DirectoryInv, WritesAreWhole, WriteTypeOK
    <2>3. \A v \in Writers : /\ Writing(v)' <=> Writing(v)
                             /\ step'[v] = "renaming" <=> step[v] = "renaming"
                             /\ step'[v] = "removing" <=> (step[v] = "removing" \/ v = w)
                             /\ step'[v] # "gone" <=> step[v] # "gone"
                             /\ v # w => judged'[v] = judged[v]
      BY <1>1, <2>1 DEF DirectoryInv, WritesAreWhole, WriteTypeOK, Writing
    <2>4. judged'[w] = n
      BY <2>1 DEF DirectoryInv, WritesAreWhole, WriteTypeOK
    <2>5. \A v \in Writers : Writing(v) => name[v] # n
      <3> SUFFICES ASSUME NEW v \in Writers, Writing(v) PROVE name[v] # n
        OBVIOUS
      <3>1. name[v].pid = pid[v] /\ pid[v] \in Owners
        BY DEF DirectoryInv, Owned, Owners, Writing
      <3> QED BY <1>4, <3>1
    <2>6. WritesAreWhole'
      BY <1>1, <2>2, <2>3 DEF DirectoryInv, WritesAreWhole
    <2>7. Ages'
      BY <1>1, <1>2, <2>1, <2>3, <2>4 DEF DirectoryInv, Ages, WritesAreWhole, WriteTypeOK
    <2>8. Owned'
      BY <1>1, <1>2, <2>3, <2>4 DEF DirectoryInv, Owned
    <2>9. Apart'
      BY <1>1, <2>3, <2>4, <2>5 DEF DirectoryInv, Apart
    <2> QED BY <2>6, <2>7, <2>8, <2>9 DEF DirectoryInv
  <1> QED BY <1>3, <1>4

\* What is deleted is nobody's who still writes.
LEMMA RemovesKeeps ==
  ASSUME DirectoryInv, NEW w \in Writers, Removes(w)
  PROVE  DirectoryInv'
  <1>1. /\ step[w] = "removing" /\ step' = [step EXCEPT ![w] = "sweeping"]
        /\ judged' = [judged EXCEPT ![w] = NoName]
        /\ UNCHANGED <<published, drawn, kills, pid, name, listed>>
    BY DEF Removes
  <1>2. /\ temps' \subseteq temps /\ temps \subseteq temps' \cup {judged[w]}
        /\ filled' \subseteq filled /\ filled \subseteq filled' \cup {judged[w]}
        /\ filled' \subseteq temps'
    BY DEF Removes, DirectoryInv, WritesAreWhole, WriteTypeOK
  <1>3. WriteTypeOK'
    BY <1>1, <1>2 DEF DirectoryInv, WritesAreWhole, WriteTypeOK
  <1>4. \A v \in Writers : /\ Writing(v)' <=> Writing(v)
                           /\ Writing(v) => judged[w] # name[v]
                           /\ step'[v] = "renaming" <=> step[v] = "renaming"
                           /\ step'[v] = "removing" => step[v] = "removing" /\ v # w
                           /\ step'[v] # "gone" <=> step[v] # "gone"
                           /\ judged'[v] = IF v = w THEN NoName ELSE judged[v]
    BY <1>1 DEF DirectoryInv, WritesAreWhole, WriteTypeOK, Writing, Apart
  <1>5. WritesAreWhole'
    BY <1>1, <1>2, <1>3, <1>4 DEF DirectoryInv, WritesAreWhole
  <1>6. Ages'
    BY <1>1, <1>2, <1>4 DEF DirectoryInv, Ages, NoName, WritesAreWhole, WriteTypeOK
  <1>7. Owned'
    BY <1>1, <1>4 DEF DirectoryInv, Owned
  <1>8. Apart'
    BY <1>1, <1>4 DEF DirectoryInv, Apart
  <1> QED BY <1>5, <1>6, <1>7, <1>8 DEF DirectoryInv

\* A name just drawn is nobody else's, neither to write nor to delete.
LEMMA CreatesKeeps ==
  ASSUME DirectoryInv, NEW w \in Writers, Creates(w)
  PROVE  DirectoryInv'
  <1> DEFINE n == [pid |-> pid[w], nonce |-> drawn + 1]
  <1>1. /\ step[w] = "sweeping" /\ drawn < MaxWrites /\ drawn' = drawn + 1
        /\ name' = [name EXCEPT ![w] = n] /\ temps' = temps \cup {n} /\ filled' = filled \ {n}
        /\ step' = [step EXCEPT ![w] = "filling"]
        /\ UNCHANGED <<published, kills, pid, listed, judged>>
    BY DEF Creates, Opens
  <1>2. drawn \in Nat /\ n \in Names /\ n.nonce = drawn + 1 /\ n.pid = pid[w]
    BY <1>1, WriteBounds DEF DirectoryInv, WritesAreWhole, WriteTypeOK, Owned, Names
  <1>3. \A v \in Writers : name[v].nonce \in Nat /\ name[v].nonce <= drawn
                           /\ judged[v].nonce \in Nat /\ judged[v].nonce <= drawn
    BY WriteBounds DEF DirectoryInv, Ages, WritesAreWhole, WriteTypeOK, Names, NoName
  <1>4. \A v \in Writers : name[v] # n /\ judged[v] # n
    BY <1>2, <1>3
  <1>5. WriteTypeOK'
    BY <1>1, <1>2, WriteBounds DEF DirectoryInv, WritesAreWhole, WriteTypeOK
  <1>6. \A v \in Writers : /\ Writing(v)' <=> (Writing(v) \/ v = w)
                           /\ step'[v] = "renaming" => step[v] = "renaming" /\ v # w
                           /\ step'[v] = "removing" => step[v] = "removing" /\ v # w
                           /\ step'[v] # "gone" <=> step[v] # "gone"
                           /\ name'[v] = IF v = w THEN n ELSE name[v]
    BY <1>1 DEF DirectoryInv, WritesAreWhole, WriteTypeOK, Writing
  <1> HIDE DEF n
  <1>7. WritesAreWhole'
    <2>1. published'
      BY <1>1 DEF DirectoryInv, WritesAreWhole
    <2>2. ASSUME NEW v \in Writers, Writing(v)'
          PROVE  /\ name'[v] \in temps'
                 /\ step'[v] = "renaming" => name'[v] \in filled'
                 /\ \A u \in Writers : Writing(u)' /\ u # v => name'[u] # name'[v]
      BY <1>1, <1>4, <1>6, <2>2 DEF DirectoryInv, WritesAreWhole, Writing
    <2> QED BY <1>5, <2>1, <2>2 DEF WritesAreWhole
  <1>8. Ages'
    <2>1. \A m \in temps' : m.nonce <= drawn'
      BY <1>1, <1>2 DEF DirectoryInv, Ages, WritesAreWhole, WriteTypeOK, Names
    <2>2. \A v \in Writers : \A m \in listed'[v] : m.nonce <= drawn'
      BY <1>1, <1>2 DEF DirectoryInv, Ages, WritesAreWhole, WriteTypeOK, Names
    <2>3. \A v \in Writers : judged'[v].nonce <= drawn' /\ name'[v].nonce <= drawn'
      BY <1>1, <1>2, <1>3, <1>6
    <2> QED BY <2>1, <2>2, <2>3 DEF Ages
  <1>9. Owned'
    BY <1>1, <1>2, <1>6 DEF DirectoryInv, Owned
  <1>10. Apart'
    BY <1>1, <1>4, <1>6 DEF DirectoryInv, Apart
  <1> QED BY <1>7, <1>8, <1>9, <1>10 DEF DirectoryInv

\* The file of a write is there to be filled.
LEMMA FillsKeeps ==
  ASSUME DirectoryInv, NEW w \in Writers, Fills(w)
  PROVE  DirectoryInv'
  <1>1. step[w] = "filling" /\ UNCHANGED <<published, temps, drawn, kills, pid, name, listed, judged>>
    BY DEF Fills
  <1>2. name[w] \in temps
    BY <1>1 DEF DirectoryInv, WritesAreWhole, Writing
  <1>3. \/ step' = [step EXCEPT ![w] = "renaming"] /\ filled' = filled \cup {name[w]}
        \/ step' = [step EXCEPT ![w] = "idle"] /\ filled' = filled
    BY <1>2 DEF Fills
  <1>4. WriteTypeOK'
    BY <1>1, <1>2, <1>3 DEF DirectoryInv, WritesAreWhole, WriteTypeOK
  <1>5. \A v \in Writers : /\ Writing(v)' => Writing(v)
                           /\ step'[v] = "renaming" => name[v] \in filled'
                           /\ step'[v] = "removing" => step[v] = "removing"
                           /\ step'[v] # "gone" <=> step[v] # "gone"
    BY <1>1, <1>3 DEF DirectoryInv, WritesAreWhole, WriteTypeOK, Writing
  <1>6. WritesAreWhole'
    BY <1>1, <1>4, <1>5 DEF DirectoryInv, WritesAreWhole
  <1>7. Ages'
    BY <1>1 DEF DirectoryInv, Ages
  <1>8. Owned' /\ Apart'
    BY <1>1, <1>5 DEF DirectoryInv, Owned, Apart
  <1> QED BY <1>6, <1>7, <1>8 DEF DirectoryInv

\* A write takes away its own file, and puts a whole one in the target's place.
LEMMA RenamesKeeps ==
  ASSUME DirectoryInv, NEW w \in Writers, Renames(w)
  PROVE  DirectoryInv'
  <1>1. /\ step[w] = "renaming" /\ step' = [step EXCEPT ![w] = "idle"]
        /\ UNCHANGED <<drawn, kills, pid, name, listed, judged>>
    BY DEF Renames
  <1>2. name[w] \in filled /\ published
    BY <1>1 DEF DirectoryInv, WritesAreWhole, Writing
  <1>3. /\ published'
        /\ temps' \subseteq temps /\ temps \subseteq temps' \cup {name[w]}
        /\ filled' \subseteq filled /\ filled \subseteq filled' \cup {name[w]}
        /\ filled' \subseteq temps'
    BY <1>2 DEF Renames, DirectoryInv, WritesAreWhole, WriteTypeOK
  <1>4. published' \in BOOLEAN
    BY <1>2 DEF Renames, DirectoryInv, WritesAreWhole, WriteTypeOK
  <1>5. WriteTypeOK'
    BY <1>1, <1>3, <1>4 DEF DirectoryInv, WritesAreWhole, WriteTypeOK
  <1>6. \A v \in Writers : /\ Writing(v)' => Writing(v) /\ v # w
                           /\ Writing(v)' => name[v] # name[w]
                           /\ step'[v] = "renaming" => step[v] = "renaming"
                           /\ step'[v] = "removing" => step[v] = "removing"
                           /\ step'[v] # "gone" <=> step[v] # "gone"
    BY <1>1 DEF DirectoryInv, WritesAreWhole, WriteTypeOK, Writing
  <1>7. WritesAreWhole'
    BY <1>1, <1>3, <1>5, <1>6 DEF DirectoryInv, WritesAreWhole
  <1>8. Ages'
    BY <1>1, <1>3 DEF DirectoryInv, Ages
  <1>9. Owned' /\ Apart'
    BY <1>1, <1>6 DEF DirectoryInv, Owned, Apart
  <1> QED BY <1>7, <1>8, <1>9 DEF DirectoryInv

\* A killed process leaves its file, and what it was about to delete.
LEMMA DiesKeeps ==
  ASSUME DirectoryInv, NEW w \in Writers, Dies(w)
  PROVE  DirectoryInv'
  <1>1. /\ kills < MaxKills /\ kills' = kills + 1 /\ step' = [step EXCEPT ![w] = "gone"]
        /\ listed' = [listed EXCEPT ![w] = {}] /\ judged' = [judged EXCEPT ![w] = NoName]
        /\ UNCHANGED <<published, temps, filled, drawn, pid, name>>
    BY DEF Dies, directoryVars
  <1>2. WriteTypeOK'
    BY <1>1, WriteBounds DEF DirectoryInv, WritesAreWhole, WriteTypeOK
  <1>3. \A v \in Writers : /\ Writing(v)' => Writing(v)
                           /\ step'[v] = "renaming" => step[v] = "renaming"
                           /\ step'[v] = "removing" => step[v] = "removing" /\ v # w
                           /\ step'[v] # "gone" => step[v] # "gone"
                           /\ judged'[v] = IF v = w THEN NoName ELSE judged[v]
                           /\ listed'[v] = IF v = w THEN {} ELSE listed[v]
    BY <1>1 DEF DirectoryInv, WritesAreWhole, WriteTypeOK, Writing
  <1>4. WritesAreWhole'
    BY <1>1, <1>2, <1>3 DEF DirectoryInv, WritesAreWhole
  <1>5. Ages'
    BY <1>1, <1>3 DEF DirectoryInv, Ages, NoName, WritesAreWhole, WriteTypeOK
  <1>6. Owned' /\ Apart'
    BY <1>1, <1>3 DEF DirectoryInv, Owned, Apart
  <1> QED BY <1>4, <1>5, <1>6 DEF DirectoryInv

\* No step of any process disturbs the directory.
LEMMA DirectoryNext == DirectoryInv /\ [WriteNext]_writeVars => DirectoryInv'
  <1> SUFFICES ASSUME DirectoryInv, [WriteNext]_writeVars PROVE DirectoryInv'
    OBVIOUS
  <1>1. CASE UNCHANGED writeVars
    BY <1>1 DEF writeVars, directoryVars, DirectoryInv, WritesAreWhole, WriteTypeOK, Writing,
                Ages, Owned, Apart
  <1>2. ASSUME NEW w \in Writers, Starts(w) PROVE DirectoryInv'
    BY <1>2, StartsKeeps
  <1>3. ASSUME NEW w \in Writers, Lists(w) PROVE DirectoryInv'
    BY <1>3, ListsKeeps
  <1>4. ASSUME NEW w \in Writers, NEW n \in listed[w], Judges(w, n) PROVE DirectoryInv'
    BY <1>4, JudgesKeeps
  <1>5. ASSUME NEW w \in Writers, Removes(w) PROVE DirectoryInv'
    BY <1>5, RemovesKeeps
  <1>6. ASSUME NEW w \in Writers, Creates(w) PROVE DirectoryInv'
    BY <1>6, CreatesKeeps
  <1>7. ASSUME NEW w \in Writers, Fills(w) PROVE DirectoryInv'
    BY <1>7, FillsKeeps
  <1>8. ASSUME NEW w \in Writers, Renames(w) PROVE DirectoryInv'
    BY <1>8, RenamesKeeps
  <1>9. ASSUME NEW w \in Writers, Dies(w) PROVE DirectoryInv'
    BY <1>9, DiesKeeps
  <1> QED
    BY <1>1, <1>2, <1>3, <1>4, <1>5, <1>6, <1>7, <1>8, <1>9 DEF WriteNext

\* Whatever is killed, and however pids are given out again: what a write has
\* under way is never swept, and what it renames over the target is whole.
THEOREM TargetStaysWhole == WriteSpec => []WritesAreWhole
  <1>1. DirectoryInv => WritesAreWhole
    BY DEF DirectoryInv
  <1> QED BY DirectoryInit, DirectoryNext, <1>1, PTL DEF WriteSpec

(***************************************************************************)
(* UploadCache: what is recorded, or about to be, names a version that has *)
(* booted and holds what was hashed, unless the file changed under the     *)
(* upload.  Nothing else is ever written, so that whoever overwrites or    *)
(* loses an entry, the ones that are left are as good.                     *)
(***************************************************************************)

\* A version that holds what the run hashed, or was swapped under it.
HoldsHash(run) ==
    run.caching => server[run.version] = run.hash \/ run.version \in swapped

\* What a run has found out by the time it is where it is.
Informed(run) ==
    /\ run.at \in {"hash", "lookup", "record"} => run.caching
    /\ run.caching /\ run.at \notin {"rest", "hash"} => run.hash \in Bytes
    /\ run.at = "upload" => run.sent \in Bytes
    /\ run.at \in {"hash", "lookup", "send", "upload", "probe"} => ~run.fromCache
    /\ run.at \in {"probe", "record", "open", "fill", "tests", "drop"} =>
         run.version \in DOMAIN server /\ HoldsHash(run)
    /\ run.at \in {"record", "open", "fill", "drop"} => run.version \in proven
    /\ run.at = "tests" /\ (run.probing \/ run.fromCache) => run.version \in proven

\* What it is about to write.
InHandHolds(run) == \A t \in Targets : EntryHolds(run.held[t])

FileHolds == \A t \in Targets : EntryHolds(cacheFile.entries[t])

UploadInv ==
    /\ UploadTypeOK
    /\ FileHolds
    /\ \A c \in Clis : Informed(cli[c]) /\ InHandHolds(cli[c])

\* Versions keep their bytes, and what has booted has booted.
CloudGrows ==
    /\ \A v \in DOMAIN server : v \in DOMAIN server' /\ server'[v] = server[v]
    /\ proven \subseteq proven' /\ swapped \subseteq swapped'

LEMMA UploadTypes ==
  ASSUME UploadTypeOK
  PROVE  /\ DOMAIN server \subseteq Nat /\ 0 \notin DOMAIN server
         /\ NoEntry \in Entries /\ EmptyCache \in [Targets -> Entries]
  BY DEF UploadTypeOK, NoEntry, Entries, EmptyCache

\* A resting run knows nothing and holds nothing.
LEMMA RestIsSound ==
  Resting \in UploadRuns /\ Informed(Resting) /\ InHandHolds(Resting)
  <1>1. (CHOOSE t \in Targets : TRUE) \in Targets
    BY SomeTarget
  <1>2. EmptyCache \in [Targets -> Entries]
    BY DEF NoEntry, Entries, EmptyCache
  <1>3. Resting \in UploadRuns
    BY <1>1, <1>2 DEF Resting, UploadRuns
  <1>4. Informed(Resting) /\ InHandHolds(Resting)
    BY DEF Resting, Informed, InHandHolds, HoldsHash, EmptyCache, EntryHolds
  <1> QED BY <1>3, <1>4

\* An entry that holds goes on holding.
LEMMA EntryStaysTrue ==
  ASSUME UploadTypeOK, CloudGrows, NEW entry, EntryHolds(entry)
  PROVE  EntryHolds(entry)'
  BY DEF UploadTypeOK, CloudGrows, EntryHolds

\* What a run knows and has in hand is not taken from it.
LEMMA RunStaysSound ==
  ASSUME UploadTypeOK, CloudGrows, NEW run, Informed(run), InHandHolds(run)
  PROVE  Informed(run)' /\ InHandHolds(run)'
  <1>1. Informed(run)'
    BY DEF UploadTypeOK, CloudGrows, Informed, HoldsHash
  <1>2. InHandHolds(run)'
    BY EntryStaysTrue DEF InHandHolds
  <1> QED BY <1>1, <1>2

\* A step of one run that leaves cloud and cache file alone need only be sound for it.
LEMMA OneRunSteps ==
  ASSUME UploadInv, NEW c \in Clis, NEW run \in UploadRuns, Becomes(c, run),
         Informed(run), InHandHolds(run),
         UNCHANGED <<bytes, cacheFile, cloudVars>>, runs' \in 0..MaxRuns, rebuilds' = rebuilds
  PROVE  UploadInv'
  <1>1. UploadTypeOK'
    BY DEF UploadInv, UploadTypeOK, Becomes, cloudVars
  <1>2. CloudGrows
    BY DEF CloudGrows, cloudVars
  <1>3. FileHolds'
    BY DEF UploadInv, FileHolds, EntryHolds, cloudVars
  <1>4. \A d \in Clis : cli'[d] = IF d = c THEN run ELSE cli[d]
    BY DEF UploadInv, UploadTypeOK, Becomes
  <1>5. ASSUME NEW d \in Clis PROVE Informed(cli[d])' /\ InHandHolds(cli[d])'
    BY <1>4 DEF UploadInv, Informed, InHandHolds, HoldsHash, EntryHolds, cloudVars
  <1> QED BY <1>1, <1>3, <1>5 DEF UploadInv

\* Nothing is recorded at first.
LEMMA UploadStarts == UploadInit => UploadInv
  <1> SUFFICES ASSUME UploadInit PROVE UploadInv
    OBVIOUS
  <1>1. EmptyCache \in [Targets -> Entries]
    BY DEF NoEntry, Entries, EmptyCache
  <1>2. UploadTypeOK
    BY <1>1, RestIsSound, UploadBounds DEF UploadInit, UploadTypeOK
  <1>3. FileHolds
    BY DEF UploadInit, FileHolds, EntryHolds, EmptyCache
  <1> QED BY <1>2, <1>3, RestIsSound DEF UploadInit, UploadInv

\* A run begins with nothing.
LEMMA StartRunKeeps ==
  ASSUME UploadInv, NEW c \in Clis, StartRun(c)
  PROVE  UploadInv'
  <1>1. PICK t \in Targets, caching \in BOOLEAN, probing \in BOOLEAN :
          Becomes(c, [Resting EXCEPT !.at = IF caching THEN "hash" ELSE "send",
                                     !.target = t, !.caching = caching, !.probing = probing])
    BY DEF StartRun
  <1> DEFINE run == [Resting EXCEPT !.at = IF caching THEN "hash" ELSE "send",
                                    !.target = t, !.caching = caching, !.probing = probing]
  <1>2. run \in UploadRuns
    BY RestIsSound DEF UploadRuns
  <1>3. Informed(run) /\ InHandHolds(run)
    BY DEF Resting, Informed, InHandHolds, HoldsHash, EmptyCache, EntryHolds
  <1>4. runs' \in 0..MaxRuns /\ rebuilds' = rebuilds /\ UNCHANGED <<bytes, cacheFile, cloudVars>>
    BY UploadBounds DEF StartRun, UploadInv, UploadTypeOK
  <1> QED BY <1>1, <1>2, <1>3, <1>4, OneRunSteps

\* What is hashed are bytes.
LEMMA HashPlaceKeeps ==
  ASSUME UploadInv, NEW c \in Clis, HashPlace(c)
  PROVE  UploadInv'
  <1> DEFINE run == [cli[c] EXCEPT !.at = "lookup", !.hash = bytes[cli[c].target]]
  <1>1. cli[c] \in UploadRuns /\ bytes[cli[c].target] \in Bytes
    BY DEF UploadInv, UploadTypeOK, UploadRuns
  <1>2. run \in UploadRuns
    BY <1>1 DEF UploadRuns
  <1>3. Informed(run) /\ InHandHolds(run)
    BY <1>1 DEF HashPlace, UploadInv, UploadRuns, Informed, InHandHolds, HoldsHash
  <1> QED BY <1>2, <1>3, OneRunSteps DEF HashPlace, UploadInv, UploadTypeOK

\* A hit is an entry that holds, for the bytes that were hashed.
LEMMA LookUpKeeps ==
  ASSUME UploadInv, NEW c \in Clis, LookUp(c)
  PROVE  UploadInv'
  <1> DEFINE entry == Cached[cli[c].target]
  <1>1. cli[c] \in UploadRuns /\ cli[c].target \in Targets /\ cli[c].at = "lookup"
    BY DEF UploadInv, UploadTypeOK, UploadRuns, LookUp
  <1>2. entry \in Entries /\ EntryHolds(entry)
    BY <1>1, UploadTypes DEF UploadInv, FileHolds, UploadTypeOK, Cached, EmptyCache, EntryHolds
  <1>3. Informed(cli[c]) /\ InHandHolds(cli[c])
    BY DEF UploadInv
  <1> HIDE DEF entry
  <1>4. CASE Hit(entry, cli[c].hash)
    <2> DEFINE run == [cli[c] EXCEPT !.at = "tests", !.version = entry.version, !.fromCache = TRUE]
    <2>1. entry # NoEntry /\ entry.hash = cli[c].hash /\ entry.version \in Nat
      BY <1>2, <1>4 DEF Hit, Entries, NoEntry
    <2>2. entry.version \in proven /\ entry.version \in DOMAIN server
          /\ (server[entry.version] = cli[c].hash \/ entry.version \in swapped)
      BY <1>2, <2>1 DEF EntryHolds, UploadInv, UploadTypeOK
    <2>3. run \in UploadRuns
      BY <1>1, <2>1 DEF UploadRuns
    <2>4. Informed(run) /\ InHandHolds(run)
      BY <1>1, <1>3, <2>2 DEF UploadRuns, Informed, InHandHolds, HoldsHash
    <2>5. Becomes(c, run)
      BY <1>4 DEF LookUp, entry
    <2> QED BY <2>3, <2>4, <2>5, OneRunSteps DEF LookUp, UploadInv, UploadTypeOK
  <1>5. CASE ~Hit(entry, cli[c].hash)
    <2> DEFINE run == [cli[c] EXCEPT !.at = "send"]
    <2>1. run \in UploadRuns
      BY <1>1 DEF UploadRuns
    <2>2. Informed(run) /\ InHandHolds(run)
      BY <1>1, <1>3 DEF UploadRuns, Informed, InHandHolds, HoldsHash
    <2>3. Becomes(c, run)
      BY <1>5 DEF LookUp, Goes, entry
    <2> QED BY <2>1, <2>2, <2>3, OneRunSteps DEF LookUp, UploadInv, UploadTypeOK
  <1> QED BY <1>4, <1>5

\* The bytes that are sent are read once more.
LEMMA ReadPlaceKeeps ==
  ASSUME UploadInv, NEW c \in Clis, ReadPlace(c)
  PROVE  UploadInv'
  <1> DEFINE run == [cli[c] EXCEPT !.at = "upload", !.sent = bytes[cli[c].target]]
  <1>1. cli[c] \in UploadRuns /\ bytes[cli[c].target] \in Bytes
    BY DEF UploadInv, UploadTypeOK, UploadRuns
  <1>2. run \in UploadRuns
    BY <1>1 DEF UploadRuns
  <1>3. Informed(run) /\ InHandHolds(run)
    BY <1>1 DEF ReadPlace, UploadInv, UploadRuns, Informed, InHandHolds, HoldsHash
  <1> QED BY <1>2, <1>3, OneRunSteps DEF ReadPlace, UploadInv, UploadTypeOK

\* A new version holds what was sent; if that is not what was hashed, it is swapped.
LEMMA UploadKeeps ==
  ASSUME UploadInv, NEW c \in Clis, Upload(c)
  PROVE  UploadInv'
  <1> DEFINE v == Len(server) + 1
             run == [cli[c] EXCEPT !.at = IF cli[c].probing THEN "probe" ELSE "tests",
                                   !.version = v]
  <1>1. cli[c] \in UploadRuns /\ cli[c].at = "upload" /\ cli[c].sent \in Bytes
        /\ Informed(cli[c]) /\ InHandHolds(cli[c])
    BY DEF UploadInv, UploadTypeOK, Upload, Informed
  <1>2. server \in Seq(Bytes) /\ server' = Append(server, cli[c].sent) /\ Len(server') = v
    BY <1>1 DEF UploadInv, UploadTypeOK, Upload
  <1>3. /\ server' \in Seq(Bytes) /\ DOMAIN server' = DOMAIN server \cup {v}
        /\ \A u \in DOMAIN server : server'[u] = server[u]
        /\ server'[v] = cli[c].sent /\ v \in Nat
    BY <1>1, <1>2
  <1>4. /\ swapped' = IF cli[c].caching /\ cli[c].sent # cli[c].hash THEN swapped \cup {v}
                      ELSE swapped
        /\ Becomes(c, run) /\ UNCHANGED <<bytes, cacheFile, runs, rebuilds, proven>>
    BY <1>2 DEF Upload
  <1> HIDE DEF v
  <1>5. run \in UploadRuns
    BY <1>1, <1>3 DEF UploadRuns
  <1>6. \A d \in Clis : cli'[d] = IF d = c THEN run ELSE cli[d]
    BY <1>4 DEF UploadInv, UploadTypeOK, Becomes
  <1>7. UploadTypeOK'
    BY <1>3, <1>4, <1>5 DEF UploadInv, UploadTypeOK, Becomes
  <1>8. CloudGrows
    BY <1>3, <1>4 DEF CloudGrows
  <1>9. FileHolds'
    BY <1>4, <1>8, EntryStaysTrue DEF UploadInv, FileHolds
  <1>10. Informed(cli[c])'
    <2>1. /\ cli'[c].at \in {"probe", "tests"} /\ cli'[c].version = v
          /\ cli'[c].at = "tests" => ~cli[c].probing
          /\ cli'[c].caching = cli[c].caching /\ cli'[c].hash = cli[c].hash
          /\ cli'[c].probing = cli[c].probing /\ cli'[c].fromCache = cli[c].fromCache
      BY <1>1, <1>6 DEF UploadRuns
    <2>2. cli[c].caching => server'[v] = cli[c].hash \/ v \in swapped'
      BY <1>3, <1>4
    <2>3. HoldsHash(cli[c])'
      BY <2>1, <2>2 DEF HoldsHash
    <2>4. ~cli[c].fromCache /\ (cli[c].caching => cli[c].hash \in Bytes)
      BY <1>1 DEF Informed
    <2> QED BY <1>3, <2>1, <2>3, <2>4 DEF Informed
  <1>11. InHandHolds(cli[c])'
    BY <1>1, <1>6, <1>8, EntryStaysTrue DEF InHandHolds, UploadInv, UploadRuns
  <1>12. ASSUME NEW d \in Clis, d # c PROVE Informed(cli[d])' /\ InHandHolds(cli[d])'
    BY <1>6, <1>8, <1>12, RunStaysSound DEF UploadInv
  <1> QED BY <1>7, <1>9, <1>10, <1>11, <1>12 DEF UploadInv

\* A probe that reports its version proves it.
LEMMA ProbeBootsKeeps ==
  ASSUME UploadInv, NEW c \in Clis, ProbeBoots(c)
  PROVE  UploadInv'
  <1> DEFINE run == [cli[c] EXCEPT !.at = IF cli[c].caching THEN "record" ELSE "tests"]
  <1>1. cli[c] \in UploadRuns /\ cli[c].at = "probe" /\ Informed(cli[c]) /\ InHandHolds(cli[c])
    BY DEF UploadInv, UploadTypeOK, ProbeBoots
  <1>2. /\ proven' = proven \cup {cli[c].version} /\ Becomes(c, run)
        /\ UNCHANGED <<bytes, cacheFile, server, runs, rebuilds, swapped>>
    BY DEF ProbeBoots, Goes
  <1>3. run \in UploadRuns /\ cli[c].version \in DOMAIN server
    BY <1>1 DEF UploadRuns, Informed
  <1>4. \A d \in Clis : cli'[d] = IF d = c THEN run ELSE cli[d]
    BY <1>2 DEF UploadInv, UploadTypeOK, Becomes
  <1>5. UploadTypeOK'
    BY <1>2, <1>3 DEF UploadInv, UploadTypeOK, Becomes
  <1>6. CloudGrows
    BY <1>2 DEF CloudGrows
  <1>7. FileHolds'
    BY <1>2, <1>6, EntryStaysTrue DEF UploadInv, FileHolds
  <1>8. Informed(cli[c])'
    BY <1>1, <1>2, <1>4 DEF Informed, HoldsHash, UploadRuns
  <1>9. InHandHolds(cli[c])'
    BY <1>1, <1>4, <1>6, EntryStaysTrue DEF InHandHolds, UploadInv, UploadRuns
  <1>10. ASSUME NEW d \in Clis, d # c PROVE Informed(cli[d])' /\ InHandHolds(cli[d])'
    BY <1>4, <1>6, <1>10, RunStaysSound DEF UploadInv
  <1> QED BY <1>5, <1>7, <1>8, <1>9, <1>10 DEF UploadInv

\* A lost probe changes nothing that is known.
LEMMA ProbeLostKeeps ==
  ASSUME UploadInv, NEW c \in Clis, ProbeLost(c)
  PROVE  UploadInv'
  <1> DEFINE run == [cli[c] EXCEPT !.lost = TRUE]
  <1>1. cli[c] \in UploadRuns
    BY DEF UploadInv, UploadTypeOK
  <1>2. run \in UploadRuns
    BY <1>1 DEF UploadRuns
  <1>3. Informed(run) /\ InHandHolds(run)
    BY <1>1 DEF UploadInv, UploadRuns, Informed, InHandHolds, HoldsHash
  <1> QED BY <1>2, <1>3, OneRunSteps DEF ProbeLost, UploadInv, UploadTypeOK

\* A run that breaks off leaves at most a version behind.
LEMMA RunBreaksOffKeeps ==
  ASSUME UploadInv, NEW c \in Clis, RunBreaksOff(c)
  PROVE  UploadInv'
  <1>1. Becomes(c, Resting) /\ UNCHANGED <<bytes, cacheFile, runs, rebuilds, proven, swapped>>
    BY DEF RunBreaksOff
  <1>2. server' = server \/ (cli[c].sent \in Bytes /\ server' = Append(server, cli[c].sent))
    BY DEF RunBreaksOff, UploadInv, Informed
  <1>3. server \in Seq(Bytes)
    BY DEF UploadInv, UploadTypeOK
  <1>4. /\ server' \in Seq(Bytes) /\ DOMAIN server \subseteq DOMAIN server'
        /\ \A u \in DOMAIN server : server'[u] = server[u]
    BY <1>2, <1>3
  <1>5. \A d \in Clis : cli'[d] = IF d = c THEN Resting ELSE cli[d]
    BY <1>1 DEF UploadInv, UploadTypeOK, Becomes
  <1>6. UploadTypeOK'
    BY <1>1, <1>4, RestIsSound DEF UploadInv, UploadTypeOK, Becomes
  <1>7. CloudGrows
    BY <1>1, <1>4 DEF CloudGrows
  <1>8. FileHolds'
    BY <1>1, <1>7, EntryStaysTrue DEF UploadInv, FileHolds
  <1>9. ASSUME NEW d \in Clis PROVE Informed(cli[d])' /\ InHandHolds(cli[d])'
    <2>1. CASE d = c
      BY <1>5, <1>7, <2>1, RestIsSound, RunStaysSound DEF UploadInv
    <2>2. CASE d # c
      BY <1>5, <1>7, <2>2, RunStaysSound DEF UploadInv
    <2> QED BY <2>1, <2>2
  <1> QED BY <1>6, <1>8, <1>9 DEF UploadInv

\* What the file holds, as a reader sees it.
LEMMA CachedHolds ==
  ASSUME UploadInv
  PROVE  Cached \in [Targets -> Entries] /\ \A t \in Targets : EntryHolds(Cached[t])
  BY UploadTypes DEF UploadInv, UploadTypeOK, FileHolds, Cached, EmptyCache, EntryHolds

\* The entry a run adds is the one it has proved.
LEMMA ReadForRecordKeeps ==
  ASSUME UploadInv, NEW c \in Clis, ReadForRecord(c)
  PROVE  UploadInv'
  <1> DEFINE entry == [hash |-> cli[c].hash, version |-> cli[c].version]
             after == [Cached EXCEPT ![cli[c].target] = entry]
             run == [cli[c] EXCEPT !.at = "open", !.held = after]
  <1>1. cli[c] \in UploadRuns /\ cli[c].at = "record" /\ Informed(cli[c])
    BY DEF UploadInv, UploadTypeOK, ReadForRecord
  <1>2. entry \in Entries /\ EntryHolds(entry)
    BY <1>1 DEF Informed, HoldsHash, UploadRuns, Entries, EntryHolds
  <1> HIDE DEF entry
  <1>3. after \in [Targets -> Entries] /\ \A t \in Targets : EntryHolds(after[t])
    BY <1>1, <1>2, CachedHolds
  <1>4. Becomes(c, run)
    BY DEF ReadForRecord, entry
  <1> HIDE DEF after
  <1>5. run \in UploadRuns
    BY <1>1, <1>3 DEF UploadRuns
  <1>6. Informed(run) /\ InHandHolds(run)
    BY <1>1, <1>3 DEF UploadRuns, Informed, InHandHolds, HoldsHash
  <1> QED BY <1>4, <1>5, <1>6, OneRunSteps DEF ReadForRecord, UploadInv, UploadTypeOK

\* To drop an entry leaves the others.
LEMMA ReadForDropKeeps ==
  ASSUME UploadInv, NEW c \in Clis, ReadForDrop(c)
  PROVE  UploadInv'
  <1> DEFINE after == [Cached EXCEPT ![cli[c].target] = NoEntry]
             run == [cli[c] EXCEPT !.at = "open", !.held = after]
  <1>1. cli[c] \in UploadRuns /\ cli[c].at = "drop" /\ Informed(cli[c])
    BY DEF UploadInv, UploadTypeOK, ReadForDrop
  <1>2. NoEntry \in Entries /\ EntryHolds(NoEntry)
    BY DEF Entries, EntryHolds
  <1>3. after \in [Targets -> Entries] /\ \A t \in Targets : EntryHolds(after[t])
    BY <1>1, <1>2, CachedHolds
  <1>4. Becomes(c, run) \/ Becomes(c, Resting)
    BY DEF ReadForDrop
  <1> HIDE DEF after
  <1>5. run \in UploadRuns
    BY <1>1, <1>3 DEF UploadRuns
  <1>6. Informed(run) /\ InHandHolds(run)
    BY <1>1, <1>3 DEF UploadRuns, Informed, InHandHolds, HoldsHash
  <1> QED
    BY <1>4, <1>5, <1>6, RestIsSound, OneRunSteps DEF ReadForDrop, UploadInv, UploadTypeOK

\* After its write a run goes to its tests with what it knew, or is over.
LEMMA WrittenIsSound ==
  ASSUME UploadInv, NEW c \in Clis, cli[c].at \in {"open", "fill"}
  PROVE  Written(cli[c]) \in UploadRuns /\ Informed(Written(cli[c]))
         /\ InHandHolds(Written(cli[c]))
  <1>1. cli[c] \in UploadRuns /\ Informed(cli[c])
    BY DEF UploadInv, UploadTypeOK
  <1>2. CASE cli[c].fromCache
    BY <1>2, RestIsSound DEF Written
  <1>3. CASE ~cli[c].fromCache
    <2> DEFINE run == [cli[c] EXCEPT !.at = "tests", !.held = EmptyCache]
    <2>1. Written(cli[c]) = run
      BY <1>3 DEF Written
    <2>2. run \in UploadRuns
      BY <1>1, UploadTypes DEF UploadInv, UploadRuns
    <2>3. Informed(run) /\ InHandHolds(run)
      BY <1>1 DEF UploadRuns, Informed, InHandHolds, HoldsHash, EmptyCache, EntryHolds
    <2> QED BY <2>1, <2>2, <2>3
  <1> QED BY <1>2, <1>3

\* An emptied file is an empty cache.
LEMMA OpenCacheFileKeeps ==
  ASSUME UploadInv, NEW c \in Clis, OpenCacheFile(c)
  PROVE  UploadInv'
  <1>1. cli[c].at = "open" /\ UNCHANGED <<bytes, cloudVars, runs, rebuilds>>
    BY DEF OpenCacheFile
  <1>2. CASE Becomes(c, Written(cli[c])) /\ UNCHANGED cacheFile
    BY <1>1, <1>2, WrittenIsSound, OneRunSteps DEF UploadInv, UploadTypeOK
  <1>3. CASE /\ cacheFile' = [torn |-> TRUE, entries |-> EmptyCache]
             /\ Becomes(c, [cli[c] EXCEPT !.at = "fill", !.overlaid = FALSE])
    <2> DEFINE run == [cli[c] EXCEPT !.at = "fill", !.overlaid = FALSE]
    <2>1. cli[c] \in UploadRuns /\ Informed(cli[c]) /\ InHandHolds(cli[c])
      BY DEF UploadInv, UploadTypeOK
    <2>2. run \in UploadRuns
      BY <2>1 DEF UploadRuns
    <2>3. Informed(run) /\ InHandHolds(run)
      BY <1>1, <2>1 DEF UploadRuns, Informed, InHandHolds, HoldsHash
    <2>4. UploadTypeOK'
      BY <1>1, <1>3, <2>2, UploadTypes DEF UploadInv, UploadTypeOK, Becomes, cloudVars
    <2>5. FileHolds'
      BY <1>3 DEF FileHolds, EmptyCache, EntryHolds
    <2>6. \A d \in Clis : cli'[d] = IF d = c THEN run ELSE cli[d]
      BY <1>3 DEF UploadInv, UploadTypeOK, Becomes
    <2>7. ASSUME NEW d \in Clis PROVE Informed(cli[d])' /\ InHandHolds(cli[d])'
      BY <1>1, <2>3, <2>6 DEF UploadInv, Informed, InHandHolds, HoldsHash, EntryHolds, cloudVars
    <2> QED BY <2>4, <2>5, <2>7 DEF UploadInv
  <1> QED BY <1>2, <1>3 DEF OpenCacheFile

\* What is written is what was in hand, or garbled.
LEMMA FillCacheFileKeeps ==
  ASSUME UploadInv, NEW c \in Clis, FillCacheFile(c)
  PROVE  UploadInv'
  <1>1. cli[c].at = "fill" /\ UNCHANGED <<bytes, cloudVars, runs, rebuilds>>
    BY DEF FillCacheFile
  <1>2. \/ cacheFile' = [torn |-> TRUE, entries |-> EmptyCache]
        \/ cacheFile' = [torn |-> FALSE, entries |-> cli[c].held]
    BY DEF FillCacheFile
  <1>3. cli' = [d \in Clis |->
                 IF d = c THEN Written(cli[c])
                 ELSE IF cli[d].at = "fill" THEN [cli[d] EXCEPT !.overlaid = TRUE] ELSE cli[d]]
    BY DEF FillCacheFile
  <1>4. cli[c].held \in [Targets -> Entries] /\ InHandHolds(cli[c])
    BY DEF UploadInv, UploadTypeOK, UploadRuns
  <1>5. ASSUME NEW d \in Clis
        PROVE  cli'[d] \in UploadRuns /\ Informed(cli'[d]) /\ InHandHolds(cli'[d])
    <2>1. CASE d = c
      BY <1>1, <1>3, <2>1, WrittenIsSound
    <2>2. CASE d # c /\ cli[d].at = "fill"
      <3> DEFINE run == [cli[d] EXCEPT !.overlaid = TRUE]
      <3>1. cli[d] \in UploadRuns /\ Informed(cli[d]) /\ InHandHolds(cli[d])
        BY DEF UploadInv, UploadTypeOK
      <3>2. run \in UploadRuns /\ Informed(run) /\ InHandHolds(run)
        BY <2>2, <3>1 DEF UploadRuns, Informed, InHandHolds, HoldsHash
      <3> QED BY <1>3, <2>2, <3>2
    <2>3. CASE d # c /\ cli[d].at # "fill"
      BY <1>3, <2>3 DEF UploadInv, UploadTypeOK
    <2> QED BY <2>1, <2>2, <2>3
  <1>6. cli' \in [Clis -> UploadRuns]
    BY <1>3, <1>5
  <1>7. UploadTypeOK'
    <2>1. EmptyCache \in [Targets -> Entries]
      BY UploadTypes DEF UploadInv
    <2>2. cacheFile' \in [torn : BOOLEAN, entries : [Targets -> Entries]]
      <3>1. CASE cacheFile' = [torn |-> TRUE, entries |-> EmptyCache]
        BY <2>1, <3>1
      <3>2. CASE cacheFile' = [torn |-> FALSE, entries |-> cli[c].held]
        BY <1>4, <3>2
      <3> QED BY <1>2, <3>1, <3>2
    <2> QED BY <1>1, <1>6, <2>2 DEF UploadInv, UploadTypeOK, cloudVars
  <1>8. FileHolds'
    BY <1>1, <1>2, <1>4 DEF FileHolds, InHandHolds, EmptyCache, EntryHolds, cloudVars
  <1>9. ASSUME NEW d \in Clis PROVE Informed(cli[d])' /\ InHandHolds(cli[d])'
    BY <1>1, <1>5 DEF Informed, InHandHolds, HoldsHash, EntryHolds, cloudVars
  <1> QED BY <1>7, <1>8, <1>9 DEF UploadInv

\* The end of the tests, well or not.
LEMMA TestsKeep ==
  ASSUME UploadInv, NEW c \in Clis, TestsEnd(c) \/ TestsNotFound(c)
  PROVE  UploadInv'
  <1>1. UNCHANGED <<bytes, cacheFile, cloudVars, runs, rebuilds>>
    BY DEF TestsEnd, TestsNotFound
  <1>2. CASE Becomes(c, Resting)
    BY <1>1, <1>2, RestIsSound, OneRunSteps DEF UploadInv, UploadTypeOK
  <1>3. CASE TestsNotFound(c) /\ cli[c].fromCache
    <2> DEFINE run == [cli[c] EXCEPT !.at = "drop"]
    <2>1. cli[c] \in UploadRuns /\ cli[c].at = "tests" /\ Informed(cli[c]) /\ InHandHolds(cli[c])
      BY <1>3 DEF UploadInv, UploadTypeOK, TestsNotFound
    <2>2. run \in UploadRuns /\ Informed(run) /\ InHandHolds(run)
      BY <1>3, <2>1 DEF UploadRuns, Informed, InHandHolds, HoldsHash
    <2>3. Becomes(c, run)
      BY <1>3 DEF TestsNotFound, Goes
    <2> QED BY <1>1, <2>2, <2>3, OneRunSteps DEF UploadInv, UploadTypeOK
  <1> QED BY <1>2, <1>3 DEF TestsEnd, TestsNotFound

\* A rebuild touches nothing that is recorded.
LEMMA RebuildKeeps ==
  ASSUME UploadInv, NEW t \in Targets, NEW b \in Bytes, Rebuild(t, b)
  PROVE  UploadInv'
  <1>1. UploadTypeOK'
    BY UploadBounds DEF Rebuild, UploadInv, UploadTypeOK, cloudVars
  <1>2. UNCHANGED <<cacheFile, server, proven, swapped, cli>>
    BY DEF Rebuild, cloudVars
  <1> QED
    BY <1>1, <1>2 DEF UploadInv, FileHolds, Informed, InHandHolds, HoldsHash, EntryHolds

\* No step of any command line spoils what is recorded.
LEMMA UploadStep == UploadInv /\ [UploadNext]_uploadVars => UploadInv'
  <1> SUFFICES ASSUME UploadInv, [UploadNext]_uploadVars PROVE UploadInv'
    OBVIOUS
  <1>1. CASE UNCHANGED uploadVars
    BY <1>1 DEF uploadVars, UploadInv, UploadTypeOK, FileHolds, Informed, InHandHolds, HoldsHash,
                EntryHolds
  <1>2. ASSUME NEW c \in Clis,
               StartRun(c) \/ HashPlace(c) \/ LookUp(c) \/ ReadPlace(c) \/ Upload(c)
        PROVE  UploadInv'
    BY <1>2, StartRunKeeps, HashPlaceKeeps, LookUpKeeps, ReadPlaceKeeps, UploadKeeps
  <1>3. ASSUME NEW c \in Clis, ProbeBoots(c) \/ ProbeLost(c) \/ RunBreaksOff(c)
        PROVE  UploadInv'
    BY <1>3, ProbeBootsKeeps, ProbeLostKeeps, RunBreaksOffKeeps
  <1>4. ASSUME NEW c \in Clis,
               ReadForRecord(c) \/ ReadForDrop(c) \/ OpenCacheFile(c) \/ FillCacheFile(c)
        PROVE  UploadInv'
    BY <1>4, ReadForRecordKeeps, ReadForDropKeeps, OpenCacheFileKeeps, FillCacheFileKeeps
  <1>5. ASSUME NEW c \in Clis, TestsEnd(c) \/ TestsNotFound(c) PROVE UploadInv'
    BY <1>5, TestsKeep
  <1>6. ASSUME NEW t \in Targets, NEW b \in Bytes, Rebuild(t, b) PROVE UploadInv'
    BY <1>6, RebuildKeeps
  <1> QED BY <1>1, <1>2, <1>3, <1>4, <1>5, <1>6 DEF UploadNext

\* Entries that are lost, overwritten or garbled cost an upload and nothing else:
\* what is left names a version that has booted and holds what was hashed, and
\* so does the version any run's tests are sent to, up to a file that was rebuilt
\* between the two reads of it.
THEOREM CacheCostsSpeedOnly == UploadSpec => []UploadsAreSound
  <1>1. UploadInv => UploadsAreSound
    <2> SUFFICES ASSUME UploadInv PROVE UploadsAreSound
      OBVIOUS
    <2>1. EntriesHold
      BY DEF UploadInv, EntriesHold, FileHolds, InHandHolds
    <2>2. TestsAreOnTheirPlace
      BY DEF UploadInv, TestsAreOnTheirPlace, Informed, HoldsHash
    <2> QED BY <2>1, <2>2 DEF UploadInv, UploadsAreSound
  <1> QED BY UploadStarts, UploadStep, <1>1, PTL DEF UploadSpec

(***************************************************************************)
(* PlaceReuse: a digest is recorded only under a stamp older than the run, *)
(* so that whatever is written from then on carries another one.  A run    *)
(* nothing disturbs therefore has the key of the inputs as they are, and   *)
(* what it records, or is handed, is a place built from just these.        *)
(***************************************************************************)

\* A digest under an old stamp, which answers for the file as it is or for none.
Dated(entry, f) ==
    entry # Unknown =>
      /\ entry.stamp < clock
      /\ f \notin odd /\ entry.stamp = input[f].stamp => entry.text = input[f].text

\* A record whose run was left alone names the place its key stands for.
Matches(rec) == rec.calm => \A f \in Inputs \ odd : rec.key[f] = rec.built[f]

\* What a build under way may rely on.
Steady(run) ==
    /\ run.opened <= clock
    /\ \A f \in Inputs : Dated(run.prior[f], f) /\ Dated(run.publish[f], f)
    /\ run.at # "walk" => run.todo = {}
    /\ run.at \in {"walk", "ask", "compare", "hash", "note", "reused"} => run.plans
    /\ run.at # "away" /\ run.plans /\ run.calm =>
         \A f \in Inputs \ (odd \cup run.todo) : run.key[f] = input[f].text
    /\ run.at = "hash" /\ run.calm => \A f \in Inputs : built[f] = input[f].text
    /\ run.at = "note" /\ run.calm => \A f \in Inputs : run.found.built[f] = input[f].text
    /\ run.at \in {"compare", "reused"} => Matches(run.found) /\ run.found.key = run.key
    /\ run.at = "reused" /\ run.calm => built = run.found.built

ReuseInv ==
    /\ ReuseTypeOK
    /\ \A f \in Inputs : Dated(digests[f], f)
    /\ Matches(reuseFile)
    /\ \A b \in Builders : Steady(builder[b])

LEMMA PlainTypes ==
  /\ Unwritten \in [Inputs -> Texts0] /\ Unwritten \in [Inputs -> 0..MaxClock + 1]
  /\ NoDigests \in Digests /\ NothingRecorded \in Records
  /\ \A f \in Inputs : Unwritten[f] = 0 /\ NoDigests[f] = Unknown
  /\ MaxClock \in Nat /\ MaxTouches \in Nat /\ MaxBuilds \in Nat
  BY ReuseBounds
  DEF Unwritten, Texts0, NoDigests, Unknown, Digests, NothingRecorded, Records

\* Nothing is relied on between two builds.
LEMMA AwayIsSteady ==
  ASSUME ReuseTypeOK
  PROVE  Away \in BuilderRuns /\ Steady(Away)
  <1>1. Away \in BuilderRuns
    BY PlainTypes DEF Away, BuilderRuns
  <1>2. Steady(Away)
    BY PlainTypes DEF Away, Steady, Dated, ReuseTypeOK
  <1> QED BY <1>1, <1>2

\* Nothing is recorded, nothing is built.
LEMMA ReuseStarts == ReuseInit => ReuseInv
  <1> SUFFICES ASSUME ReuseInit PROVE ReuseInv
    OBVIOUS
  <1>1. Away \in BuilderRuns
    BY PlainTypes DEF Away, BuilderRuns
  <1>2. ReuseTypeOK
    BY <1>1, PlainTypes, ReuseBounds DEF ReuseInit, ReuseTypeOK, Texts0
  <1>3. (\A f \in Inputs : Dated(digests[f], f)) /\ Matches(reuseFile)
    BY PlainTypes DEF ReuseInit, Dated, Matches, NothingRecorded
  <1>4. \A b \in Builders : builder[b] = Away
    BY DEF ReuseInit
  <1> QED BY <1>2, <1>3, <1>4, AwayIsSteady DEF ReuseInv

\* A step of one build that leaves the files alone need only be sound for itself.
LEMMA OneBuildSteps ==
  ASSUME ReuseInv, NEW b \in Builders, NEW run \in BuilderRuns, Set(b, run), Steady(run),
         UNCHANGED <<worldVars, digests, reuseFile, built>>, builds' \in 0..MaxBuilds
  PROVE  ReuseInv'
  <1>1. UNCHANGED <<clock, input, touches, odd, digests, reuseFile, built>>
    BY DEF worldVars
  <1>2. ReuseTypeOK'
    BY <1>1 DEF ReuseInv, ReuseTypeOK, Set
  <1>3. \A c \in Builders : builder'[c] = IF c = b THEN run ELSE builder[c]
    BY DEF ReuseInv, ReuseTypeOK, Set
  <1>4. (\A f \in Inputs : Dated(digests[f], f))' /\ Matches(reuseFile)'
    BY <1>1 DEF ReuseInv, Dated, Matches
  <1>5. ASSUME NEW c \in Builders PROVE Steady(builder[c])'
    BY <1>1, <1>3 DEF ReuseInv, Steady, Dated, Matches
  <1> QED BY <1>2, <1>4, <1>5 DEF ReuseInv

\* A build begins with the digests there are, and an undisturbed one with all to read.
LEMMA StartBuildKeeps ==
  ASSUME ReuseInv, NEW b \in Builders, StartBuild(b)
  PROVE  ReuseInv'
  <1> DEFINE walk == [Away EXCEPT !.at = "walk", !.plans = TRUE, !.opened = clock,
                                  !.prior = digests, !.todo = Inputs]
             stage_ == [Away EXCEPT !.at = "stage"]
  <1>1. Away \in BuilderRuns /\ ReuseTypeOK
    BY AwayIsSteady DEF ReuseInv
  <1>2. walk \in BuilderRuns /\ stage_ \in BuilderRuns
    <2>1. clock \in 0..MaxClock /\ digests \in Digests
      BY <1>1, PlainTypes DEF ReuseTypeOK
    <2>2. walk \in BuilderRuns
      BY <1>1, <2>1 DEF BuilderRuns
    <2>3. stage_ \in BuilderRuns
      BY <1>1 DEF BuilderRuns
    <2> QED BY <2>2, <2>3
  <1>3. Steady(walk)
    BY <1>1, PlainTypes DEF ReuseInv, ReuseTypeOK, Away, Steady, Dated
  <1>4. Steady(stage_)
    BY <1>1, PlainTypes DEF ReuseTypeOK, Away, Steady, Dated
  <1>5. Set(b, walk) \/ Set(b, stage_)
    BY DEF StartBuild
  <1>6. builds' \in 0..MaxBuilds /\ UNCHANGED <<worldVars, digests, reuseFile, built>>
    BY <1>1, PlainTypes DEF StartBuild, ReuseTypeOK
  <1> QED BY <1>2, <1>3, <1>4, <1>5, <1>6, OneBuildSteps

\* What one digest adds, from the record or from the file.
LEMMA DigestedKeeps ==
  ASSUME ReuseInv, NEW b \in Builders, NEW f \in Inputs, builder[b].at = "walk",
         NEW text \in Texts0, NEW stamp \in 0..MaxClock, NEW read \in BOOLEAN,
         f \notin odd /\ stamp = input[f].stamp => text = input[f].text,
         builder[b].calm /\ f \notin odd => text = input[f].text,
         Digested(b, f, [text |-> text, stamp |-> stamp], read),
         UNCHANGED <<worldVars, digests, reuseFile, built, builds>>
  PROVE  ReuseInv'
  <1> DEFINE entry == [text |-> text, stamp |-> stamp]
             listing == IF Publishable(b, entry) THEN entry ELSE Unknown
             run == [builder[b] EXCEPT
                       !.todo = @ \ {f}, !.statted[f] = 0, !.reread = @ \/ read,
                       !.key[f] = entry.text, !.publish[f] = listing]
  <1>1. builder[b] \in BuilderRuns /\ Steady(builder[b]) /\ ReuseTypeOK
    BY DEF ReuseInv, ReuseTypeOK
  <1>2. listing \in [text : Texts0, stamp : 0..MaxClock] /\ Dated(listing, f)
    <2>1. builder[b].opened \in 0..MaxClock /\ builder[b].opened <= clock /\ clock \in 1..MaxClock
      BY <1>1 DEF Steady, BuilderRuns, ReuseTypeOK
    <2>2. CASE Publishable(b, entry)
      <3>1. stamp < clock
        BY <2>1, <2>2, PlainTypes DEF Publishable
      <3> QED BY <2>2, <3>1 DEF Dated
    <2>3. CASE ~Publishable(b, entry)
      BY <2>3, PlainTypes DEF Dated, Unknown, Texts0
    <2> QED BY <2>2, <2>3
  <1>3. Set(b, run)
    BY DEF Digested
  <1> HIDE DEF listing
  <1>4. /\ run.at = "walk" /\ run.plans = builder[b].plans /\ run.opened = builder[b].opened
        /\ run.prior = builder[b].prior /\ run.todo = builder[b].todo \ {f}
        /\ run.key = [builder[b].key EXCEPT ![f] = text]
        /\ run.publish = [builder[b].publish EXCEPT ![f] = listing]
        /\ run.found = builder[b].found /\ run.calm = builder[b].calm
    BY <1>1 DEF BuilderRuns
  <1>5. run \in BuilderRuns
    <2>1. [builder[b].publish EXCEPT ![f] = listing] \in Digests
      BY <1>1, <1>2 DEF BuilderRuns, Digests
    <2>2. [builder[b].key EXCEPT ![f] = text] \in [Inputs -> Texts0]
      BY <1>1 DEF BuilderRuns
    <2>3. [builder[b].statted EXCEPT ![f] = 0] \in [Inputs -> 0..MaxClock + 1]
      BY <1>1, PlainTypes DEF BuilderRuns
    <2>4. builder[b].todo \ {f} \in SUBSET Inputs /\ (builder[b].reread \/ read) \in BOOLEAN
      BY <1>1 DEF BuilderRuns
    <2> HIDE DEF listing
    <2> QED BY <1>1, <2>1, <2>2, <2>3, <2>4 DEF BuilderRuns
  <1> HIDE DEF run
  <1>6. Steady(run)
    <2>1. \A g \in Inputs : run.publish[g] = IF g = f THEN listing ELSE builder[b].publish[g]
      BY <1>1, <1>4 DEF BuilderRuns, Digests
    <2>2. \A g \in Inputs : run.key[g] = IF g = f THEN text ELSE builder[b].key[g]
      BY <1>1, <1>4 DEF BuilderRuns
    <2> QED BY <1>1, <1>2, <1>4, <2>1, <2>2 DEF Steady
  <1> QED BY <1>1, <1>3, <1>5, <1>6, OneBuildSteps DEF ReuseTypeOK

\* A digest that answers for the stamp answers for the file.
LEMMA StatInputKeeps ==
  ASSUME ReuseInv, NEW b \in Builders, NEW f \in Inputs, StatInput(b, f)
  PROVE  ReuseInv'
  <1> DEFINE entry == builder[b].prior[f]
  <1>1. builder[b] \in BuilderRuns /\ Steady(builder[b]) /\ ReuseTypeOK
        /\ builder[b].at = "walk"
    BY DEF ReuseInv, ReuseTypeOK, StatInput
  <1>2. entry \in [text : Texts0, stamp : 0..MaxClock] /\ Dated(entry, f)
    BY <1>1 DEF BuilderRuns, Digests, Steady
  <1>3. CASE entry # Unknown /\ entry.stamp = input[f].stamp
    <2>1. entry = [text |-> entry.text, stamp |-> entry.stamp]
      BY <1>2
    <2>2. f \notin odd => entry.text = input[f].text
      BY <1>2, <1>3 DEF Dated
    <2>3. Digested(b, f, entry, FALSE) /\ UNCHANGED <<worldVars, digests, reuseFile, built, builds>>
      BY <1>3 DEF StatInput
    <2>4. entry.text \in Texts0 /\ entry.stamp \in 0..MaxClock
      BY <1>2
    <2>5. Digested(b, f, [text |-> entry.text, stamp |-> entry.stamp], FALSE)
      BY <2>1, <2>3
    <2>6. f \notin odd /\ entry.stamp = input[f].stamp => entry.text = input[f].text
      BY <2>2
    <2>7. builder[b].calm /\ f \notin odd => entry.text = input[f].text
      BY <2>2
    <2> HIDE DEF entry
    <2> QED BY <1>1, <2>3, <2>4, <2>5, <2>6, <2>7, DigestedKeeps
  <1>4. CASE ~(entry # Unknown /\ entry.stamp = input[f].stamp)
    <2> DEFINE run == [builder[b] EXCEPT !.statted[f] = input[f].stamp + 1]
    <2>1. Set(b, run)
      BY <1>4 DEF StatInput
    <2>2. input[f].stamp + 1 \in 0..MaxClock + 1
      BY <1>1, PlainTypes DEF ReuseTypeOK
    <2>3. run \in BuilderRuns
      BY <1>1, <2>2 DEF BuilderRuns
    <2>4. Steady(run)
      BY <1>1 DEF BuilderRuns, Steady
    <2> QED BY <1>1, <2>1, <2>3, <2>4, OneBuildSteps DEF StatInput, ReuseTypeOK
  <1> QED BY <1>3, <1>4

\* What is read is what the file holds, whatever it was when its stamp was read.
LEMMA ReadInputKeeps ==
  ASSUME ReuseInv, NEW b \in Builders, NEW f \in Inputs, ReadInput(b, f)
  PROVE  ReuseInv'
  <1> DEFINE stamp == builder[b].statted[f] - 1
  <1>1. builder[b] \in BuilderRuns /\ ReuseTypeOK /\ builder[b].at = "walk"
        /\ builder[b].statted[f] # 0
    BY DEF ReuseInv, ReuseTypeOK, ReadInput
  <1>2. builder[b].statted[f] \in 0..MaxClock + 1 /\ input[f].text \in Texts0
    BY <1>1 DEF BuilderRuns, ReuseTypeOK, Texts0
  <1>3. stamp \in 0..MaxClock
    BY <1>1, <1>2, PlainTypes
  <1>4. Digested(b, f, [text |-> input[f].text, stamp |-> stamp], TRUE)
        /\ UNCHANGED <<worldVars, digests, reuseFile, built, builds>>
    BY DEF ReadInput
  <1> HIDE DEF stamp
  <1> QED BY <1>1, <1>2, <1>3, <1>4, DigestedKeeps

\* The digests that are saved were taken under old stamps.
LEMMA SaveDigestsKeeps ==
  ASSUME ReuseInv, NEW b \in Builders, SaveDigests(b)
  PROVE  ReuseInv'
  <1> DEFINE run == [builder[b] EXCEPT !.at = "ask", !.prior = NoDigests, !.publish = NoDigests]
  <1>1. builder[b] \in BuilderRuns /\ Steady(builder[b]) /\ ReuseTypeOK
        /\ builder[b].at = "walk" /\ builder[b].todo = {}
    BY DEF ReuseInv, ReuseTypeOK, SaveDigests
  <1>2. run \in BuilderRuns
    BY <1>1, PlainTypes DEF BuilderRuns
  <1>3. Steady(run)
    BY <1>1, PlainTypes DEF BuilderRuns, Steady, Dated
  <1>4. /\ digests' = digests \/ digests' = builder[b].publish
        /\ Set(b, run) /\ UNCHANGED <<clock, input, touches, odd, reuseFile, built, builds>>
    BY DEF SaveDigests, worldVars
  <1>5. digests' \in Digests /\ \A f \in Inputs : Dated(digests'[f], f)
    BY <1>1, <1>4 DEF ReuseInv, ReuseTypeOK, BuilderRuns, Steady
  <1>6. ReuseTypeOK'
    BY <1>2, <1>4, <1>5 DEF ReuseInv, ReuseTypeOK, Set
  <1>7. \A c \in Builders : builder'[c] = IF c = b THEN run ELSE builder[c]
    BY <1>1, <1>4 DEF ReuseTypeOK, Set
  <1>8. (\A f \in Inputs : Dated(digests[f], f))' /\ Matches(reuseFile)'
    BY <1>4, <1>5 DEF ReuseInv, Dated, Matches
  <1> HIDE DEF run
  <1>9. ASSUME NEW c \in Builders PROVE Steady(builder[c])'
    BY <1>3, <1>4, <1>7 DEF ReuseInv, Steady, Dated, Matches
  <1> QED BY <1>6, <1>8, <1>9 DEF ReuseInv

\* A record is taken up only under the key the build has just computed.
LEMMA ReadRecordKeeps ==
  ASSUME ReuseInv, NEW b \in Builders, ReadRecord(b)
  PROVE  ReuseInv'
  <1> DEFINE found == [builder[b] EXCEPT !.at = "compare", !.found = reuseFile]
             anew == [builder[b] EXCEPT !.at = "stage"]
  <1>1. builder[b] \in BuilderRuns /\ Steady(builder[b]) /\ ReuseTypeOK
        /\ builder[b].at = "ask" /\ Matches(reuseFile) /\ reuseFile \in Records
    BY DEF ReuseInv, ReuseTypeOK, ReadRecord
  <1>2. found \in BuilderRuns /\ anew \in BuilderRuns
    BY <1>1 DEF BuilderRuns
  <1>3. reuseFile.key = builder[b].key => Steady(found)
    BY <1>1 DEF BuilderRuns, Steady
  <1>4. Steady(anew)
    BY <1>1 DEF BuilderRuns, Steady
  <1>5. /\ (reuseFile.key = builder[b].key /\ Set(b, found)) \/ Set(b, anew)
        /\ UNCHANGED <<worldVars, digests, reuseFile, built, builds>>
    BY DEF ReadRecord
  <1> HIDE DEF found, anew
  <1> QED BY <1>1, <1>2, <1>3, <1>4, <1>5, OneBuildSteps DEF ReuseTypeOK

\* A place is handed out only as the one the record names.
LEMMA ComparePlaceKeeps ==
  ASSUME ReuseInv, NEW b \in Builders, ComparePlace(b)
  PROVE  ReuseInv'
  <1> DEFINE run == [builder[b] EXCEPT !.at = IF SamePlace(b) THEN "reused" ELSE "stage"]
  <1>1. builder[b] \in BuilderRuns /\ Steady(builder[b]) /\ ReuseTypeOK
        /\ builder[b].at = "compare"
    BY DEF ReuseInv, ReuseTypeOK, ComparePlace
  <1>2. run \in BuilderRuns
    BY <1>1 DEF BuilderRuns
  <1>3. Steady(run)
    BY <1>1 DEF BuilderRuns, Steady, SamePlace
  <1>4. Set(b, run) /\ UNCHANGED <<worldVars, digests, reuseFile, built, builds>>
    BY DEF ComparePlace
  <1> HIDE DEF run
  <1> QED BY <1>1, <1>2, <1>3, <1>4, OneBuildSteps DEF ReuseTypeOK

\* A disturbed build has lost nothing but its calm.
LEMMA DisturbedParts ==
  ASSUME ReuseTypeOK, NEW c \in Builders
  PROVE  /\ Disturbed(c) \in BuilderRuns
         /\ Disturbed(c).at = builder[c].at /\ Disturbed(c).plans = builder[c].plans
         /\ Disturbed(c).opened = builder[c].opened /\ Disturbed(c).prior = builder[c].prior
         /\ Disturbed(c).todo = builder[c].todo /\ Disturbed(c).publish = builder[c].publish
         /\ Disturbed(c).key = builder[c].key /\ Disturbed(c).found = builder[c].found
         /\ Disturbed(c).calm => Disturbed(c).at = "away"
  <1>1. builder[c] \in BuilderRuns
    BY DEF ReuseTypeOK
  <1> QED BY <1>1 DEF BuilderRuns, Disturbed

\* What rojo writes counts as a disturbance for every build but its own.
LEMMA RojoWrites ==
  ASSUME ReuseInv, NEW b \in Builders, NEW run \in BuilderRuns, SetAlone(b, run),
         UNCHANGED <<worldVars, digests, reuseFile, builds>>, built' \in [Inputs -> Texts0],
         Steady(run)'
  PROVE  ReuseInv'
  <1>1. UNCHANGED <<clock, input, touches, odd, digests, reuseFile>> /\ ReuseTypeOK
    BY DEF worldVars, ReuseInv
  <1>2. \A c \in Builders : builder'[c] = IF c = b THEN run ELSE Disturbed(c)
    BY DEF SetAlone
  <1>3. ASSUME NEW c \in Builders PROVE Disturbed(c) \in BuilderRuns
    BY <1>1, DisturbedParts
  <1>4. ReuseTypeOK'
    BY <1>1, <1>3 DEF ReuseTypeOK, SetAlone
  <1>5. (\A f \in Inputs : Dated(digests[f], f))' /\ Matches(reuseFile)'
    BY <1>1 DEF ReuseInv, Dated, Matches
  <1>6. ASSUME NEW c \in Builders PROVE Steady(builder[c])'
    <2>1. CASE c = b
      <3>1. builder'[c] = run
        BY <1>2, <2>1
      <3> QED BY <1>1, <3>1 DEF Steady, Dated, Matches
    <2>2. CASE c # b
      <3>1. builder'[c] = Disturbed(c) /\ builder[c] \in BuilderRuns /\ Steady(builder[c])
        BY <1>2, <2>2 DEF ReuseInv, ReuseTypeOK
      <3> QED BY <1>1, <3>1, DisturbedParts DEF Steady, Dated, Matches
    <2> QED BY <2>1, <2>2
  <1> QED BY <1>4, <1>5, <1>6 DEF ReuseInv

LEMMA RojoKeeps ==
  ASSUME ReuseInv, NEW b \in Builders, RojoStarts(b) \/ RojoEnds(b)
  PROVE  ReuseInv'
  <1>1. builder[b] \in BuilderRuns /\ Steady(builder[b]) /\ ReuseTypeOK
    BY DEF ReuseInv, ReuseTypeOK
  <1>2. CASE RojoStarts(b)
    <2>1. PICK run \in BuilderRuns : run = [builder[b] EXCEPT !.at = "rojo"]
      BY <1>1 DEF BuilderRuns
    <2>2. UNCHANGED <<clock, input, odd>> /\ builder[b].at = "stage"
      BY <1>2 DEF RojoStarts, worldVars
    <2>3. Steady(run)'
      BY <1>1, <2>1, <2>2 DEF BuilderRuns, Steady, Dated
    <2>4. SetAlone(b, run) /\ built' \in [Inputs -> Texts0]
          /\ UNCHANGED <<worldVars, digests, reuseFile, builds>>
      BY <1>2, <2>1, PlainTypes DEF RojoStarts
    <2> QED BY <2>1, <2>3, <2>4, RojoWrites
  <1>3. CASE RojoEnds(b)
    <2>1. PICK run \in BuilderRuns :
            run = IF builder[b].plans THEN [builder[b] EXCEPT !.at = "hash"] ELSE Away
      BY <1>1, AwayIsSteady DEF BuilderRuns
    <2>2. UNCHANGED <<clock, input, odd>> /\ builder[b].at = "rojo"
          /\ built' = [f \in Inputs |-> input[f].text]
      BY <1>3 DEF RojoEnds, worldVars
    <2>3. Steady(run)'
      <3>1. CASE builder[b].plans
        BY <1>1, <2>1, <2>2, <3>1 DEF BuilderRuns, Steady, Dated
      <3>2. CASE ~builder[b].plans
        <4>1. run = Away /\ clock \in 1..MaxClock
          BY <1>1, <2>1, <3>2 DEF ReuseTypeOK
        <4> QED BY <2>2, <4>1, PlainTypes DEF Away, Steady, Dated
      <3> QED BY <3>1, <3>2
    <2>4. built' \in [Inputs -> Texts0]
      BY <1>1, <2>2 DEF ReuseTypeOK, Texts0
    <2>5. SetAlone(b, run) /\ UNCHANGED <<worldVars, digests, reuseFile, builds>>
      BY <1>3, <2>1 DEF RojoEnds
    <2> QED BY <2>1, <2>3, <2>4, <2>5, RojoWrites
  <1> QED BY <1>2, <1>3

LEMMA HashBuiltKeeps ==
  ASSUME ReuseInv, NEW b \in Builders, HashBuilt(b)
  PROVE  ReuseInv'
  <1> DEFINE run == [builder[b] EXCEPT !.at = "note", !.found.built = built]
  <1>1. builder[b] \in BuilderRuns /\ Steady(builder[b]) /\ ReuseTypeOK
        /\ builder[b].at = "hash"
    BY DEF ReuseInv, ReuseTypeOK, HashBuilt
  <1>2. [builder[b].found EXCEPT !.built = built] \in Records
    BY <1>1 DEF BuilderRuns, Records, ReuseTypeOK
  <1>3. run \in BuilderRuns
    BY <1>1, <1>2 DEF BuilderRuns
  <1>4. Steady(run)
    BY <1>1 DEF BuilderRuns, Records, Steady
  <1>5. Set(b, run) /\ UNCHANGED <<worldVars, digests, reuseFile, built, builds>>
    BY DEF HashBuilt
  <1> HIDE DEF run
  <1> QED BY <1>1, <1>3, <1>4, <1>5, OneBuildSteps DEF ReuseTypeOK

\* The record of an undisturbed build names the place of its key.
LEMMA NoteBuildKeeps ==
  ASSUME ReuseInv, NEW b \in Builders, NoteBuild(b)
  PROVE  ReuseInv'
  <1>1. builder[b] \in BuilderRuns /\ Steady(builder[b]) /\ ReuseTypeOK
        /\ builder[b].at = "note"
    BY DEF ReuseInv, ReuseTypeOK, NoteBuild
  <1>2. /\ reuseFile' = [there |-> TRUE, key |-> builder[b].key,
                         built |-> builder[b].found.built, calm |-> builder[b].calm]
        /\ Set(b, Away) /\ UNCHANGED <<clock, input, touches, odd, digests, built, builds>>
    BY DEF NoteBuild, worldVars
  <1>3. reuseFile' \in Records
    BY <1>1, <1>2 DEF BuilderRuns, Records
  <1>4. Matches(reuseFile)'
    BY <1>1, <1>2 DEF Steady, Matches
  <1>5. Away \in BuilderRuns /\ Steady(Away)
    BY <1>1, AwayIsSteady
  <1>6. ReuseTypeOK'
    BY <1>1, <1>2, <1>3, <1>5 DEF ReuseTypeOK, Set
  <1>7. \A c \in Builders : builder'[c] = IF c = b THEN Away ELSE builder[c]
    BY <1>1, <1>2 DEF ReuseTypeOK, Set
  <1>8. \A c \in Builders : Steady(builder[c])'
    BY <1>2, <1>5, <1>7 DEF ReuseInv, Steady, Dated, Matches
  <1>9. (\A f \in Inputs : Dated(digests[f], f))'
    BY <1>2 DEF ReuseInv, Dated
  <1> QED BY <1>4, <1>6, <1>8, <1>9 DEF ReuseInv

LEMMA LeavesKeeps ==
  ASSUME ReuseInv, NEW b \in Builders, Leaves(b)
  PROVE  ReuseInv'
  <1>1. Away \in BuilderRuns /\ Steady(Away) /\ ReuseTypeOK
    BY AwayIsSteady DEF ReuseInv
  <1>2. Set(b, Away) /\ UNCHANGED <<worldVars, digests, reuseFile, built, builds>>
    BY DEF Leaves
  <1> QED BY <1>1, <1>2, OneBuildSteps DEF ReuseTypeOK

\* An edit bears a stamp no digest bears, or its file is set aside.
LEMMA TouchKeeps ==
  ASSUME ReuseInv, NEW f \in Inputs, NEW text \in Texts,
         NEW stamp \in {clock, input[f].stamp}, Touch(f, text, stamp)
  PROVE  ReuseInv'
  <1>1. ReuseTypeOK /\ clock \in 1..MaxClock /\ stamp \in 0..MaxClock
    BY PlainTypes DEF ReuseInv, ReuseTypeOK
  <1>2. /\ input' = [input EXCEPT ![f] = [text |-> text, stamp |-> stamp]]
        /\ odd' = IF stamp < clock THEN odd \cup {f} ELSE odd
        /\ \A b \in Builders : builder'[b] = Disturbed(b)
        /\ UNCHANGED <<clock, digests, reuseFile, built, builds>>
    BY DEF Touch
  <1>3. \A b \in Builders : Disturbed(b) \in BuilderRuns
    BY <1>1, DisturbedParts
  <1>4. ReuseTypeOK'
    BY <1>1, <1>3, PlainTypes DEF ReuseTypeOK, Touch
  <1>5. ASSUME NEW g \in Inputs, NEW entry \in [text : Texts0, stamp : 0..MaxClock],
               Dated(entry, g)
        PROVE  (entry # Unknown => entry.stamp < clock' /\
                  (g \notin odd' /\ entry.stamp = input'[g].stamp => entry.text = input'[g].text))
    <2>1. CASE g = f
      BY <1>1, <1>2, <1>5, <2>1 DEF Dated, ReuseTypeOK
    <2>2. CASE g # f
      BY <1>1, <1>2, <1>5, <2>2 DEF Dated, ReuseTypeOK
    <2> QED BY <2>1, <2>2
  <1>6. (\A g \in Inputs : Dated(digests[g], g))'
    BY <1>1, <1>2, <1>5 DEF ReuseInv, ReuseTypeOK, Digests, Dated
  <1>7. Matches(reuseFile)'
    BY <1>2 DEF ReuseInv, Matches
  <1>8. ASSUME NEW b \in Builders PROVE Steady(builder[b])'
    <2>1. builder'[b] = Disturbed(b) /\ builder[b] \in BuilderRuns /\ Steady(builder[b])
      BY <1>1, <1>2 DEF ReuseInv, ReuseTypeOK
    <2>2. \A g \in Inputs :
            builder[b].prior[g] \in [text : Texts0, stamp : 0..MaxClock] /\
            builder[b].publish[g] \in [text : Texts0, stamp : 0..MaxClock]
      BY <2>1 DEF BuilderRuns, Digests
    <2>3. \A g \in Inputs : Dated(builder[b].prior[g], g) /\ Dated(builder[b].publish[g], g)
      BY <2>1 DEF Steady
    <2>4. builder'[b].prior = builder[b].prior /\ builder'[b].publish = builder[b].publish
      BY <1>1, <2>1, DisturbedParts
    <2>5. (\A g \in Inputs : Dated(builder[b].prior[g], g) /\ Dated(builder[b].publish[g], g))'
      BY <1>5, <2>2, <2>3, <2>4 DEF Dated
    <2> QED BY <1>1, <1>2, <2>1, <2>5, DisturbedParts DEF Steady, Matches
  <1> QED BY <1>4, <1>6, <1>7, <1>8 DEF ReuseInv

LEMMA TimePassesKeeps ==
  ASSUME ReuseInv, TimePasses
  PROVE  ReuseInv'
  <1>1. clock' = clock + 1 /\ clock' \in 1..MaxClock /\ ReuseTypeOK
        /\ UNCHANGED <<input, digests, reuseFile, built, builder, touches, builds, odd>>
    BY PlainTypes DEF TimePasses, ReuseInv, ReuseTypeOK
  <1>2. ReuseTypeOK'
    BY <1>1 DEF ReuseTypeOK
  <1>3. ASSUME NEW g \in Inputs, NEW entry \in [text : Texts0, stamp : 0..MaxClock],
               Dated(entry, g)
        PROVE  (entry # Unknown => entry.stamp < clock' /\
                  (g \notin odd' /\ entry.stamp = input'[g].stamp => entry.text = input'[g].text))
    BY <1>1, <1>3, PlainTypes DEF Dated, ReuseTypeOK
  <1>4. (\A g \in Inputs : Dated(digests[g], g))' /\ Matches(reuseFile)'
    BY <1>1, <1>3 DEF ReuseInv, ReuseTypeOK, Digests, Dated, Matches
  <1>5. ASSUME NEW b \in Builders PROVE Steady(builder[b])'
    <2>1. builder[b] \in BuilderRuns /\ Steady(builder[b]) /\ builder' = builder
      BY <1>1 DEF ReuseInv, ReuseTypeOK
    <2>2. \A g \in Inputs :
            builder[b].prior[g] \in [text : Texts0, stamp : 0..MaxClock] /\
            builder[b].publish[g] \in [text : Texts0, stamp : 0..MaxClock]
      BY <2>1 DEF BuilderRuns, Digests
    <2>3. \A g \in Inputs : Dated(builder[b].prior[g], g) /\ Dated(builder[b].publish[g], g)
      BY <2>1 DEF Steady
    <2>4. (\A g \in Inputs : Dated(builder[b].prior[g], g) /\ Dated(builder[b].publish[g], g))'
      BY <1>1, <1>3, <2>2, <2>3 DEF Dated
    <2>5. builder[b].opened <= clock'
      BY <1>1, <2>1, PlainTypes DEF Steady, BuilderRuns, ReuseTypeOK
    <2> QED BY <1>1, <2>1, <2>4, <2>5 DEF Steady, Matches
  <1> QED BY <1>2, <1>4, <1>5 DEF ReuseInv

LEMMA ReuseStep == ReuseInv /\ [ReuseNext]_buildVars => ReuseInv'
  <1> SUFFICES ASSUME ReuseInv, [ReuseNext]_buildVars PROVE ReuseInv'
    OBVIOUS
  <1>1. CASE UNCHANGED buildVars
    BY <1>1 DEF buildVars, ReuseInv, ReuseTypeOK, Steady, Dated, Matches
  <1>2. ASSUME NEW b \in Builders,
               StartBuild(b) \/ SaveDigests(b) \/ ReadRecord(b) \/ ComparePlace(b)
        PROVE  ReuseInv'
    BY <1>2, StartBuildKeeps, SaveDigestsKeeps, ReadRecordKeeps, ComparePlaceKeeps
  <1>3. ASSUME NEW b \in Builders,
               RojoStarts(b) \/ RojoEnds(b) \/ HashBuilt(b) \/ NoteBuild(b) \/ Leaves(b)
        PROVE  ReuseInv'
    BY <1>3, RojoKeeps, HashBuiltKeeps, NoteBuildKeeps, LeavesKeeps
  <1>4. ASSUME NEW b \in Builders, NEW f \in Inputs, StatInput(b, f) \/ ReadInput(b, f)
        PROVE  ReuseInv'
    BY <1>4, StatInputKeeps, ReadInputKeeps
  <1>5. ASSUME NEW f \in Inputs, NEW text \in Texts, NEW stamp \in {clock, input[f].stamp},
               Touch(f, text, stamp)
        PROVE  ReuseInv'
    BY <1>5, TouchKeeps
  <1> QED BY <1>1, <1>2, <1>3, <1>4, <1>5, TimePassesKeeps DEF ReuseNext

\* A digest that answers for a file is the file's, and a place handed out without
\* a build holds the inputs as they are: for any number of command lines over one
\* cache directory, any inputs, edits and kills, with the excuses ReusedIsCurrent
\* names.
THEOREM ReusedPlacesAreCurrent == ReuseSpec => []ReuseIsSound
  <1>1. ReuseInv => ReuseIsSound
    <2> SUFFICES ASSUME ReuseInv PROVE ReuseIsSound
      OBVIOUS
    <2>1. DigestsHold
      BY DEF ReuseInv, DigestsHold, Dated
    <2>2. ReusedIsCurrent
      BY DEF ReuseInv, ReusedIsCurrent, Steady, Matches
    <2> QED BY <2>1, <2>2 DEF ReuseInv, ReuseIsSound
  <1> QED BY ReuseStarts, ReuseStep, <1>1, PTL DEF ReuseSpec

(***************************************************************************)
(* StudioLaunch: one place, one lock file, and a Studio of every launch.   *)
(*                                                                         *)
(* Two Studios that may both have the place are both noted as sharing it.  *)
(* A launch that is not noted is therefore the only one that can write the *)
(* lock or take it away, from the moment its Studio may come to the place. *)
(***************************************************************************)

\* A Studio that has the place, or may still come to it.
HasPlace(l) ==
    \/ studio[l] \in {"booting", "open", "closing", "draining"}
    \/ studio[l] = "none" /\ helper[l] # "none"

Apartness == \A k, l \in Launches : HasPlace(k) /\ HasPlace(l) /\ k # l => l \in shared

\* What a command line has done tells how far its helper, its kill and its watch are.
LaunchStages ==
    \A l \in Launches :
      /\ l > launched => process[l] = "none"
      /\ process[l] \in {"none", "setup"} =>
           studio[l] = "none" /\ studioPid[l] = "unknown" /\ ~hidden[l]
      /\ process[l] \in {"none", "setup", "waiting"} => killing[l] = "none" /\ watch[l] = "off"
      /\ process[l] = "ended" /\ hidden[l] => helper[l] = "gone" /\ studioPid[l] # "printed"
      /\ hidden[l] <=> helper[l] # "none"
      /\ helper[l] = "gone" => studio[l] # "none"
      /\ ~hidden[l] => killing[l] # "asked"
      /\ hidden[l] => killing[l] # "forced"
      /\ killing[l] = "asked" => studioPid[l] # "known"
      /\ killing[l] = "sent" /\ hidden[l] => studioPid[l] = "known"
      /\ watch[l] # "off" => studio[l] \notin {"none", "booting"}

\* No lock lies in the way of a helper that has still to launch.
WayIsFree ==
    \A l \in Launches \ shared : studio[l] = "none" /\ helper[l] # "none" => lock = NoLock

LaunchInv == LaunchesAreSound /\ LaunchStages /\ Apartness /\ WayIsFree

LEMMA LaunchStarts == LaunchInit => LaunchInv
   BY LaunchBound DEF LaunchInit, LaunchInv, LaunchesAreSound, LaunchTypeOK, LockIsOwn,
       ClosesInPeace,
     NoStudioForgotten, LoopDrains, LaunchStages, Apartness, HasPlace, WayIsFree, Launches, NoLock


\* What is set up has nothing running, and what could not be has ended.
LEMMA SetsUpKeeps ==
  ASSUME LaunchInv, NEW l \in Launches, SetsUp(l)
  PROVE  LaunchInv'
  <1> USE LaunchBound DEF LaunchInv, LaunchesAreSound, SetsUp, helperVars, commandVars
  <1>1. LaunchTypeOK'
    <2>1. launched' \in 0..MaxLaunches
      BY DEF Launches
    <2>2. /\ process' \in [Launches -> {"none", "setup", "waiting", "settled", "ended", "killed"}]
          /\ channel' \in [Launches -> {"none", "open", "closed"}]
      BY DEF LaunchTypeOK
    <2> QED BY <2>1, <2>2 DEF LaunchTypeOK
  <1>2. LaunchStages'
    BY DEF LaunchTypeOK, LaunchStages, Launches
  <1>3. Apartness'
    BY DEF LaunchTypeOK, LaunchStages, Apartness, HasPlace
  <1>4. WayIsFree'
    BY DEF LaunchTypeOK, LaunchStages, WayIsFree, Apartness, HasPlace
  <1>5. LockIsOwn'
    BY DEF LaunchTypeOK, LaunchStages, LockIsOwn, WayIsFree, Apartness, HasPlace
  <1>6. ClosesInPeace'
    BY DEF LaunchTypeOK, LaunchStages, ClosesInPeace, LockIsOwn
  <1>7. NoStudioForgotten'
    BY DEF LaunchTypeOK, LaunchStages, NoStudioForgotten, LoopDrains
  <1>8. LoopDrains'
    BY DEF LaunchTypeOK, LaunchStages, LoopDrains
  <1> QED BY <1>1, <1>2, <1>3, <1>4, <1>5, <1>6, <1>7, <1>8

\* The lock is cleared, and a launch that is not alone is noted with the others.
LEMMA SpawnsKeeps ==
  ASSUME LaunchInv, NEW l \in Launches, Spawns(l)
  PROVE  LaunchInv'
  <1> USE DEF LaunchInv, LaunchesAreSound, Spawns, Others
  <1>1. LaunchTypeOK'
    <2>1. shared' \subseteq Launches
      BY DEF LaunchTypeOK
    <2>2. /\ studio' \in [Launches -> {"none", "booting", "open", "closing", "draining", "gone"}]
          /\ helper' \in [Launches -> {"none", "running", "stopped", "gone"}]
      BY DEF LaunchTypeOK
    <2>3. hidden' \in [Launches -> BOOLEAN]
      BY DEF LaunchTypeOK
    <2>4. process' \in [Launches -> {"none", "setup", "waiting", "settled", "ended", "killed"}]
      BY DEF LaunchTypeOK
    <2> QED BY <2>1, <2>2, <2>3, <2>4 DEF LaunchTypeOK, NoLock
  <1>2. LaunchStages'
    BY DEF LaunchTypeOK, LaunchStages
  <1>3. Apartness'
    BY DEF LaunchTypeOK, LaunchStages, Apartness, HasPlace
  <1>4. WayIsFree'
    BY DEF LaunchTypeOK, LaunchStages, WayIsFree, Apartness, HasPlace
  <1>5. LockIsOwn'
    BY DEF LaunchTypeOK, LaunchStages, LockIsOwn, WayIsFree, Apartness, HasPlace
  <1>6. ClosesInPeace'
    BY DEF LaunchTypeOK, LaunchStages, ClosesInPeace, LockIsOwn
  <1>7. NoStudioForgotten'
    BY DEF LaunchTypeOK, LaunchStages, NoStudioForgotten, LoopDrains
  <1>8. LoopDrains'
    BY DEF LaunchTypeOK, LaunchStages, LoopDrains
  <1> QED BY <1>1, <1>2, <1>3, <1>4, <1>5, <1>6, <1>7, <1>8

\* The only trace is a lock that was cleared.
LEMMA NothingLaunchedKeeps ==
  ASSUME LaunchInv, NEW l \in Launches, NothingLaunched(l)
  PROVE  LaunchInv'
  <1> USE DEF LaunchInv, LaunchesAreSound, NothingLaunched, Others, helperVars
  <1>1. LaunchTypeOK'
    BY DEF LaunchTypeOK, NoLock
  <1>2. LaunchStages'
    BY DEF LaunchTypeOK, LaunchStages
  <1>3. Apartness'
    BY DEF LaunchTypeOK, LaunchStages, Apartness, HasPlace
  <1>4. WayIsFree'
    BY DEF LaunchTypeOK, LaunchStages, WayIsFree, Apartness, HasPlace
  <1>5. LockIsOwn'
    BY DEF LaunchTypeOK, LaunchStages, LockIsOwn, WayIsFree, Apartness, HasPlace
  <1>6. ClosesInPeace'
    BY DEF LaunchTypeOK, LaunchStages, ClosesInPeace, LockIsOwn
  <1>7. NoStudioForgotten'
    BY DEF LaunchTypeOK, LaunchStages, NoStudioForgotten, LoopDrains
  <1>8. LoopDrains'
    BY DEF LaunchTypeOK, LaunchStages, LoopDrains
  <1> QED BY <1>1, <1>2, <1>3, <1>4, <1>5, <1>6, <1>7, <1>8

\* A kill that waited for the pid is sent.
LEMMA HearsPidKeeps ==
  ASSUME LaunchInv, NEW l \in Launches, HearsPid(l)
  PROVE  LaunchInv'
  <1> USE DEF LaunchInv, LaunchesAreSound, HearsPid, Alive
  <1>1. LaunchTypeOK'
    BY DEF LaunchTypeOK
  <1>2. LaunchStages'
    BY DEF LaunchTypeOK, LaunchStages
  <1>3. Apartness'
    BY DEF LaunchTypeOK, LaunchStages, Apartness, HasPlace
  <1>4. WayIsFree'
    BY DEF LaunchTypeOK, LaunchStages, WayIsFree, Apartness, HasPlace
  <1>5. LockIsOwn'
    BY DEF LaunchTypeOK, LaunchStages, LockIsOwn, WayIsFree, Apartness, HasPlace
  <1>6. ClosesInPeace'
    BY DEF LaunchTypeOK, LaunchStages, ClosesInPeace, LockIsOwn
  <1>7. NoStudioForgotten'
    BY DEF LaunchTypeOK, LaunchStages, NoStudioForgotten, LoopDrains
  <1>8. LoopDrains'
    BY DEF LaunchTypeOK, LaunchStages, LoopDrains
  <1> QED BY <1>1, <1>2, <1>3, <1>4, <1>5, <1>6, <1>7, <1>8

\* A run that fails kills what it can.
LEMMA WaitFailsKeeps ==
  ASSUME LaunchInv, NEW l \in Launches, WaitFails(l)
  PROVE  LaunchInv'
  <1> USE DEF LaunchInv, LaunchesAreSound, WaitFails, Terminate
  <1>1. LaunchTypeOK'
    BY DEF LaunchTypeOK
  <1>2. LaunchStages'
    BY DEF LaunchTypeOK, LaunchStages
  <1>3. Apartness'
    BY DEF LaunchTypeOK, LaunchStages, Apartness, HasPlace
  <1>4. WayIsFree'
    BY DEF LaunchTypeOK, LaunchStages, WayIsFree, Apartness, HasPlace
  <1>5. LockIsOwn'
    BY DEF LaunchTypeOK, LaunchStages, LockIsOwn, WayIsFree, Apartness, HasPlace
  <1>6. ClosesInPeace'
    BY DEF LaunchTypeOK, LaunchStages, ClosesInPeace, LockIsOwn
  <1>7. NoStudioForgotten'
    BY DEF LaunchTypeOK, LaunchStages, NoStudioForgotten, LoopDrains
  <1>8. LoopDrains'
    BY DEF LaunchTypeOK, LaunchStages, LoopDrains
  <1> QED BY <1>1, <1>2, <1>3, <1>4, <1>5, <1>6, <1>7, <1>8

\* Studio answered: it has opened its place.
LEMMA WaitAnsweredKeeps ==
  ASSUME LaunchInv, NEW l \in Launches, WaitAnswered(l)
  PROVE  LaunchInv'
  <1> USE DEF LaunchInv, LaunchesAreSound, WaitAnswered, helperVars, commandVars
  <1>1. LaunchTypeOK'
    BY DEF LaunchTypeOK
  <1>2. LaunchStages'
    BY DEF LaunchTypeOK, LaunchStages
  <1>3. Apartness'
    BY DEF LaunchTypeOK, LaunchStages, Apartness, HasPlace
  <1>4. WayIsFree'
    BY DEF LaunchTypeOK, LaunchStages, WayIsFree, Apartness, HasPlace
  <1>5. LockIsOwn'
    BY DEF LaunchTypeOK, LaunchStages, LockIsOwn, WayIsFree, Apartness, HasPlace
  <1>6. ClosesInPeace'
    BY DEF LaunchTypeOK, LaunchStages, ClosesInPeace, LockIsOwn
  <1>7. NoStudioForgotten'
    BY DEF LaunchTypeOK, LaunchStages, NoStudioForgotten, LoopDrains
  <1>8. LoopDrains'
    BY DEF LaunchTypeOK, LaunchStages, LoopDrains
  <1> QED BY <1>1, <1>2, <1>3, <1>4, <1>5, <1>6, <1>7, <1>8

\* The cap changes the watch alone.
LEMMA GraceEndsKeeps ==
  ASSUME LaunchInv, NEW l \in Launches, GraceEnds(l)
  PROVE  LaunchInv'
  <1> USE DEF LaunchInv, LaunchesAreSound, GraceEnds, Alive, helperVars, commandVars
  <1>1. LaunchTypeOK'
    BY DEF LaunchTypeOK
  <1>2. LaunchStages'
    BY DEF LaunchTypeOK, LaunchStages
  <1>3. Apartness'
    BY DEF LaunchTypeOK, LaunchStages, Apartness, HasPlace
  <1>4. WayIsFree'
    BY DEF LaunchTypeOK, LaunchStages, WayIsFree, Apartness, HasPlace
  <1>5. LockIsOwn'
    BY DEF LaunchTypeOK, LaunchStages, LockIsOwn, WayIsFree, Apartness, HasPlace
  <1>6. ClosesInPeace'
    BY DEF LaunchTypeOK, LaunchStages, ClosesInPeace, LockIsOwn
  <1>7. NoStudioForgotten'
    BY DEF LaunchTypeOK, LaunchStages, NoStudioForgotten, LoopDrains
  <1>8. LoopDrains'
    BY DEF LaunchTypeOK, LaunchStages, LoopDrains
  <1> QED BY <1>1, <1>2, <1>3, <1>4, <1>5, <1>6, <1>7, <1>8

\* The lock of a Studio that is alone with its place is its own.
LEMMA LockPolledKeeps ==
  ASSUME LaunchInv, NEW l \in Launches, LockPolled(l)
  PROVE  LaunchInv'
  <1> USE DEF LaunchInv, LaunchesAreSound, LockPolled, Terminate, Alive
  <1>1. LaunchTypeOK'
    BY DEF LaunchTypeOK
  <1>2. LaunchStages'
    BY DEF LaunchTypeOK, LaunchStages
  <1>3. Apartness'
    BY DEF LaunchTypeOK, LaunchStages, Apartness, HasPlace
  <1>4. WayIsFree'
    BY DEF LaunchTypeOK, LaunchStages, WayIsFree, Apartness, HasPlace
  <1>5. LockIsOwn'
    BY DEF LaunchTypeOK, LaunchStages, LockIsOwn, WayIsFree, Apartness, HasPlace
  <1>6. ClosesInPeace'
    BY DEF LaunchTypeOK, LaunchStages, ClosesInPeace, LockIsOwn, NoLock, Launches
  <1>7. NoStudioForgotten'
    BY DEF LaunchTypeOK, LaunchStages, NoStudioForgotten, LoopDrains
  <1>8. LoopDrains'
    BY DEF LaunchTypeOK, LaunchStages, LoopDrains
  <1> QED BY <1>1, <1>2, <1>3, <1>4, <1>5, <1>6, <1>7, <1>8

\* A Studio that ignores SIGTERM gets SIGKILL.
LEMMA EscalatesKeeps ==
  ASSUME LaunchInv, NEW l \in Launches, Escalates(l)
  PROVE  LaunchInv'
  <1> USE DEF LaunchInv, LaunchesAreSound, Escalates, Alive, helperVars, commandVars
  <1>1. LaunchTypeOK'
    BY DEF LaunchTypeOK
  <1>2. LaunchStages'
    BY DEF LaunchTypeOK, LaunchStages
  <1>3. Apartness'
    BY DEF LaunchTypeOK, LaunchStages, Apartness, HasPlace
  <1>4. WayIsFree'
    BY DEF LaunchTypeOK, LaunchStages, WayIsFree, Apartness, HasPlace
  <1>5. LockIsOwn'
    BY DEF LaunchTypeOK, LaunchStages, LockIsOwn, WayIsFree, Apartness, HasPlace
  <1>6. ClosesInPeace'
    BY DEF LaunchTypeOK, LaunchStages, ClosesInPeace, LockIsOwn
  <1>7. NoStudioForgotten'
    BY DEF LaunchTypeOK, LaunchStages, NoStudioForgotten, LoopDrains
  <1>8. LoopDrains'
    BY DEF LaunchTypeOK, LaunchStages, LoopDrains
  <1> QED BY <1>1, <1>2, <1>3, <1>4, <1>5, <1>6, <1>7, <1>8

\* A helper is stopped only after its Studio was named or given up.
LEMMA StopsHelperKeeps ==
  ASSUME LaunchInv, NEW l \in Launches, StopsHelper(l)
  PROVE  LaunchInv'
  <1> USE DEF LaunchInv, LaunchesAreSound, StopsHelper, Alive, commandVars, helperVars
  <1>1. LaunchTypeOK'
    BY DEF LaunchTypeOK
  <1>2. LaunchStages'
    BY DEF LaunchTypeOK, LaunchStages
  <1>3. Apartness'
    BY DEF LaunchTypeOK, LaunchStages, Apartness, HasPlace
  <1>4. WayIsFree'
    BY DEF LaunchTypeOK, LaunchStages, WayIsFree, Apartness, HasPlace
  <1>5. LockIsOwn'
    BY DEF LaunchTypeOK, LaunchStages, LockIsOwn, WayIsFree, Apartness, HasPlace
  <1>6. ClosesInPeace'
    BY DEF LaunchTypeOK, LaunchStages, ClosesInPeace, LockIsOwn
  <1>7. NoStudioForgotten'
    BY DEF LaunchTypeOK, LaunchStages, NoStudioForgotten, LoopDrains
  <1>8. LoopDrains'
    BY DEF LaunchTypeOK, LaunchStages, LoopDrains
  <1> QED BY <1>1, <1>2, <1>3, <1>4, <1>5, <1>6, <1>7, <1>8

\* Nothing holds the loop: the watch is over, so that a kill was asked for.
LEMMA ProcessEndsKeeps ==
  ASSUME LaunchInv, NEW l \in Launches, ProcessEnds(l)
  PROVE  LaunchInv'
  <1> USE DEF LaunchInv, LaunchesAreSound, ProcessEnds, HoldsLoop, helperVars, commandVars
  <1>1. LaunchTypeOK'
    BY DEF LaunchTypeOK
  <1>2. LaunchStages'
    BY DEF LaunchTypeOK, LaunchStages
  <1>3. Apartness'
    BY DEF LaunchTypeOK, LaunchStages, Apartness, HasPlace
  <1>4. WayIsFree'
    BY DEF LaunchTypeOK, LaunchStages, WayIsFree, Apartness, HasPlace
  <1>5. LockIsOwn'
    BY DEF LaunchTypeOK, LaunchStages, LockIsOwn, WayIsFree, Apartness, HasPlace
  <1>6. ClosesInPeace'
    BY DEF LaunchTypeOK, LaunchStages, ClosesInPeace, LockIsOwn
  <1>7. NoStudioForgotten'
    BY DEF LaunchTypeOK, LaunchStages, NoStudioForgotten, LoopDrains
  <1>8. LoopDrains'
    BY DEF LaunchTypeOK, LaunchStages, LoopDrains
  <1> QED BY <1>1, <1>2, <1>3, <1>4, <1>5, <1>6, <1>7, <1>8

\* A killed command line owes its Studio nothing.
LEMMA ProcessKilledKeeps ==
  ASSUME LaunchInv, NEW l \in Launches, ProcessKilled(l)
  PROVE  LaunchInv'
  <1> USE DEF LaunchInv, LaunchesAreSound, ProcessKilled, helperVars, commandVars
  <1>1. LaunchTypeOK'
    BY DEF LaunchTypeOK
  <1>2. LaunchStages'
    BY DEF LaunchTypeOK, LaunchStages
  <1>3. Apartness'
    BY DEF LaunchTypeOK, LaunchStages, Apartness, HasPlace
  <1>4. WayIsFree'
    BY DEF LaunchTypeOK, LaunchStages, WayIsFree, Apartness, HasPlace
  <1>5. LockIsOwn'
    BY DEF LaunchTypeOK, LaunchStages, LockIsOwn, WayIsFree, Apartness, HasPlace
  <1>6. ClosesInPeace'
    BY DEF LaunchTypeOK, LaunchStages, ClosesInPeace, LockIsOwn
  <1>7. NoStudioForgotten'
    BY DEF LaunchTypeOK, LaunchStages, NoStudioForgotten, LoopDrains
  <1>8. LoopDrains'
    BY DEF LaunchTypeOK, LaunchStages, LoopDrains
  <1> QED BY <1>1, <1>2, <1>3, <1>4, <1>5, <1>6, <1>7, <1>8

\* A helper's Studio is one the place was waiting for.
LEMMA HelperLaunchesKeeps ==
  ASSUME LaunchInv, NEW l \in Launches, HelperLaunches(l)
  PROVE  LaunchInv'
  <1> USE DEF LaunchInv, LaunchesAreSound, HelperLaunches, Runs, commandVars, helperVars
  <1>1. LaunchTypeOK'
    BY DEF LaunchTypeOK
  <1>2. LaunchStages'
    BY DEF LaunchTypeOK, LaunchStages
  <1>3. Apartness'
    BY DEF LaunchTypeOK, LaunchStages, Apartness, HasPlace
  <1>4. WayIsFree'
    BY DEF LaunchTypeOK, LaunchStages, WayIsFree, Apartness, HasPlace
  <1>5. LockIsOwn'
    BY DEF LaunchTypeOK, LaunchStages, LockIsOwn, WayIsFree, Apartness, HasPlace
  <1>6. ClosesInPeace'
    BY DEF LaunchTypeOK, LaunchStages, ClosesInPeace, LockIsOwn
  <1>7. NoStudioForgotten'
    BY DEF LaunchTypeOK, LaunchStages, NoStudioForgotten, LoopDrains
  <1>8. LoopDrains'
    BY DEF LaunchTypeOK, LaunchStages, LoopDrains
  <1> QED BY <1>1, <1>2, <1>3, <1>4, <1>5, <1>6, <1>7, <1>8

\* A pid is printed while its helper runs.
LEMMA HelperPrintsKeeps ==
  ASSUME LaunchInv, NEW l \in Launches, HelperPrints(l)
  PROVE  LaunchInv'
  <1> USE DEF LaunchInv, LaunchesAreSound, HelperPrints, Runs, commandVars, helperVars
  <1>1. LaunchTypeOK'
    BY DEF LaunchTypeOK
  <1>2. LaunchStages'
    BY DEF LaunchTypeOK, LaunchStages
  <1>3. Apartness'
    BY DEF LaunchTypeOK, LaunchStages, Apartness, HasPlace
  <1>4. WayIsFree'
    BY DEF LaunchTypeOK, LaunchStages, WayIsFree, Apartness, HasPlace
  <1>5. LockIsOwn'
    BY DEF LaunchTypeOK, LaunchStages, LockIsOwn, WayIsFree, Apartness, HasPlace
  <1>6. ClosesInPeace'
    BY DEF LaunchTypeOK, LaunchStages, ClosesInPeace, LockIsOwn
  <1>7. NoStudioForgotten'
    BY DEF LaunchTypeOK, LaunchStages, NoStudioForgotten, LoopDrains
  <1>8. LoopDrains'
    BY DEF LaunchTypeOK, LaunchStages, LoopDrains
  <1> QED BY <1>1, <1>2, <1>3, <1>4, <1>5, <1>6, <1>7, <1>8

\* A helper that launched nothing never will.
LEMMA HelperExitsKeeps ==
  ASSUME LaunchInv, NEW l \in Launches, HelperExits(l)
  PROVE  LaunchInv'
  <1> USE DEF LaunchInv, LaunchesAreSound, HelperExits, commandVars, helperVars
  <1>1. LaunchTypeOK'
    BY DEF LaunchTypeOK
  <1>2. LaunchStages'
    BY DEF LaunchTypeOK, LaunchStages
  <1>3. Apartness'
    BY DEF LaunchTypeOK, LaunchStages, Apartness, HasPlace
  <1>4. WayIsFree'
    BY DEF LaunchTypeOK, LaunchStages, WayIsFree, Apartness, HasPlace
  <1>5. LockIsOwn'
    BY DEF LaunchTypeOK, LaunchStages, LockIsOwn, WayIsFree, Apartness, HasPlace
  <1>6. ClosesInPeace'
    BY DEF LaunchTypeOK, LaunchStages, ClosesInPeace, LockIsOwn
  <1>7. NoStudioForgotten'
    BY DEF LaunchTypeOK, LaunchStages, NoStudioForgotten, LoopDrains
  <1>8. LoopDrains'
    BY DEF LaunchTypeOK, LaunchStages, LoopDrains
  <1> QED BY <1>1, <1>2, <1>3, <1>4, <1>5, <1>6, <1>7, <1>8

\* Studio writes its lock.
LEMMA OpensPlaceKeeps ==
  ASSUME LaunchInv, NEW l \in Launches, OpensPlace(l)
  PROVE  LaunchInv'
  <1> USE DEF LaunchInv, LaunchesAreSound, OpensPlace, StudioGoes, commandVars, helperVars
  <1>1. LaunchTypeOK'
    BY DEF LaunchTypeOK
  <1>2. LaunchStages'
    BY DEF LaunchTypeOK, LaunchStages
  <1>3. Apartness'
    BY DEF LaunchTypeOK, LaunchStages, Apartness, HasPlace
  <1>4. WayIsFree'
    BY DEF LaunchTypeOK, LaunchStages, WayIsFree, Apartness, HasPlace
  <1>5. LockIsOwn'
    BY DEF LaunchTypeOK, LaunchStages, LockIsOwn, WayIsFree, Apartness, HasPlace
  <1>6. ClosesInPeace'
    BY DEF LaunchTypeOK, LaunchStages, ClosesInPeace, LockIsOwn
  <1>7. NoStudioForgotten'
    BY DEF LaunchTypeOK, LaunchStages, NoStudioForgotten, LoopDrains
  <1>8. LoopDrains'
    BY DEF LaunchTypeOK, LaunchStages, LoopDrains
  <1> QED BY <1>1, <1>2, <1>3, <1>4, <1>5, <1>6, <1>7, <1>8

\* The lock stays while Studio runs its handlers.
LEMMA ClosesPlaceKeeps ==
  ASSUME LaunchInv, NEW l \in Launches, ClosesPlace(l)
  PROVE  LaunchInv'
  <1> USE DEF LaunchInv, LaunchesAreSound, ClosesPlace, StudioGoes, commandVars, helperVars
  <1>1. LaunchTypeOK'
    BY DEF LaunchTypeOK
  <1>2. LaunchStages'
    BY DEF LaunchTypeOK, LaunchStages
  <1>3. Apartness'
    BY DEF LaunchTypeOK, LaunchStages, Apartness, HasPlace
  <1>4. WayIsFree'
    BY DEF LaunchTypeOK, LaunchStages, WayIsFree, Apartness, HasPlace
  <1>5. LockIsOwn'
    BY DEF LaunchTypeOK, LaunchStages, LockIsOwn, WayIsFree, Apartness, HasPlace
  <1>6. ClosesInPeace'
    BY DEF LaunchTypeOK, LaunchStages, ClosesInPeace, LockIsOwn
  <1>7. NoStudioForgotten'
    BY DEF LaunchTypeOK, LaunchStages, NoStudioForgotten, LoopDrains
  <1>8. LoopDrains'
    BY DEF LaunchTypeOK, LaunchStages, LoopDrains
  <1> QED BY <1>1, <1>2, <1>3, <1>4, <1>5, <1>6, <1>7, <1>8

\* Studio takes its lock with it.
LEMMA FreesLockKeeps ==
  ASSUME LaunchInv, NEW l \in Launches, FreesLock(l)
  PROVE  LaunchInv'
  <1> USE DEF LaunchInv, LaunchesAreSound, FreesLock, StudioGoes, commandVars, helperVars
  <1>1. LaunchTypeOK'
    BY DEF LaunchTypeOK, NoLock
  <1>2. LaunchStages'
    BY DEF LaunchTypeOK, LaunchStages
  <1>3. Apartness'
    BY DEF LaunchTypeOK, LaunchStages, Apartness, HasPlace
  <1>4. WayIsFree'
    BY DEF LaunchTypeOK, LaunchStages, WayIsFree, Apartness, HasPlace
  <1>5. LockIsOwn'
    BY DEF LaunchTypeOK, LaunchStages, LockIsOwn, WayIsFree, Apartness, HasPlace
  <1>6. ClosesInPeace'
    BY DEF LaunchTypeOK, LaunchStages, ClosesInPeace, LockIsOwn
  <1>7. NoStudioForgotten'
    BY DEF LaunchTypeOK, LaunchStages, NoStudioForgotten, LoopDrains
  <1>8. LoopDrains'
    BY DEF LaunchTypeOK, LaunchStages, LoopDrains
  <1> QED BY <1>1, <1>2, <1>3, <1>4, <1>5, <1>6, <1>7, <1>8

\* A Studio that dies has let go of everything but its lock.
LEMMA StudioDiesKeeps ==
  ASSUME LaunchInv, NEW l \in Launches, StudioDies(l)
  PROVE  LaunchInv'
  <1> USE DEF LaunchInv, LaunchesAreSound, StudioDies, StudioGoes, commandVars, helperVars
  <1>1. LaunchTypeOK'
    BY DEF LaunchTypeOK
  <1>2. LaunchStages'
    BY DEF LaunchTypeOK, LaunchStages
  <1>3. Apartness'
    BY DEF LaunchTypeOK, LaunchStages, Apartness, HasPlace
  <1>4. WayIsFree'
    BY DEF LaunchTypeOK, LaunchStages, WayIsFree, Apartness, HasPlace
  <1>5. LockIsOwn'
    BY DEF LaunchTypeOK, LaunchStages, LockIsOwn, WayIsFree, Apartness, HasPlace
  <1>6. ClosesInPeace'
    BY DEF LaunchTypeOK, LaunchStages, ClosesInPeace, LockIsOwn
  <1>7. NoStudioForgotten'
    BY DEF LaunchTypeOK, LaunchStages, NoStudioForgotten, LoopDrains
  <1>8. LoopDrains'
    BY DEF LaunchTypeOK, LaunchStages, LoopDrains
  <1> QED BY <1>1, <1>2, <1>3, <1>4, <1>5, <1>6, <1>7, <1>8

LEMMA LaunchStep == LaunchInv /\ [LaunchNext]_launchVars => LaunchInv'
  <1> SUFFICES ASSUME LaunchInv, [LaunchNext]_launchVars PROVE LaunchInv'
    OBVIOUS
  <1>1. CASE UNCHANGED launchVars
    BY <1>1 DEF launchVars, commandVars, helperVars, LaunchInv, LaunchesAreSound, LaunchTypeOK,
       LockIsOwn, ClosesInPeace, NoStudioForgotten, LoopDrains, LaunchStages, Apartness, HasPlace,
       WayIsFree
  <1>2. ASSUME NEW l \in Launches, SetsUp(l) \/ Spawns(l) \/ NothingLaunched(l) \/ HearsPid(l)
        PROVE  LaunchInv'
    BY <1>2, SetsUpKeeps, SpawnsKeeps, NothingLaunchedKeeps, HearsPidKeeps
  <1>3. ASSUME NEW l \in Launches,
               WaitFails(l) \/ WaitAnswered(l) \/ GraceEnds(l) \/ LockPolled(l)
        PROVE  LaunchInv'
    BY <1>3, WaitFailsKeeps, WaitAnsweredKeeps, GraceEndsKeeps, LockPolledKeeps
  <1>4. ASSUME NEW l \in Launches,
               Escalates(l) \/ StopsHelper(l) \/ ProcessEnds(l) \/ ProcessKilled(l)
        PROVE  LaunchInv'
    BY <1>4, EscalatesKeeps, StopsHelperKeeps, ProcessEndsKeeps, ProcessKilledKeeps
  <1>5. ASSUME NEW l \in Launches, HelperLaunches(l) \/ HelperPrints(l) \/ HelperExits(l)
        PROVE  LaunchInv'
    BY <1>5, HelperLaunchesKeeps, HelperPrintsKeeps, HelperExitsKeeps
  <1>6. ASSUME NEW l \in Launches,
               OpensPlace(l) \/ ClosesPlace(l) \/ FreesLock(l) \/ StudioDies(l)
        PROVE  LaunchInv'
    BY <1>6, OpensPlaceKeeps, ClosesPlaceKeeps, FreesLockKeeps, StudioDiesKeeps
  <1> QED BY <1>1, <1>2, <1>3, <1>4, <1>5, <1>6 DEF LaunchNext

\* A Studio that has its place to itself opens it onto no stale lock and is given its
\* time after an answer, no Studio is forgotten, and nothing keeps a settled run's process:
\* for any number of command lines over one place, whenever they are killed.
THEOREM StudiosAreWoundDown == LaunchSpec => []LaunchesAreSound
  <1>1. LaunchInv => LaunchesAreSound
    BY DEF LaunchInv
  <1> QED BY LaunchStarts, LaunchStep, <1>1, PTL DEF LaunchSpec

(***************************************************************************)
(* CoverageCache: the shadow, the manifest and the place that one run of   *)
(* coverage leaves to the next.                                            *)
(*                                                                         *)
(* The manifest is written last, so that between runs it describes copies  *)
(* that no later run has touched; a run that has touched some has marked   *)
(* itself as having changed something, and must build.  What a place holds *)
(* follows from what the shadow held when it was built.                    *)
(***************************************************************************)

UnderWay == stage \in {"plan", "instrument", "mirror", "decide", "building", "write"}

\* Copies the manifest of the run, once written, vouches for.
Vouched(x) == x \notin stale \/ x \in touched

\* What the run holds is what it read and what it has done so far.
RunKnows ==
    /\ Exists(Input)
    /\ stage \notin {"instrument", "mirror", "decide", "building", "write"} => touched = {}
    /\ stage \in {"plan", "instrument", "mirror", "decide"} /\ touched # {} => changed
    /\ stage = "plan" => \A x \in InRoots : hash[x] = Absent
    /\ stage = "instrument" =>
         todo \cup touched \subseteq recipe /\ \A x \in InRoots \ recipe : hash[x] = Absent
    /\ stage = "mirror" => todo \cap recipe = {}
    /\ stage \in {"instrument", "mirror"} =>
         \A x \in todo : hash[x] = Absent /\ x \notin touched
    /\ UnderWay /\ ~edited => hash[Input] = source[Input] /\ \A x \in touched : Exists(x) \/ warm
    /\ stage \in {"building", "write"} => unrecorded

\* A warm run works from the manifest on disk, a cold one from nothing.
RunRests ==
    UnderWay => IF warm THEN manifest = prev /\ manifest.there /\ prev.recipe = recipe
                ELSE /\ ~manifest.there
                     /\ \A x \in InRoots \ touched : twin[x] = Nothing

\* The manifest the run will write describes the shadow as the one on disk does.
RunDescribes ==
    UnderWay => \A x \in InRoots : Vouched(x) /\ hash[x] # Absent /\ twin[x] # Nothing =>
                    twin[x] = IF x \in recipe THEN Probed(hash[x]) ELSE Plain(hash[x])

\* A map in the shadow is that of the probes beside it, or missing.
MapsFollow ==
    \A x \in Prod : Vouched(x) /\ twin[x].kind = "probed" => map[x] \in {Absent, twin[x].of}

\* The copy of x is the one a cold run would make.
Fresh(x) == twin[x] = Image(x) /\ (x \in recipe /\ Exists(x) => map[x] = source[x])

\* What the run has been through is as a cold run would have it.
ShadowFresh ==
    ~edited =>
      /\ stage = "instrument" => \A x \in recipe \ todo : Exists(x) /\ Vouched(x) => Fresh(x)
      /\ stage = "mirror" => \A x \in InRoots \ todo : Exists(x) /\ Vouched(x) => Fresh(x)
      /\ stage \in {"decide", "building", "write"} => \A x \in InRoots : Vouched(x) => Fresh(x)

\* The place, once whole, holds the shadow the manifest describes.
PlaceFollows ==
    /\ place[Input] = Torn => unrecorded
    /\ record.there => record.place[Input] # Torn
    /\ stage \in {"write", "built"} => place[Input] # Torn
    /\ stage = "write" => \A x \in InRoots : place[x] = twin[x]
    /\ stage = "write" /\ ~edited => place[Input] = Plain(source[Input])
    /\ manifest.there /\ place[Input] # Torn =>
         \A x \in InRoots \ (stale \cup touched) : place[x] = twin[x]
    /\ manifest.there /\ ~drifted /\ ~unrecorded => place[Input] = Plain(manifest.hash[Input])

CacheHeld == /\ RunKnows /\ RunRests /\ RunDescribes /\ MapsFollow /\ ShadowFresh /\ PlaceFollows
             /\ CacheInv

\* The kinds of copies are told apart, and each is a content.
LEMMA CopyKinds ==
  /\ Nothing \in Contents /\ Torn \in Contents /\ Nothing # Torn
  /\ \A v \in Versions \cup {Absent} :
       /\ Probed(v) \in Contents /\ Plain(v) \in Contents
       /\ Probed(v) # Nothing /\ Plain(v) # Nothing /\ Probed(v) # Torn /\ Plain(v) # Torn
  BY DEF Contents, Nothing, Torn, Probed, Plain

\* A run that wipes the shadow starts from nothing; one that keeps it starts from the manifest.
LEMMA BeginKeeps ==
  ASSUME CacheHeld, NEW r \in Recipes, Begin(r)
  PROVE  CacheHeld'
  <1> USE FilesAssumption, VersionsAssumption DEF CacheHeld, CacheInv, Begin, Wiped,
         CanReuseCoverageManifest, diskVars, runVars, ghostVars, bounds
  <1>1. TypeOK'
    <2>1. CASE warm'
      <3>1. hash' \in Hashes
        BY DEF TypeOK, Hashes, NoHashes
      <3> QED BY <2>1, <3>1 DEF TypeOK
    <2>2. CASE ~warm'
      <3>1. NoHashes \in Hashes
        BY DEF NoHashes, Hashes
      <3>2. [x \in Files |-> Nothing] \in [Files -> Contents]
        BY CopyKinds
      <3>3. NoManifest \in [there : BOOLEAN, recipe : SUBSET Prod, hash : Hashes]
        BY <3>1 DEF NoManifest
      <3>4. NoRecord \in [there : BOOLEAN, place : [Files -> Contents], hash : Hashes]
        BY <3>1, <3>2 DEF NoRecord, NoPlace
      <3>5. hash' \in Hashes
        BY DEF TypeOK, Hashes, NoHashes
      <3>6. twin' \in [InRoots -> Contents] /\ map' \in [Prod -> Versions \cup {Absent}]
        BY <2>2, CopyKinds
      <3> QED BY <2>2, <3>3, <3>4, <3>5, <3>6 DEF TypeOK
    <2> QED BY <2>1, <2>2
  <1>2. RunKnows'
    BY DEF RunKnows, Files, NoHashes, Exists
  <1>3. RunRests'
    <2>1. CASE warm'
      BY <2>1 DEF RunRests
    <2>2. CASE ~warm'
      BY <2>2 DEF RunRests, NoManifest
    <2> QED BY <2>1, <2>2
  <1>4. RunDescribes'
    <2>1. \A x \in InRoots : hash'[x] = Absent
      BY DEF NoHashes, Files
    <2> QED BY <2>1 DEF RunDescribes
  <1>5. MapsFollow'
    BY DEF MapsFollow, Vouched
  <1>6. ShadowFresh'
    BY DEF ShadowFresh
  <1>7. PlaceFollows'
    <2>1. CASE warm'
      BY <2>1 DEF PlaceFollows, RunKnows
    <2>2. CASE ~warm'
      BY <2>2 DEF PlaceFollows, NoManifest, NoRecord
    <2> QED BY <2>1, <2>2
  <1>8. ManifestDescribesShadow'
    <2>1. CASE warm'
      BY <2>1 DEF ManifestDescribesShadow, RunKnows
    <2>2. CASE ~warm'
      BY <2>2 DEF ManifestDescribesShadow
    <2> QED BY <2>1, <2>2
  <1>9. PlaceIsCurrent'
    BY DEF PlaceIsCurrent, Ready
  <1>10. MapsMatchPlace'
    BY DEF MapsMatchPlace, Ready
  <1> QED BY <1>1, <1>2, <1>3, <1>4, <1>5, <1>6, <1>7, <1>8, <1>9, <1>10

\* A file that is skipped is one the manifest describes.
LEMMA PlanKeeps ==
  ASSUME CacheHeld, Plan
  PROVE  CacheHeld'
  <1> USE FilesAssumption, VersionsAssumption DEF CacheHeld, CacheInv, Plan, SkipFiles,
         Instrumentable, Recorded, diskVars, runVars, ghostVars, bounds
  <1>1. TypeOK'
    BY DEF TypeOK, Hashes, InRoots
  <1>2. RunKnows'
    BY DEF TypeOK, RunKnows, RunRests, UnderWay, InRoots, Files, Exists
  <1>3. RunRests'
    BY DEF RunRests, UnderWay
  <1>4. RunDescribes'
    BY DEF RunDescribes, RunRests, RunKnows, UnderWay, Vouched, ManifestDescribesShadow, Files
  <1>5. MapsFollow'
    BY DEF MapsFollow, Vouched
  <1>6. ShadowFresh'
    <2> SUFFICES ASSUME ~edited, NEW x \in recipe \ todo', Exists(x), x \notin stale
                 PROVE  Fresh(x)
      BY DEF ShadowFresh, RunKnows, Vouched, Fresh, Image, Exists
    <2>1. /\ warm /\ x \in Prod /\ x \in prev.recipe /\ source[x] = prev.hash[x]
          /\ prev.hash[x] # Absent /\ twin[x] # Nothing /\ map[x] # Absent
      OBVIOUS
    <2>2. twin[x] = Probed(source[x])
      BY <2>1 DEF RunRests, UnderWay, ManifestDescribesShadow, RunKnows, InRoots
    <2>3. map[x] = source[x]
      BY <2>1, <2>2 DEF MapsFollow, Vouched, Probed
    <2> QED BY <2>2, <2>3 DEF Fresh, Image
  <1>7. PlaceFollows'
    BY DEF PlaceFollows
  <1>8. ManifestDescribesShadow'
    BY DEF ManifestDescribesShadow
  <1>9. PlaceIsCurrent'
    BY DEF PlaceIsCurrent, Ready
  <1>10. MapsMatchPlace'
    BY DEF MapsMatchPlace, Ready
  <1> QED BY <1>1, <1>2, <1>3, <1>4, <1>5, <1>6, <1>7, <1>8, <1>9, <1>10

\* A twin and its map are of one read.
LEMMA InstrumentFileKeeps ==
  ASSUME CacheHeld, NEW x \in Prod, InstrumentFile(x)
  PROVE  CacheHeld'
  <1> USE FilesAssumption, VersionsAssumption DEF CacheHeld, CacheInv, InstrumentFile, diskVars,
         runVars, ghostVars, bounds
  <1>1. TypeOK'
    BY DEF TypeOK, Contents, Hashes, Probed, Files
  <1>2. RunKnows'
    BY DEF RunKnows, UnderWay, Exists
  <1>3. RunRests'
    BY DEF RunRests, UnderWay
  <1>4. RunDescribes'
    BY DEF TypeOK, RunDescribes, RunKnows, UnderWay, Vouched
  <1>5. MapsFollow'
    BY DEF TypeOK, MapsFollow, Vouched, Probed
  <1>6. ShadowFresh'
    BY DEF TypeOK, ShadowFresh, Fresh, Image, Vouched, Exists
  <1>7. PlaceFollows'
    BY DEF PlaceFollows
  <1>8. ManifestDescribesShadow'
    BY DEF ManifestDescribesShadow
  <1>9. PlaceIsCurrent'
    BY DEF PlaceIsCurrent, Ready
  <1>10. MapsMatchPlace'
    BY DEF MapsMatchPlace, Ready
  <1> QED BY <1>1, <1>2, <1>3, <1>4, <1>5, <1>6, <1>7, <1>8, <1>9, <1>10

\* The mirror's files are those the options have not probed.
LEMMA InstrumentedKeeps ==
  ASSUME CacheHeld, Instrumented
  PROVE  CacheHeld'
  <1> USE FilesAssumption, VersionsAssumption DEF CacheHeld, CacheInv, Instrumented, diskVars,
         runVars, ghostVars, bounds
  <1>1. TypeOK'
    BY DEF TypeOK
  <1>2. RunKnows'
    BY DEF RunKnows, UnderWay, Exists
  <1>3. RunRests'
    BY DEF RunRests, UnderWay
  <1>4. RunDescribes'
    BY DEF RunDescribes, UnderWay, Vouched
  <1>5. MapsFollow'
    BY DEF MapsFollow, Vouched
  <1>6. ShadowFresh'
    BY DEF ShadowFresh, Fresh, Image, Vouched, Exists
  <1>7. PlaceFollows'
    BY DEF PlaceFollows
  <1>8. ManifestDescribesShadow'
    BY DEF ManifestDescribesShadow
  <1>9. PlaceIsCurrent'
    BY DEF PlaceIsCurrent, Ready
  <1>10. MapsMatchPlace'
    BY DEF MapsMatchPlace, Ready
  <1> QED BY <1>1, <1>2, <1>3, <1>4, <1>5, <1>6, <1>7, <1>8, <1>9, <1>10

\* A copy that is carried forward is one the manifest describes.
LEMMA SyncOneFileKeeps ==
  ASSUME CacheHeld, NEW x \in InRoots, SyncOneFile(x)
  PROVE  CacheHeld'
  <1> USE FilesAssumption, VersionsAssumption DEF CacheHeld, CacheInv, SyncOneFile,
         CarriesForward, diskVars, runVars, ghostVars, bounds
  <1>1. TypeOK'
    <2>1. Plain(source[x]) \in Contents
      BY CopyKinds DEF TypeOK, Hashes, Files
    <2>2. hash' \in Hashes
      BY DEF TypeOK, Hashes
    <2>3. twin' \in [InRoots -> Contents]
      BY <2>1 DEF TypeOK
    <2>4. changed' \in BOOLEAN /\ touched' \subseteq InRoots /\ todo' \subseteq InRoots
      BY DEF TypeOK
    <2> QED BY <2>2, <2>3, <2>4 DEF TypeOK
  <1>2. RunKnows'
    BY DEF RunKnows, UnderWay, Exists
  <1>3. RunRests'
    BY DEF TypeOK, RunRests, UnderWay
  <1>4. RunDescribes'
    BY DEF TypeOK, RunDescribes, RunRests, RunKnows, UnderWay, Vouched, ManifestDescribesShadow
  <1>5. MapsFollow'
    BY DEF TypeOK, MapsFollow, Vouched, Plain, InRoots
  <1>6. ShadowFresh'
    BY DEF TypeOK, ShadowFresh, Fresh, Image, Vouched, RunRests, RunKnows, UnderWay,
       ManifestDescribesShadow, Exists
  <1>7. PlaceFollows'
    BY DEF TypeOK, PlaceFollows
  <1>8. ManifestDescribesShadow'
    BY DEF TypeOK, ManifestDescribesShadow
  <1>9. PlaceIsCurrent'
    BY DEF PlaceIsCurrent, Ready
  <1>10. MapsMatchPlace'
    BY DEF MapsMatchPlace, Ready
  <1> QED BY <1>1, <1>2, <1>3, <1>4, <1>5, <1>6, <1>7, <1>8, <1>9, <1>10

\* What has no source goes.
LEMMA ReconcileKeeps ==
  ASSUME CacheHeld, Reconcile
  PROVE  CacheHeld'
  <1> USE FilesAssumption, VersionsAssumption DEF CacheHeld, CacheInv, Reconcile, Orphans,
         diskVars, runVars, ghostVars, bounds
  <1>1. TypeOK'
    BY DEF TypeOK, Contents, Nothing
  <1>2. RunKnows'
    BY DEF RunKnows, UnderWay, Exists
  <1>3. RunRests'
    BY DEF RunRests, UnderWay
  <1>4. RunDescribes'
    <2> SUFFICES ASSUME NEW x \in InRoots, Vouched(x)', hash[x] # Absent, twin'[x] # Nothing
                 PROVE  twin'[x] = IF x \in recipe THEN Probed(hash[x]) ELSE Plain(hash[x])
      BY DEF RunDescribes
    <2>1. twin'[x] = twin[x]
      OBVIOUS
    <2>2. Vouched(x)
      BY <2>1 DEF Vouched
    <2> QED BY <2>1, <2>2 DEF RunDescribes, UnderWay
  <1>5. MapsFollow'
    BY DEF MapsFollow, Vouched, InRoots
  <1>6. ShadowFresh'
    BY DEF TypeOK, ShadowFresh, Fresh, Image, Vouched, RunRests, RunKnows, UnderWay, Exists
  <1>7. PlaceFollows'
    BY DEF PlaceFollows
  <1>8. ManifestDescribesShadow'
    BY DEF ManifestDescribesShadow
  <1>9. PlaceIsCurrent'
    BY DEF PlaceIsCurrent, Ready
  <1>10. MapsMatchPlace'
    BY DEF MapsMatchPlace, Ready
  <1> QED BY <1>1, <1>2, <1>3, <1>4, <1>5, <1>6, <1>7, <1>8, <1>9, <1>10

\* A place is reused when the shadow it holds has not changed.
LEMMA ReuseKeeps ==
  ASSUME CacheHeld, Reuse
  PROVE  CacheHeld'
  <1> USE FilesAssumption, VersionsAssumption DEF CacheHeld, CacheInv, Reuse, HasCoverageChanges,
         PriorPlaceIsReusable, RecordHolds, diskVars, runVars, ghostVars, bounds
  <1>1. TypeOK'
    BY DEF TypeOK
  <1>2. RunKnows'
    BY DEF RunKnows, UnderWay, Exists
  <1>3. RunRests'
    BY DEF RunRests, UnderWay
  <1>4. RunDescribes'
    BY DEF RunDescribes, UnderWay
  <1>5. MapsFollow'
    BY DEF MapsFollow, Vouched
  <1>6. ShadowFresh'
    BY DEF ShadowFresh
  <1>7. PlaceFollows'
    BY DEF PlaceFollows
  <1>8. ManifestDescribesShadow'
    BY DEF ManifestDescribesShadow
  <1>9. PlaceIsCurrent'
    <2> SUFFICES ASSUME ~edited, ~Unvouched', NEW x \in Files \ stale,
                        ~(x = Input /\ (drifted \/ unrecorded))
                 PROVE  place[x] = Image(x)
      BY DEF PlaceIsCurrent, Image, Exists
    <2>1. warm /\ ~changed /\ manifest = prev /\ manifest.there /\ prev.hash[Input] = hash[Input]
      BY DEF RunRests, UnderWay
    <2>2. touched = {}
      BY <2>1 DEF RunKnows
    <2>3. place[Input] # Torn
      BY DEF PlaceFollows, Unvouched
    <2>4. CASE x = Input
      BY <2>1, <2>2, <2>4 DEF PlaceFollows, RunKnows, UnderWay, Image, TypeOK, InRoots
    <2>5. CASE x \in InRoots
      <3>1. place[x] = twin[x]
        BY <2>1, <2>2, <2>3, <2>5 DEF PlaceFollows
      <3>2. twin[x] = Image(x)
        BY <2>5 DEF ShadowFresh, Fresh, Vouched
      <3> QED BY <3>1, <3>2
    <2> QED BY <2>4, <2>5 DEF Files
  <1>10. MapsMatchPlace'
    <2> SUFFICES ASSUME ~edited, ~Unvouched', NEW x \in recipe \ stale, Exists(x)
                 PROVE  place[x] = Probed(map[x])
      BY DEF MapsMatchPlace, Exists
    <2>1. x \in Files /\ x \in InRoots /\ x # Input
      BY DEF TypeOK, Files, InRoots
    <2>2. place[x] = Image(x)
      BY <1>9, <2>1 DEF PlaceIsCurrent, Ready, Image, Exists
    <2>3. touched = {}
      BY DEF RunKnows, RunRests, UnderWay
    <2>4. map[x] = source[x]
      BY <2>1, <2>3 DEF ShadowFresh, Fresh, Vouched
    <2> QED BY <2>2, <2>4 DEF Image, Exists
  <1> QED BY <1>1, <1>2, <1>3, <1>4, <1>5, <1>6, <1>7, <1>8, <1>9, <1>10

\* A build under way is on no record.
LEMMA BuildKeeps ==
  ASSUME CacheHeld, Build
  PROVE  CacheHeld'
  <1> USE FilesAssumption, VersionsAssumption DEF CacheHeld, CacheInv, Build, MustBuild,
         HalfPlace, diskVars, runVars, ghostVars, bounds
  <1>1. TypeOK'
    BY DEF TypeOK, Contents, Torn
  <1>2. RunKnows'
    BY DEF RunKnows, UnderWay, Exists
  <1>3. RunRests'
    BY DEF RunRests, UnderWay
  <1>4. RunDescribes'
    BY DEF RunDescribes, UnderWay, Vouched
  <1>5. MapsFollow'
    BY DEF MapsFollow, Vouched
  <1>6. ShadowFresh'
    BY DEF ShadowFresh, Fresh, Image, Vouched, Exists
  <1>7. PlaceFollows'
    BY DEF PlaceFollows, Files
  <1>8. ManifestDescribesShadow'
    BY DEF ManifestDescribesShadow
  <1>9. PlaceIsCurrent'
    BY DEF PlaceIsCurrent, Ready
  <1>10. MapsMatchPlace'
    BY DEF MapsMatchPlace, Ready
  <1> QED BY <1>1, <1>2, <1>3, <1>4, <1>5, <1>6, <1>7, <1>8, <1>9, <1>10

\* The place holds the shadow.
LEMMA BuildEndsKeeps ==
  ASSUME CacheHeld, BuildEnds
  PROVE  CacheHeld'
  <1> USE FilesAssumption, VersionsAssumption DEF CacheHeld, CacheInv, BuildEnds, Built, diskVars,
         runVars, ghostVars, bounds
  <1>1. TypeOK'
    BY DEF TypeOK, Contents, Hashes, Plain, Files
  <1>2. RunKnows'
    BY DEF RunKnows, UnderWay, Exists
  <1>3. RunRests'
    BY DEF RunRests, UnderWay
  <1>4. RunDescribes'
    BY DEF RunDescribes, UnderWay, Vouched
  <1>5. MapsFollow'
    BY DEF MapsFollow, Vouched
  <1>6. ShadowFresh'
    BY DEF ShadowFresh, Fresh, Image, Vouched, Exists
  <1>7. PlaceFollows'
    BY DEF PlaceFollows, RunKnows, Plain, Torn, Files
  <1>8. ManifestDescribesShadow'
    BY DEF ManifestDescribesShadow
  <1>9. PlaceIsCurrent'
    BY DEF PlaceIsCurrent, Ready
  <1>10. MapsMatchPlace'
    BY DEF MapsMatchPlace, Ready
  <1> QED BY <1>1, <1>2, <1>3, <1>4, <1>5, <1>6, <1>7, <1>8, <1>9, <1>10

\* The manifest vouches for what the run has written.
LEMMA WriteManifestKeeps ==
  ASSUME CacheHeld, WriteManifest
  PROVE  CacheHeld'
  <1> USE FilesAssumption, VersionsAssumption DEF CacheHeld, CacheInv, WriteManifest, Manifest,
         diskVars, runVars, ghostVars, bounds
  <1>1. TypeOK'
    <2>1. manifest' \in [there : BOOLEAN, recipe : SUBSET Prod, hash : Hashes]
      BY DEF TypeOK
    <2> QED BY <2>1 DEF TypeOK
  <1>2. RunKnows'
    BY DEF RunKnows, UnderWay, Exists
  <1>3. RunRests'
    BY DEF RunRests, UnderWay
  <1>4. RunDescribes'
    BY DEF RunDescribes, UnderWay
  <1>5. MapsFollow'
    BY DEF MapsFollow, Vouched
  <1>6. ShadowFresh'
    BY DEF ShadowFresh
  <1>7. PlaceFollows'
    BY DEF PlaceFollows
  <1>8. ManifestDescribesShadow'
    BY DEF ManifestDescribesShadow, RunDescribes, Vouched, UnderWay
  <1>9. PlaceIsCurrent'
    <2> SUFFICES ASSUME ~edited, NEW x \in Files \ stale' PROVE place[x] = Image(x)
      BY DEF PlaceIsCurrent, Image, Exists
    <2>1. CASE x = Input
      BY <2>1 DEF PlaceFollows, RunKnows, Image, TypeOK, InRoots
    <2>2. CASE x \in InRoots
      BY <2>2 DEF PlaceFollows, ShadowFresh, Fresh, Vouched
    <2> QED BY <2>1, <2>2 DEF Files
  <1>10. MapsMatchPlace'
    BY DEF TypeOK, MapsMatchPlace, Image, Exists, PlaceFollows, ShadowFresh, Fresh, Vouched,
       InRoots
  <1> QED BY <1>1, <1>2, <1>3, <1>4, <1>5, <1>6, <1>7, <1>8, <1>9, <1>10

\* The record is of the place that was built.
LEMMA EmitBuildManifestKeeps ==
  ASSUME CacheHeld, EmitBuildManifest
  PROVE  CacheHeld'
  <1> USE FilesAssumption, VersionsAssumption DEF CacheHeld, CacheInv, EmitBuildManifest, Ready,
         diskVars, runVars, ghostVars, bounds
  <1>1. TypeOK'
    BY DEF TypeOK, Hashes
  <1>2. RunKnows'
    BY DEF RunKnows, UnderWay, Exists
  <1>3. RunRests'
    BY DEF RunRests, UnderWay
  <1>4. RunDescribes'
    BY DEF RunDescribes, UnderWay
  <1>5. MapsFollow'
    BY DEF MapsFollow, Vouched
  <1>6. ShadowFresh'
    BY DEF ShadowFresh
  <1>7. PlaceFollows'
    BY DEF PlaceFollows
  <1>8. ManifestDescribesShadow'
    BY DEF ManifestDescribesShadow
  <1>9. PlaceIsCurrent'
    BY DEF PlaceIsCurrent
  <1>10. MapsMatchPlace'
    BY DEF MapsMatchPlace
  <1> QED BY <1>1, <1>2, <1>3, <1>4, <1>5, <1>6, <1>7, <1>8, <1>9, <1>10

\* A run that ends early leaves its copies unvouched for.
LEMMA ThrowsKeeps ==
  ASSUME CacheHeld, Throws
  PROVE  CacheHeld'
  <1> USE FilesAssumption, VersionsAssumption DEF CacheHeld, CacheInv, Throws, Ends, diskVars,
         runVars, ghostVars, bounds
  <1>1. TypeOK'
    BY DEF TypeOK
  <1>2. RunKnows'
    BY DEF RunKnows, UnderWay, Exists
  <1>3. RunRests'
    BY DEF RunRests, UnderWay
  <1>4. RunDescribes'
    BY DEF RunDescribes, UnderWay
  <1>5. MapsFollow'
    BY DEF MapsFollow, Vouched
  <1>6. ShadowFresh'
    BY DEF ShadowFresh
  <1>7. PlaceFollows'
    BY DEF PlaceFollows
  <1>8. ManifestDescribesShadow'
    BY DEF ManifestDescribesShadow
  <1>9. PlaceIsCurrent'
    BY DEF PlaceIsCurrent, Ready
  <1>10. MapsMatchPlace'
    BY DEF MapsMatchPlace, Ready
  <1> QED BY <1>1, <1>2, <1>3, <1>4, <1>5, <1>6, <1>7, <1>8, <1>9, <1>10

\* So does one that is stopped.
LEMMA StopKeeps ==
  ASSUME CacheHeld, Stop
  PROVE  CacheHeld'
  <1> USE FilesAssumption, VersionsAssumption DEF CacheHeld, CacheInv, Stop, Stops, Ends,
         diskVars, runVars, ghostVars, bounds
  <1>1. TypeOK'
    BY DEF TypeOK
  <1>2. RunKnows'
    BY DEF RunKnows, UnderWay, Exists
  <1>3. RunRests'
    BY DEF RunRests, UnderWay
  <1>4. RunDescribes'
    BY DEF RunDescribes, UnderWay
  <1>5. MapsFollow'
    BY DEF MapsFollow, Vouched
  <1>6. ShadowFresh'
    BY DEF ShadowFresh
  <1>7. PlaceFollows'
    BY DEF PlaceFollows
  <1>8. ManifestDescribesShadow'
    BY DEF ManifestDescribesShadow
  <1>9. PlaceIsCurrent'
    BY DEF PlaceIsCurrent, Ready
  <1>10. MapsMatchPlace'
    BY DEF MapsMatchPlace, Ready
  <1> QED BY <1>1, <1>2, <1>3, <1>4, <1>5, <1>6, <1>7, <1>8, <1>9, <1>10

\* A torn copy is vouched for by nothing.
LEMMA StopWritingKeeps ==
  ASSUME CacheHeld, NEW x \in InRoots, StopWriting(x)
  PROVE  CacheHeld'
  <1> USE FilesAssumption, VersionsAssumption DEF CacheHeld, CacheInv, StopWriting, Stops, Ends,
         diskVars, runVars, ghostVars, bounds
  <1>1. TypeOK'
    <2>1. Probed(source[x]) \in Contents /\ Torn \in Contents
      BY CopyKinds DEF TypeOK, Hashes, Files
    <2>2. twin' \in [InRoots -> Contents]
      BY <2>1 DEF TypeOK
    <2>3. touched' \subseteq InRoots /\ stale' \subseteq InRoots /\ settled' \in BOOLEAN
      BY DEF TypeOK
    <2> QED BY <2>2, <2>3 DEF TypeOK
  <1>2. RunKnows'
    BY DEF RunKnows, UnderWay, Exists
  <1>3. RunRests'
    BY DEF RunRests, UnderWay
  <1>4. RunDescribes'
    BY DEF RunDescribes, UnderWay
  <1>5. MapsFollow'
    BY DEF TypeOK, MapsFollow, Vouched, InRoots
  <1>6. ShadowFresh'
    BY DEF ShadowFresh
  <1>7. PlaceFollows'
    BY DEF TypeOK, PlaceFollows
  <1>8. ManifestDescribesShadow'
    BY DEF TypeOK, ManifestDescribesShadow
  <1>9. PlaceIsCurrent'
    BY DEF PlaceIsCurrent, Ready
  <1>10. MapsMatchPlace'
    BY DEF MapsMatchPlace, Ready
  <1> QED BY <1>1, <1>2, <1>3, <1>4, <1>5, <1>6, <1>7, <1>8, <1>9, <1>10

\* What is left of a shadow is as it was.
LEMMA StopWipingKeeps ==
  ASSUME CacheHeld, NEW r \in Recipes, StopWiping(r)
  PROVE  CacheHeld'
  <1> USE FilesAssumption, VersionsAssumption DEF CacheHeld, CacheInv, StopWiping, Stops,
         diskVars, runVars, ghostVars, bounds
  <1>1. TypeOK'
    <2>1. NoManifest \in [there : BOOLEAN, recipe : SUBSET Prod, hash : Hashes]
      BY DEF NoManifest, NoHashes, Hashes
    <2>2. NoRecord \in [there : BOOLEAN, place : [Files -> Contents], hash : Hashes]
      BY CopyKinds DEF NoRecord, NoPlace, NoHashes, Hashes
    <2>3. twin' \in [InRoots -> Contents]
      BY CopyKinds DEF TypeOK
    <2>4. map' \in [Prod -> Versions \cup {Absent}]
      BY DEF TypeOK
    <2>5. manifest' \in [there : BOOLEAN, recipe : SUBSET Prod, hash : Hashes]
      BY <2>1 DEF TypeOK
    <2>6. record' \in [there : BOOLEAN, place : [Files -> Contents], hash : Hashes]
      BY <2>2 DEF TypeOK
    <2> QED BY <2>3, <2>4, <2>5, <2>6 DEF TypeOK
  <1>2. RunKnows'
    BY DEF RunKnows, UnderWay, Exists
  <1>3. RunRests'
    BY DEF RunRests, UnderWay
  <1>4. RunDescribes'
    BY DEF RunDescribes, UnderWay
  <1>5. MapsFollow'
    BY DEF MapsFollow, RunKnows, Vouched, InRoots
  <1>6. ShadowFresh'
    BY DEF ShadowFresh
  <1>7. PlaceFollows'
    BY DEF PlaceFollows, NoManifest, NoRecord
  <1>8. ManifestDescribesShadow'
    BY DEF ManifestDescribesShadow, NoManifest
  <1>9. PlaceIsCurrent'
    BY DEF PlaceIsCurrent, Ready
  <1>10. MapsMatchPlace'
    BY DEF MapsMatchPlace, Ready
  <1> QED BY <1>1, <1>2, <1>3, <1>4, <1>5, <1>6, <1>7, <1>8, <1>9, <1>10

\* An edit in the middle of a run is noted.
LEMMA EditKeeps ==
  ASSUME CacheHeld, NEW x \in Files, NEW v \in Versions \cup {Absent}, Edit(x, v)
  PROVE  CacheHeld'
  <1> USE FilesAssumption, VersionsAssumption DEF CacheHeld, CacheInv, Edit, diskVars, runVars,
         ghostVars, bounds
  <1>1. TypeOK'
    BY DEF TypeOK, Hashes
  <1>2. RunKnows'
    BY DEF TypeOK, RunKnows, UnderWay, Files, Exists, Hashes
  <1>3. RunRests'
    BY DEF RunRests, UnderWay
  <1>4. RunDescribes'
    BY DEF RunDescribes, UnderWay, Vouched
  <1>5. MapsFollow'
    BY DEF MapsFollow, Vouched
  <1>6. ShadowFresh'
    BY DEF ShadowFresh
  <1>7. PlaceFollows'
    BY DEF PlaceFollows
  <1>8. ManifestDescribesShadow'
    BY DEF ManifestDescribesShadow
  <1>9. PlaceIsCurrent'
    BY DEF PlaceIsCurrent, Ready
  <1>10. MapsMatchPlace'
    BY DEF MapsMatchPlace, Ready
  <1> QED BY <1>1, <1>2, <1>3, <1>4, <1>5, <1>6, <1>7, <1>8, <1>9, <1>10

\* Nothing was instrumented or built yet.
LEMMA CacheStarts == Init => CacheHeld
  <1> SUFFICES ASSUME Init PROVE CacheHeld
    OBVIOUS
  <1> USE FilesAssumption, VersionsAssumption
  <1>1. NoHashes \in Hashes /\ [x \in Files |-> Nothing] \in [Files -> Contents]
    BY CopyKinds DEF NoHashes, Hashes
  <1>2. TypeOK
    <2>1. source \in Hashes
      BY DEF Init, Hashes
    <2>2. NoManifest \in [there : BOOLEAN, recipe : SUBSET Prod, hash : Hashes]
      BY <1>1 DEF NoManifest
    <2>3. NoRecord \in [there : BOOLEAN, place : [Files -> Contents], hash : Hashes]
      BY <1>1 DEF NoRecord, NoPlace
    <2>4. twin \in [InRoots -> Contents] /\ map \in [Prod -> Versions \cup {Absent}]
      BY CopyKinds DEF Init
    <2>5. place \in [Files -> Contents]
      BY <1>1 DEF Init, NoPlace
    <2> QED BY <1>1, <2>1, <2>2, <2>3, <2>4, <2>5 DEF Init, TypeOK
  <1>3. RunKnows /\ RunRests /\ RunDescribes /\ ShadowFresh
    BY DEF Init, RunKnows, RunRests, RunDescribes, ShadowFresh, UnderWay, Exists, Files
  <1>4. MapsFollow
    BY DEF Init, MapsFollow
  <1>5. PlaceFollows
    BY DEF Init, PlaceFollows, NoPlace, NoRecord, NoManifest, Nothing, Torn, Files
  <1>6. CacheInv
    BY <1>2 DEF Init, CacheInv, ManifestDescribesShadow, PlaceIsCurrent, MapsMatchPlace, Ready
  <1> QED BY <1>3, <1>4, <1>5, <1>6 DEF CacheHeld

\* So every step of every run, edit and interruption keeps it.
LEMMA CacheStep == CacheHeld /\ [Next]_vars => CacheHeld'
  <1> SUFFICES ASSUME CacheHeld, [Next]_vars PROVE CacheHeld'
    OBVIOUS
  <1>1. CASE UNCHANGED vars
    BY <1>1 DEF vars, diskVars, runVars, ghostVars, CacheHeld, CacheInv, TypeOK, RunKnows,
       RunRests, RunDescribes, MapsFollow, ShadowFresh, PlaceFollows, UnderWay, Vouched, Fresh,
       Image, Exists, Ready, Unvouched, ManifestDescribesShadow, PlaceIsCurrent, MapsMatchPlace
  <1>2. CASE Next
    BY <1>2, EditKeeps, BeginKeeps, StopWipingKeeps, PlanKeeps, InstrumentFileKeeps,
       InstrumentedKeeps, SyncOneFileKeeps, StopWritingKeeps, ReconcileKeeps, ReuseKeeps,
       BuildKeeps, BuildEndsKeeps, WriteManifestKeeps, EmitBuildManifestKeeps, ThrowsKeeps,
       StopKeeps DEF Next
  <1> QED BY <1>1, <1>2

\* A place that is handed on holds every file as a cold run would put it there, every
\* probe reports into the map of the source it was made from, and the manifest on disk
\* describes the shadow: for any files, options, edits and interruptions.
THEOREM CacheIsSound == Spec => []CacheInv
  <1>1. CacheHeld => CacheInv
    BY DEF CacheHeld
  <1> QED BY <1>1, CacheStarts, CacheStep, PTL DEF Spec

-----------------------------------------------------------------------------
(* Runs that find everything as it was left.                               *)

\* For a run of these options nothing is left to do, but for the place.
NothingToDo ==
    /\ manifest.there /\ manifest.hash[Input] = source[Input]
    /\ \A x \in manifest.recipe : manifest.hash[x] = source[x] /\ (Exists(x) => map[x] # Absent)
    /\ \A x \in InRoots : /\ Exists(x) <=> twin[x] # Nothing
                          /\ Exists(x) => manifest.hash[x] = source[x]

\* What the run will record is what there is.
HashesFresh ==
    UnderWay /\ ~edited =>
      /\ stage # "plan" => \A x \in recipe \ todo :
           /\ hash[x] = source[x]
           /\ Exists(x) => map[x] # Absent /\ twin[x] # Nothing
           /\ warm /\ ~changed => prev.hash[x] = source[x]
      /\ stage = "instrument" => todo \subseteq Instrumentable
      /\ stage \in {"mirror", "decide", "building", "write"} =>
           \A x \in InRoots \ todo : Exists(x) =>
              /\ hash[x] = source[x] /\ twin[x] # Nothing
              /\ warm /\ ~changed => prev.hash[x] = source[x]
      /\ stage \in {"decide", "building", "write"} =>
           todo = {} /\ \A x \in InRoots : twin[x] # Nothing => Exists(x)

\* The settled run is the last one that touched anything.
SettledHolds ==
    /\ stage = "write" => place # NoPlace
    /\ Ready /\ ~edited => NothingToDo /\ place # NoPlace
    /\ stage = "reused" /\ ~edited /\ record.there => RecordHolds
    /\ stage = "built" /\ ~edited => manifest.recipe = recipe /\ manifest.hash = hash
    /\ settled => /\ NothingToDo /\ PriorPlaceIsReusable
                  /\ stage \in {"idle", "plan", "instrument", "mirror", "decide", "reused"}
                  /\ stage # "idle" => ~edited
                  /\ UnderWay => warm
                  /\ stage \in {"plan", "instrument", "mirror", "decide"} => ~changed
                  /\ stage = "instrument" => todo = {}

SettledInv == CacheHeld /\ HashesFresh /\ SettledHolds

\* A run whose options settled it before starts warm, from what it left.
LEMMA BeginSettles ==
  ASSUME SettledInv, NEW r \in Recipes, Begin(r)
  PROVE  HashesFresh' /\ SettledHolds'
  <1> USE FilesAssumption, VersionsAssumption DEF SettledInv, CacheHeld, CacheInv, Begin, Wiped,
         CanReuseCoverageManifest, diskVars, runVars, ghostVars, bounds
  <1>1. HashesFresh'
    BY DEF HashesFresh
  <1>2. SettledHolds'
    BY DEF SettledHolds, NothingToDo, PriorPlaceIsReusable, RecordHolds, Ready, Exists
  <1> QED BY <1>1, <1>2

\* With nothing left to do, every file is skipped.
LEMMA PlanSettles ==
  ASSUME SettledInv, Plan
  PROVE  HashesFresh' /\ SettledHolds'
  <1> USE FilesAssumption, VersionsAssumption DEF SettledInv, CacheHeld, CacheInv, Plan,
         SkipFiles, Instrumentable, Recorded, diskVars, runVars, ghostVars, bounds
  <1>1. HashesFresh'
    BY DEF TypeOK, HashesFresh, UnderWay, RunKnows, RunRests, InRoots, Files, Exists
  <1>2. SettledHolds'
    BY DEF TypeOK, SettledHolds, NothingToDo, PriorPlaceIsReusable, RecordHolds, UnderWay, Ready,
       RunRests, InRoots, Exists
  <1> QED BY <1>1, <1>2

\* A file that is read is recorded as it is.
LEMMA InstrumentFileSettles ==
  ASSUME SettledInv, NEW x \in Prod, InstrumentFile(x)
  PROVE  HashesFresh' /\ SettledHolds'
  <1> USE FilesAssumption, VersionsAssumption DEF SettledInv, CacheHeld, CacheInv, InstrumentFile,
         diskVars, runVars, ghostVars, bounds
  <1>1. HashesFresh'
    BY DEF TypeOK, HashesFresh, UnderWay, Nothing, Probed, Files, Exists, Hashes, Instrumentable
  <1>2. SettledHolds'
    BY DEF SettledHolds, Ready
  <1> QED BY <1>1, <1>2

\* What was skipped counts as unchanged.
LEMMA InstrumentedSettles ==
  ASSUME SettledInv, Instrumented
  PROVE  HashesFresh' /\ SettledHolds'
  <1> USE FilesAssumption, VersionsAssumption DEF SettledInv, CacheHeld, CacheInv, Instrumented,
         diskVars, runVars, ghostVars, bounds
  <1>1. HashesFresh'
    BY DEF HashesFresh, UnderWay, Exists
  <1>2. SettledHolds'
    BY DEF SettledHolds, NothingToDo, PriorPlaceIsReusable, RecordHolds, UnderWay, Ready, Exists
  <1> QED BY <1>1, <1>2

\* A settled copy is carried forward and changes nothing.
LEMMA SyncOneFileSettles ==
  ASSUME SettledInv, NEW x \in InRoots, SyncOneFile(x)
  PROVE  HashesFresh' /\ SettledHolds'
  <1> USE FilesAssumption, VersionsAssumption DEF SettledInv, CacheHeld, CacheInv, SyncOneFile,
         CarriesForward, diskVars, runVars, ghostVars, bounds
  <1>1. HashesFresh'
    BY DEF TypeOK, HashesFresh, UnderWay, RunKnows, Nothing, Plain, InRoots, Files, Exists, Hashes
  <1>2. SettledHolds'
    BY DEF SettledHolds, NothingToDo, PriorPlaceIsReusable, RecordHolds, UnderWay, Ready,
       RunKnows, RunRests, Exists
  <1> QED BY <1>1, <1>2

\* A settled shadow has no orphan.
LEMMA ReconcileSettles ==
  ASSUME SettledInv, Reconcile
  PROVE  HashesFresh' /\ SettledHolds'
  <1> USE FilesAssumption, VersionsAssumption DEF SettledInv, CacheHeld, CacheInv, Reconcile,
         Orphans, diskVars, runVars, ghostVars, bounds
  <1>1. HashesFresh'
    BY DEF TypeOK, HashesFresh, UnderWay, RunKnows, RunRests, InRoots, Exists
  <1>2. SettledHolds'
    BY DEF TypeOK, SettledHolds, NothingToDo, PriorPlaceIsReusable, RecordHolds, UnderWay, Ready,
       Exists
  <1> QED BY <1>1, <1>2

\* The record holds when the run has found it so.
LEMMA ReuseSettles ==
  ASSUME SettledInv, Reuse
  PROVE  HashesFresh' /\ SettledHolds'
  <1> USE FilesAssumption, VersionsAssumption DEF SettledInv, CacheHeld, CacheInv, Reuse,
         HasCoverageChanges, PriorPlaceIsReusable, RecordHolds, diskVars, runVars, ghostVars,
         bounds
  <1>1. HashesFresh'
    BY DEF HashesFresh, UnderWay
  <1>2. SettledHolds'
    BY DEF SettledHolds, HashesFresh, NothingToDo, UnderWay, RunKnows, RunRests, Exists
  <1> QED BY <1>1, <1>2

\* A settled run has no cause to build.
LEMMA BuildSettles ==
  ASSUME SettledInv, Build
  PROVE  HashesFresh' /\ SettledHolds'
  <1> USE FilesAssumption, VersionsAssumption DEF SettledInv, CacheHeld, CacheInv, Build,
         MustBuild, HalfPlace, diskVars, runVars, ghostVars, bounds
  <1>1. HashesFresh'
    BY DEF HashesFresh, UnderWay, Exists
  <1>2. SettledHolds'
    <2>1. settled => ~HasCoverageChanges /\ PriorPlaceIsReusable
      BY DEF SettledHolds, RunKnows, RunRests, UnderWay, NothingToDo, HasCoverageChanges
    <2>2. ~settled
      BY <2>1
    <2> QED BY <2>2 DEF SettledHolds, Ready
  <1> QED BY <1>1, <1>2

\* A place that was built is there.
LEMMA BuildEndsSettles ==
  ASSUME SettledInv, BuildEnds
  PROVE  HashesFresh' /\ SettledHolds'
  <1> USE FilesAssumption, VersionsAssumption DEF SettledInv, CacheHeld, CacheInv, BuildEnds,
         Built, diskVars, runVars, ghostVars, bounds
  <1>1. HashesFresh'
    BY DEF HashesFresh, UnderWay, Exists
  <1>2. SettledHolds'
    BY DEF SettledHolds, Ready, Nothing, Plain, Files, NoPlace
  <1> QED BY <1>1, <1>2

\* The manifest written is of what the run has seen.
LEMMA WriteManifestSettles ==
  ASSUME SettledInv, WriteManifest
  PROVE  HashesFresh' /\ SettledHolds'
  <1> USE FilesAssumption, VersionsAssumption DEF SettledInv, CacheHeld, CacheInv, WriteManifest,
         Manifest, diskVars, runVars, ghostVars, bounds
  <1>1. HashesFresh'
    BY DEF HashesFresh, UnderWay
  <1>2. SettledHolds'
    BY DEF SettledHolds, HashesFresh, NothingToDo, UnderWay, RunKnows, Exists
  <1> QED BY <1>1, <1>2

\* The record is of this manifest and this place.
LEMMA EmitBuildManifestSettles ==
  ASSUME SettledInv, EmitBuildManifest
  PROVE  HashesFresh' /\ SettledHolds'
  <1> USE FilesAssumption, VersionsAssumption DEF SettledInv, CacheHeld, CacheInv,
         EmitBuildManifest, Ready, diskVars, runVars, ghostVars, bounds
  <1>1. HashesFresh'
    BY DEF HashesFresh, UnderWay
  <1>2. SettledHolds'
    BY DEF SettledHolds, NothingToDo, PriorPlaceIsReusable, RecordHolds, UnderWay, InRoots, Files,
       Exists
  <1> QED BY <1>1, <1>2

\* A run that fails settles nothing.
LEMMA ThrowsSettles ==
  ASSUME SettledInv, Throws
  PROVE  HashesFresh' /\ SettledHolds'
  <1> USE FilesAssumption, VersionsAssumption DEF SettledInv, CacheHeld, CacheInv, Throws, Ends,
         diskVars, runVars, ghostVars, bounds
  <1>1. HashesFresh'
    BY DEF HashesFresh, UnderWay
  <1>2. SettledHolds'
    BY DEF SettledHolds, Ready
  <1> QED BY <1>1, <1>2

\* Nor does one that is stopped,
LEMMA StopSettles ==
  ASSUME SettledInv, Stop
  PROVE  HashesFresh' /\ SettledHolds'
  <1> USE FilesAssumption, VersionsAssumption DEF SettledInv, CacheHeld, CacheInv, Stop, Stops,
         Ends, diskVars, runVars, ghostVars, bounds
  <1>1. HashesFresh'
    BY DEF HashesFresh, UnderWay
  <1>2. SettledHolds'
    BY DEF SettledHolds, Ready
  <1> QED BY <1>1, <1>2

\* in the middle of a copy,
LEMMA StopWritingSettles ==
  ASSUME SettledInv, NEW x \in InRoots, StopWriting(x)
  PROVE  HashesFresh' /\ SettledHolds'
  <1> USE FilesAssumption, VersionsAssumption DEF SettledInv, CacheHeld, CacheInv, StopWriting,
         Stops, Ends, diskVars, runVars, ghostVars, bounds
  <1>1. HashesFresh'
    BY DEF HashesFresh, UnderWay
  <1>2. SettledHolds'
    BY DEF SettledHolds, Ready
  <1> QED BY <1>1, <1>2

\* or of wiping the shadow.
LEMMA StopWipingSettles ==
  ASSUME SettledInv, NEW r \in Recipes, StopWiping(r)
  PROVE  HashesFresh' /\ SettledHolds'
  <1> USE FilesAssumption, VersionsAssumption DEF SettledInv, CacheHeld, CacheInv, StopWiping,
         Stops, diskVars, runVars, ghostVars, bounds
  <1>1. HashesFresh'
    BY DEF HashesFresh, UnderWay
  <1>2. SettledHolds'
    BY DEF SettledHolds, Ready
  <1> QED BY <1>1, <1>2

\* An edit unsettles what it touches.
LEMMA EditSettles ==
  ASSUME SettledInv, NEW x \in Files, NEW v \in Versions \cup {Absent}, Edit(x, v)
  PROVE  HashesFresh' /\ SettledHolds'
  <1> USE FilesAssumption, VersionsAssumption DEF SettledInv, CacheHeld, CacheInv, Edit, diskVars,
         runVars, ghostVars, bounds
  <1>1. HashesFresh'
    BY DEF HashesFresh, UnderWay
  <1>2. SettledHolds'
    BY DEF SettledHolds, Ready
  <1> QED BY <1>1, <1>2

\* At first nothing is settled.
LEMMA SettledStarts == Init => SettledInv
  BY CacheStarts, VersionsAssumption DEF Init, SettledInv, HashesFresh, SettledHolds, Ready

\* Every step keeps what makes a settled run find nothing to do.
LEMMA SettledStep == SettledInv /\ [Next]_vars => SettledInv'
  <1> SUFFICES ASSUME SettledInv, [Next]_vars PROVE HashesFresh' /\ SettledHolds'
    BY CacheStep DEF SettledInv
  <1>1. CASE UNCHANGED vars
    BY <1>1 DEF vars, diskVars, runVars, ghostVars, SettledInv, HashesFresh, SettledHolds,
       UnderWay, Exists, Ready, NothingToDo, PriorPlaceIsReusable, RecordHolds, Instrumentable
  <1>2. CASE Next
    BY <1>2, EditSettles, BeginSettles, StopWipingSettles, PlanSettles, InstrumentFileSettles,
       InstrumentedSettles, SyncOneFileSettles, StopWritingSettles, ReconcileSettles,
       ReuseSettles, BuildSettles, BuildEndsSettles, WriteManifestSettles,
       EmitBuildManifestSettles, ThrowsSettles, StopSettles DEF Next
  <1> QED BY <1>1, <1>2

\* The step from the decision to a build is not taken by a settled run.
LEMMA SettledRunBuildsNothing ==
  ASSUME SettledInv, Next, stage = "decide", stage' = "building"
  PROVE  ~settled
  <1>1. Build
    BY DEF Next, Edit, Begin, StopWiping, Plan, InstrumentFile, Instrumented, SyncOneFile,
       StopWriting, Reconcile, Reuse, BuildEnds, WriteManifest, EmitBuildManifest, Throws, Stop,
       Ends
  <1>2. settled => ~HasCoverageChanges /\ PriorPlaceIsReusable
    BY DEF SettledInv, SettledHolds, CacheHeld, RunKnows, RunRests, UnderWay, NothingToDo,
       HasCoverageChanges
  <1> QED BY <1>1, <1>2 DEF Build, MustBuild

\* A run that finds everything as the last complete run left it builds nothing, whatever
\* runs, edits and interruptions came before.
THEOREM SettledRunsBuildNothing == Spec => SettledRunsReuse
  <1>1. SettledInv /\ [Next]_vars => [stage = "decide" /\ stage' = "building" => ~settled]_vars
    BY SettledRunBuildsNothing
  <1> QED BY <1>1, SettledStarts, SettledStep, PTL DEF Spec, SettledRunsReuse
=============================================================================
