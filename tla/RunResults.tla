----------------------------- MODULE RunResults -----------------------------
(***************************************************************************)
(* What a run makes of the raw entries its backend returns: per entry the  *)
(* snapshots written and the result kept (src/executor/process-entry.ts),  *)
(* the entries merged into one result (src/output-merge.ts), the coverage  *)
(* gates (src/run/workspace-result.ts, src/reporting/coverage-report.ts)   *)
(* and pass or fail (src/output.ts).                                       *)
(*                                                                         *)
(* A raw entry is a project and a kind:                                    *)
(*   passed, failed    a Jest result, every snapshot of it written         *)
(*   blocked           every test passed, but one ran into an engine gap   *)
(*   obsolete          passed, with a stored snapshot no test checked      *)
(*   unwritable        passed, with a snapshot that could not be written   *)
(*   blind             passed, but without coverage data                   *)
(*   luau              the script failed, the entry holds an error         *)
(*   gapless           the gap record does not cover the result            *)
(*   garbled           anything else the parser cannot make sense of       *)
(*                                                                         *)
(* A coverage hit is the project whose tests hit it: every project has     *)
(* lines of its own that only its tests reach.                             *)
(***************************************************************************)
EXTENDS JobOrder, Sequences

Aborting == {"gapless", "garbled"}
Green == {"passed", "blocked", "obsolete", "unwritable", "blind"}
Kinds == {"failed", "luau"} \cup Green \cup Aborting

(* Coverage that is absent rather than empty; 0 is no project.              *)
NoData == {0}

(***************************************************************************)
(* One entry.  A script failure becomes a failed result, which has neither *)
(* snapshots nor coverage; a Blocked test fails the result it is in.       *)
(***************************************************************************)
FailWhenBlocked(kind, success) == success /\ kind # "blocked"

RecoverFromParseFailure ==
  [success |-> FALSE, unwritten |-> FALSE, unchecked |-> FALSE, hits |-> NoData]

ProcessProjectResult(entry, idle) ==
  [success   |-> FailWhenBlocked(entry.kind, entry.kind \in Green),
   unwritten |-> entry.kind = "unwritable",
   unchecked |-> entry.kind = "obsolete",
   hits      |-> IF entry.kind = "blind" THEN NoData ELSE {entry.project} \ idle]

ProcessOrRecoverEntry(entry, idle) ==
  IF entry.kind = "luau" THEN RecoverFromParseFailure
  ELSE ProcessProjectResult(entry, idle)

WritesSnapshots(entry) == entry.kind \notin {"luau", "unwritable"}

(***************************************************************************)
(* The entries in order, up to the first that throws.  Snapshots reach the *)
(* disk as the loop goes; the results are there only if it ends.           *)
(***************************************************************************)
Aborts(raw) == \E i \in DOMAIN raw : raw[i].kind \in Aborting

FirstAbort(raw) ==
  CHOOSE i \in DOMAIN raw :
    /\ raw[i].kind \in Aborting
    /\ \A j \in 1..(i - 1) : raw[j].kind \notin Aborting

Processed(raw) == IF Aborts(raw) THEN SubSeq(raw, 1, FirstAbort(raw) - 1) ELSE raw

SnapshotsOf(raw) ==
  LET done == Processed(raw) IN
  {done[i].project : i \in {j \in DOMAIN done : WritesSnapshots(done[j])}}

(***************************************************************************)
(* A backend returns one raw entry per job it ran, in job order, and the   *)
(* indices of those a bail skipped.  Every raw entry is paired with its    *)
(* job through the indices that are left.                                  *)
(***************************************************************************)
SelectRanIndices(jobs, bailed) == InOrder(DOMAIN jobs \ bailed)

(* A change of RunProjects: results paired with the jobs by position.       *)
PairByPosition(jobs, bailed, raw, idle) ==
  [i \in 1..Len(raw) |->
     [project |-> jobs[i], result |-> ProcessOrRecoverEntry(raw[i], idle)]]

RunProjects(jobs, bailed, raw, idle) ==
  LET ran == SelectRanIndices(jobs, bailed) IN
  [i \in 1..Len(raw) |->
     [project |-> jobs[ran[i]], result |-> ProcessOrRecoverEntry(raw[i], idle)]]

(* The packages a bail left out: those none of whose jobs ran.              *)
BailedPackages(jobs, bailed, pkgOf) ==
  {pkgOf[jobs[i]] : i \in bailed}
    \ {pkgOf[jobs[i]] : i \in (1..Len(jobs)) \ bailed}

(***************************************************************************)
(* The merge.                                                              *)
(***************************************************************************)
(* A change of MergeRawCoverage: one entry that has data stands for all.    *)
KeepOneCoverage(parts) ==
  IF parts \subseteq {NoData} THEN NoData ELSE CHOOSE hits \in parts : hits # NoData

(* Hits add up, and data that is absent adds none.                          *)
MergeRawCoverage(parts) ==
  IF parts \subseteq {NoData} THEN NoData ELSE UNION (parts \ {NoData})

(* Of the two snapshot counts all that matters is whether they are zero.    *)
MergeProjectResults(rows) ==
  [success   |-> \A i \in DOMAIN rows : rows[i].result.success,
   unwritten |-> \E i \in DOMAIN rows : rows[i].result.unwritten,
   unchecked |-> \E i \in DOMAIN rows : rows[i].result.unchecked]

(***************************************************************************)
(* Coverage is judged per unit: the whole run in multi mode, each package  *)
(* in workspace mode.  A unit whose entries brought no data has no report  *)
(* and no gate; a gated unit passes when its jobs' lines were hit.         *)
(***************************************************************************)
HitsOf(rows, unitOf, unit) ==
  {rows[i].result.hits : i \in {j \in DOMAIN rows : unitOf[rows[j].project] = unit}}

EnforceUnitThreshold(rows, jobs, unitOf, unit) ==
  LET hits == MergeRawCoverage(HitsOf(rows, unitOf, unit)) IN
  \/ hits = NoData
  \/ \A i \in DOMAIN jobs : unitOf[jobs[i]] = unit => jobs[i] \in hits

ProcessCoverage(rows, jobs, unitOf, gated) ==
  \A unit \in gated : EnforceUnitThreshold(rows, jobs, unitOf, unit)

(***************************************************************************)
(* Pass or fail, and the exit code.  typesPass is TRUE when there is no    *)
(* Type Test result.                                                       *)
(***************************************************************************)
EmitFinalStatus(merged, typesPass, coveragePass) ==
  IF /\ merged.success /\ typesPass
     /\ coveragePass
     /\ ~merged.unwritten /\ ~merged.unchecked
  THEN 0 ELSE 1
=============================================================================
