---------------------------- MODULE CoverageCache ----------------------------
(***************************************************************************)
(* The coverage place of a single-package run (src/coverage-pipeline): the *)
(* shadow tree that mirrors the sources with probes in it, the manifest    *)
(* that describes the tree and is trusted by the next run, the place built *)
(* from the tree, and the build record that vouches for the place.         *)
(*                                                                         *)
(* A run may be interrupted anywhere (a signal, a file that does not parse, *)
(* a failed rojo build), sources are edited and reverted at any time, and  *)
(* the next run decides from what it finds on disk.  What a run's options  *)
(* demand of the tree -- the coverage globs, the copy-ignore list, the     *)
(* instrumenter's version -- is one thing here, the set of files probed.   *)
(***************************************************************************)
EXTENDS Integers, FiniteSets

CONSTANTS
    Prod,       \* Luau files that may be probed
    Copied,     \* files of the roots that are always mirrored verbatim
    Input,      \* what the place is built from outside the roots
    Recipes,    \* the sets of files the runs' options may have probed
    Versions,   \* contents a file may have
    MaxEdits,   \* edits of the sources in one history
    MaxStops    \* runs that are interrupted in one history

InRoots == Prod \cup Copied
Files == InRoots \cup {Input}
Absent == 0

ASSUME FilesAssumption == /\ Prod \cap Copied = {} /\ Input \notin InRoots
                          /\ Recipes \subseteq SUBSET Prod /\ Recipes # {}
ASSUME VersionsAssumption == Versions \subseteq Nat \ {Absent} /\ Versions # {}
ASSUME BoundsAssumption == MaxEdits \in Nat /\ MaxStops \in Nat

\* What a path of the shadow, or of the place, holds.
Nothing == [kind |-> "none", of |-> Absent]
Torn == [kind |-> "torn", of |-> Absent]
Probed(v) == [kind |-> "probed", of |-> v]
Plain(v) == [kind |-> "plain", of |-> v]

NoPlace == [x \in Files |-> Nothing]
HalfPlace == [x \in Files |-> Torn]
NoHashes == [x \in Files |-> Absent]
NoManifest == [there |-> FALSE, recipe |-> {}, hash |-> NoHashes]
NoRecord == [there |-> FALSE, place |-> NoPlace, hash |-> NoHashes]

VARIABLES
    source,    \* the files as they are
    twin,      \* the shadow's copy of each file
    map,       \* the version each coverage map in the shadow describes
    manifest,  \* coverage-manifest.json
    place,     \* the place file, as what it was built from
    record,    \* build-manifest.json
    stage,     \* how far the present run has come
    recipe,    \* the files its options have probed
    prev,      \* the manifest it read
    warm,      \* isIncremental
    todo,      \* files it still has to write
    hash,      \* the hashes its own manifest will record
    changed,   \* it has changed the shadow
    edits, stops,
    edited,    \* bookkeeping: a source was edited during the run
    settled,   \* bookkeeping: the last run is complete and nothing has changed since
    touched,   \* bookkeeping: copies this run has written or removed
    stale,     \* bookkeeping: copies changed by runs that never recorded it
    unrecorded,\* bookkeeping: the place was written, and no manifest after it
    drifted    \* bookkeeping: the place may be built from another input than the one hashed

diskVars == <<twin, map, manifest, place, record>>
runVars == <<recipe, prev, warm, todo, hash, changed>>
ghostVars == <<edited, settled, touched, stale, unrecorded, drifted>>
bounds == <<edits, stops>>
vars == <<source, diskVars, stage, runVars, bounds, ghostVars>>

Init == /\ source \in [Files -> Versions]
        /\ twin = [x \in InRoots |-> Nothing]
        /\ map = [x \in Prod |-> Absent]
        /\ manifest = NoManifest
        /\ place = NoPlace
        /\ record = NoRecord
        /\ stage = "idle"
        /\ recipe = {} /\ prev = NoManifest /\ warm = FALSE /\ todo = {}
        /\ hash = NoHashes /\ changed = FALSE
        /\ edits = 0 /\ stops = 0
        /\ edited = FALSE /\ settled = FALSE /\ touched = {} /\ stale = {}
        /\ unrecorded = FALSE /\ drifted = FALSE

Exists(x) == source[x] # Absent

\* A file appears, changes, is deleted, or is put back as it was.
Edit(x, v) == /\ edits < MaxEdits
              /\ v # source[x]
              /\ x = Input => v # Absent
              /\ source' = [source EXCEPT ![x] = v]
              /\ edits' = edits + 1
              /\ edited' = (stage # "idle")
              /\ settled' = FALSE
              /\ UNCHANGED <<diskVars, stage, runVars, stops, touched, stale, unrecorded, drifted>>

-----------------------------------------------------------------------------
(* The gate.                                                               *)

\* Mutant: a manifest of other options is as good as any.
CanReuseCoverageManifest_AnyRecipe == manifest.there

\* canReuseCoverageManifest.
CanReuseCoverageManifest == manifest.there /\ manifest.recipe = recipe'

\* rmSync of the shadow directory, both manifests included.
Wiped == /\ twin' = [x \in InRoots |-> Nothing]
         /\ map' = [x \in Prod |-> Absent]
         /\ manifest' = NoManifest
         /\ record' = NoRecord
         /\ stale' = {}

\* resolveCoverageInputsAsync hashes what lies outside the roots and reads the
\* manifest; decideIncremental wipes a shadow that cannot be reused.
Begin(r) ==
    /\ stage = "idle"
    /\ recipe' = r
    /\ prev' = manifest
    /\ warm' = CanReuseCoverageManifest
    /\ hash' = [NoHashes EXCEPT ![Input] = source[Input]]
    /\ changed' = FALSE /\ todo' = {} /\ edited' = FALSE /\ touched' = {}
    /\ settled' = (settled /\ warm')
    /\ IF warm' THEN UNCHANGED <<twin, map, manifest, record, stale>> ELSE Wiped
    /\ stage' = "plan"
    /\ UNCHANGED <<source, place, bounds, unrecorded, drifted>>

-----------------------------------------------------------------------------
(* The shadow.                                                             *)

\* computeSkipFiles: unmoved since the manifest, and both outputs are there.
SkipFiles == {x \in Prod : /\ prev.hash[x] # Absent /\ x \in prev.recipe
                           /\ source[x] = prev.hash[x]
                           /\ twin[x] # Nothing /\ map[x] # Absent}

\* Mutant: the mirrored files' records are counted too.
Recorded_Mirrored == {x \in InRoots : prev.hash[x] # Absent}

\* countPreviousFilesForRoot.
Recorded == {x \in prev.recipe : prev.hash[x] # Absent}
Instrumentable == {x \in recipe : Exists(x)}

\* planIncremental: the files to instrument, the records carried forward, and
\* whether one of the recorded files is gone or different.
Plan ==
    /\ stage = "plan"
    /\ LET skip == IF warm THEN SkipFiles ELSE {}
       IN /\ todo' = Instrumentable \ skip
          /\ hash' = [x \in Files |-> IF x \in skip THEN prev.hash[x] ELSE hash[x]]
          /\ changed' = (warm /\ skip # Recorded)
    /\ stage' = "instrument"
    /\ UNCHANGED <<source, diskVars, recipe, prev, warm, bounds, ghostVars>>

\* instrumentFile: the source is read once; the twin is written, then its map.
InstrumentFile(x) ==
    /\ stage = "instrument"
    /\ x \in todo /\ Exists(x)
    /\ twin' = [twin EXCEPT ![x] = Probed(source[x])]
    /\ map' = [map EXCEPT ![x] = source[x]]
    /\ hash' = [hash EXCEPT ![x] = source[x]]
    /\ todo' = todo \ {x}
    /\ changed' = TRUE
    /\ touched' = touched \cup {x}
    /\ UNCHANGED <<source, manifest, place, record, stage, recipe, prev, warm, bounds,
                   edited, settled, stale, unrecorded, drifted>>

\* What the instrumenter does not emit is listed for the mirror: the other files of the
\* roots, and those the options have not probed.
Instrumented ==
    /\ stage = "instrument" /\ todo = {}
    /\ todo' = {x \in InRoots \ recipe : Exists(x)}
    /\ stage' = "mirror"
    /\ UNCHANGED <<source, diskVars, recipe, prev, warm, hash, changed, bounds, ghostVars>>

\* syncOneFile's carry-forward.
CarriesForward(x) == /\ x \notin prev.recipe /\ prev.hash[x] = source[x]
                     /\ twin[x] # Nothing

\* syncOneFile: one read serves the hash and the copy.
SyncOneFile(x) ==
    /\ stage = "mirror"
    /\ x \in todo /\ Exists(x)
    /\ hash' = [hash EXCEPT ![x] = source[x]]
    /\ todo' = todo \ {x}
    /\ IF CarriesForward(x)
       THEN UNCHANGED <<twin, changed, touched>>
       ELSE /\ twin' = [twin EXCEPT ![x] = Plain(source[x])]
            /\ changed' = TRUE
            /\ touched' = touched \cup {x}
    /\ UNCHANGED <<source, map, manifest, place, record, stage, recipe, prev, warm, bounds,
                   edited, settled, stale, unrecorded, drifted>>

\* reconcileShadowToSource, on a warm shadow: what has no source goes.
Orphans == {x \in InRoots : twin[x] # Nothing /\ ~Exists(x)}

\* Mutant: orphans are left where they are.
Reconcile_KeepsOrphans ==
    /\ stage = "mirror" /\ todo = {}
    /\ stage' = "decide"
    /\ UNCHANGED <<source, diskVars, runVars, bounds, ghostVars>>

Reconcile ==
    /\ stage = "mirror" /\ todo = {}
    /\ IF warm
       THEN /\ twin' = [x \in InRoots |-> IF Exists(x) THEN twin[x] ELSE Nothing]
            /\ map' = [x \in Prod |-> IF Exists(x) THEN map[x] ELSE Absent]
            /\ changed' = (changed \/ Orphans # {})
            /\ touched' = touched \cup Orphans
       ELSE UNCHANGED <<twin, map, changed, touched>>
    /\ stage' = "decide"
    /\ UNCHANGED <<source, manifest, place, record, recipe, prev, warm, todo, hash, bounds,
                   edited, settled, stale, unrecorded, drifted>>

-----------------------------------------------------------------------------
(* The place.                                                              *)

\* hasCoverageChanges.
HasCoverageChanges == ~warm \/ changed \/ prev.hash[Input] # hash[Input]

\* readBuildManifest hashes the place and every source it names.
RecordHolds == /\ place = record.place
               /\ \A x \in Prod : record.hash[x] # Absent => source[x] = record.hash[x]

\* priorPlaceIsReusable: without a build record the place only has to be there.
PriorPlaceIsReusable == place # NoPlace /\ (record.there => RecordHolds)

Reuse == /\ stage = "decide"
         /\ ~HasCoverageChanges /\ PriorPlaceIsReusable
         /\ stage' = "reused"
         /\ UNCHANGED <<source, diskVars, runVars, bounds, ghostVars>>

MustBuild == stage = "decide" /\ ~(~HasCoverageChanges /\ PriorPlaceIsReusable)

Built == [x \in Files |-> IF x = Input THEN Plain(source[Input]) ELSE twin[x]]

Manifest == [there |-> TRUE, recipe |-> recipe, hash |-> hash]

\* rojo starts to write the place file.
Build == /\ MustBuild
         /\ place' = HalfPlace
         /\ stage' = "building"
         /\ unrecorded' = TRUE
         /\ UNCHANGED <<source, twin, map, manifest, record, runVars, bounds, edited, settled,
                        touched, stale, drifted>>

\* The place holds the shadow, and the input as it is by now.
BuildEnds == /\ stage = "building"
             /\ place' = Built
             /\ drifted' = (drifted \/ source[Input] # hash[Input])
             /\ stage' = "write"
             /\ UNCHANGED <<source, twin, map, manifest, record, runVars, bounds, edited,
                            settled, touched, stale, unrecorded>>

\* buildAndWriteManifest, one atomic write after the build.
WriteManifest ==
    /\ stage = "write"
    /\ manifest' = Manifest
    /\ stale' = stale \ touched
    /\ touched' = {}
    /\ unrecorded' = FALSE
    /\ drifted' = (place[Input] # Plain(hash[Input]))
    /\ stage' = "built"
    /\ UNCHANGED <<source, twin, map, place, record, runVars, bounds, edited, settled>>

Ready == stage \in {"reused", "built"}

\* The tests have run: the entry point vouches for a place it has built.
EmitBuildManifest ==
    /\ Ready
    /\ record' = IF stage = "built"
                 THEN [there |-> TRUE, place |-> place,
                       hash |-> [x \in Files |-> IF x \in recipe THEN hash[x] ELSE Absent]]
                 ELSE record
    /\ stage' = "idle"
    /\ settled' = ~edited
    /\ UNCHANGED <<source, twin, map, manifest, place, runVars, bounds, edited, touched, stale,
                   unrecorded, drifted>>

-----------------------------------------------------------------------------
(* Interruptions.                                                          *)

\* The run ends here; the copies in written are not what any manifest says.
Ends(written) == /\ stage' = "idle"
                 /\ stale' = stale \cup touched \cup written
                 /\ touched' = {}
                 /\ settled' = FALSE
                 /\ UNCHANGED <<source, map, manifest, place, record, runVars, edits, edited,
                                unrecorded, drifted>>

\* A file vanished after it was listed: the run throws.
Throws == /\ stage \in {"instrument", "mirror"}
          /\ \E x \in todo : ~Exists(x)
          /\ Ends({})
          /\ UNCHANGED <<twin, stops>>

Stops == stops < MaxStops /\ stops' = stops + 1

\* A signal, a module that does not parse, a rojo build or a test run that fails.
Stop == /\ stage # "idle" /\ Stops
        /\ Ends({})
        /\ UNCHANGED twin

\* A kill in the middle of a write, which is not atomic, or between a twin and
\* its map.
StopWriting(x) ==
    /\ stage \in {"instrument", "mirror"} /\ Stops
    /\ x \in todo /\ Exists(x)
    /\ twin' \in {[twin EXCEPT ![x] = Torn],
                  [twin EXCEPT ![x] = IF stage = "instrument" THEN Probed(source[x]) ELSE Torn]}
    /\ Ends({x})

\* A kill in the middle of the wipe leaves any part of the shadow behind.
StopWiping(r) ==
    /\ stage = "idle" /\ Stops
    /\ ~(manifest.there /\ manifest.recipe = r)
    /\ \E kept \in SUBSET InRoots, maps \in SUBSET Prod :
         /\ twin' = [x \in InRoots |-> IF x \in kept THEN twin[x] ELSE Nothing]
         /\ map' = [x \in Prod |-> IF x \in maps THEN map[x] ELSE Absent]
    /\ manifest' \in {manifest, NoManifest}
    /\ record' \in {record, NoRecord}
    /\ settled' = FALSE
    /\ stale' = stale \cup {x \in InRoots : twin'[x] # twin[x]}
    /\ UNCHANGED <<source, place, stage, runVars, edits, edited, touched, unrecorded, drifted>>

Next == \/ \E x \in Files, v \in Versions \cup {Absent} : Edit(x, v)
        \/ \E r \in Recipes : Begin(r) \/ StopWiping(r)
        \/ Plan
        \/ \E x \in Prod : InstrumentFile(x)
        \/ Instrumented
        \/ \E x \in InRoots : SyncOneFile(x) \/ StopWriting(x)
        \/ Reconcile \/ Reuse \/ Build \/ BuildEnds \/ WriteManifest \/ EmitBuildManifest
        \/ Throws \/ Stop

Spec == Init /\ [][Next]_vars

-----------------------------------------------------------------------------
(* Properties.                                                             *)

Contents == [kind : {"none", "torn", "probed", "plain"}, of : Versions \cup {Absent}]
Hashes == [Files -> Versions \cup {Absent}]

TypeOK == /\ source \in Hashes
          /\ twin \in [InRoots -> Contents] /\ map \in [Prod -> Versions \cup {Absent}]
          /\ {manifest, prev} \subseteq [there : BOOLEAN, recipe : SUBSET Prod, hash : Hashes]
          /\ place \in [Files -> Contents]
          /\ record \in [there : BOOLEAN, place : [Files -> Contents], hash : Hashes]
          /\ stage \in {"idle", "plan", "instrument", "mirror", "decide", "building", "write",
                        "reused", "built"}
          /\ recipe \subseteq Prod /\ todo \subseteq InRoots /\ hash \in Hashes
          /\ warm \in BOOLEAN /\ changed \in BOOLEAN /\ edited \in BOOLEAN
          /\ settled \in BOOLEAN /\ unrecorded \in BOOLEAN /\ drifted \in BOOLEAN
          /\ touched \subseteq InRoots /\ stale \subseteq InRoots

\* What a cold run would put into the place for x.
Image(x) == IF ~Exists(x) THEN Nothing
            ELSE IF x \in recipe THEN Probed(source[x]) ELSE Plain(source[x])

\* A place that was left half built, or that nothing vouches for, was reused.
Unvouched == stage = "reused" /\ unrecorded /\ ~record.there

\* The tests run against the sources as they are: whatever runs came before, with
\* other options, and wherever they were interrupted, a place is handed on only if it
\* holds every file as a cold run would put it there -- up to copies no run has
\* recorded, and to an input that changed under a build or whose build no manifest
\* records: the build record may be older than the manifest.
PlaceIsCurrent ==
    Ready /\ ~edited /\ ~Unvouched =>
        \A x \in Files \ stale : (x = Input /\ (drifted \/ unrecorded)) \/ place[x] = Image(x)

\* The report reads a file's hits through the map the same probes were laid by.
MapsMatchPlace ==
    Ready /\ ~Unvouched =>
        \A x \in recipe \ stale : Exists(x) /\ ~edited => place[x] = Probed(map[x])

\* A run that finds everything as the last complete run left it builds nothing
\* ("a place rebuilt on every run and a buildId that never settles").
SettledRunsReuse == [][stage = "decide" /\ stage' = "building" => ~settled]_vars

\* What the next run will trust: at every moment, also after any interruption, a copy
\* in the shadow is the one the manifest on disk describes, unless a run has changed
\* it and has not recorded so, or it is gone.
ManifestDescribesShadow ==
    manifest.there =>
        \A x \in InRoots \ (touched \cup stale) :
            manifest.hash[x] # Absent /\ twin[x] # Nothing =>
                twin[x] = IF x \in manifest.recipe THEN Probed(manifest.hash[x])
                                                  ELSE Plain(manifest.hash[x])

\* The shadow is what the next run takes it for, and the tests and the report see one and
\* the same program.
CacheInv == TypeOK /\ ManifestDescribesShadow /\ PlaceIsCurrent /\ MapsMatchPlace

\* A warm run converges on what a cold run would have produced.
WarmIsCold == Ready /\ ~edited => \A x \in InRoots : place[x] = Image(x)
=============================================================================
