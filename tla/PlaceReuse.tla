----------------------------- MODULE PlaceReuse -----------------------------
(***************************************************************************)
(* When a place is built anew and when the one from last time is handed out *)
(* (src/staging/place-builder.ts, place-reuse.ts), and the digests that    *)
(* spare reading the inputs (src/utils/input-digest-cache.ts).             *)
(*                                                                         *)
(* Command lines that build into one cache directory share the place file, *)
(* the digests and the record, and lock none of them.  The two caches are  *)
(* renamed into place whole; the place file is written by rojo as it goes. *)
(* Every input has the same size, so that only its stamp tells two of its  *)
(* contents apart.                                                         *)
(***************************************************************************)
EXTENDS Integers, FiniteSets

CONSTANTS
    Builders,   \* slots a command line may run in
    Inputs,     \* files the place is built from
    Texts,      \* what an input may hold
    MaxClock,   \* the host's clock
    MaxTouches, \* edits of the inputs in one history
    MaxBuilds   \* command lines started in one history

ASSUME InputsFinite == IsFiniteSet(Inputs) /\ IsFiniteSet(Builders)
ASSUME TextsAreNumbered == Texts \subseteq Nat \ {0}
ASSUME ReuseBounds == MaxClock \in Nat \ {0} /\ MaxTouches \in Nat /\ MaxBuilds \in Nat

\* A file no digest is known of, and a place no rojo finished.
Unknown == [text |-> 0, stamp |-> 0]
Unwritten == [f \in Inputs |-> 0]
NoDigests == [f \in Inputs |-> Unknown]
NothingRecorded == [there |-> FALSE, key |-> Unwritten, built |-> Unwritten, calm |-> TRUE]

\* A command line between two builds.
Away == [at |-> "away", plans |-> FALSE, opened |-> 0, prior |-> NoDigests, todo |-> {},
         statted |-> Unwritten, key |-> Unwritten, publish |-> NoDigests, reread |-> FALSE,
         found |-> NothingRecorded, calm |-> TRUE]

VARIABLES
    clock,     \* Date.now()
    input,     \* every input: what it holds and its mtime
    digests,   \* the record of the input digests
    reuseFile, \* the record of the place
    built,     \* the place file, as what it was built from
    builder,   \* per slot: the command line
    touches, builds,
    odd        \* bookkeeping: inputs once written under an older stamp

buildVars == <<clock, input, digests, reuseFile, built, builder, touches, builds, odd>>
worldVars == <<clock, input, touches, odd>>

ReuseInit ==
    /\ clock = 1
    /\ input \in [Inputs -> [text : Texts, stamp : {0}]]
    /\ digests = NoDigests /\ reuseFile = NothingRecorded /\ built = Unwritten
    /\ builder = [b \in Builders |-> Away]
    /\ touches = 0 /\ builds = 0 /\ odd = {}

Set(b, to) == builder' = [builder EXCEPT ![b] = to]

\* The builds under way are no longer undisturbed.
Disturbed(c) == [builder[c] EXCEPT !.calm = (builder[c].at = "away")]

SetAlone(b, to) == builder' = [c \in Builders |-> IF c = b THEN to ELSE Disturbed(c)]

Known(found) == {f \in Inputs : found[f] # Unknown}

\* buildPlaceAsync, with reuse or without; openInputDigestCache.
StartBuild(b) ==
    /\ builder[b].at = "away" /\ builds < MaxBuilds
    /\ builds' = builds + 1
    /\ \/ Set(b, [Away EXCEPT !.at = "walk", !.plans = TRUE, !.opened = clock,
                              !.prior = digests, !.todo = Inputs])
       \/ Set(b, [Away EXCEPT !.at = "stage"])
    /\ UNCHANGED <<worldVars, digests, reuseFile, built>>

-----------------------------------------------------------------------------
(* The key: a digest of every input                                        *)

\* Only a file that stood still before the run opened is recorded.
Publishable(b, entry) == entry.stamp < builder[b].opened

\* The digest of one input is known, and goes into the key and the next record.
Digested(b, f, entry, read) ==
    LET run == builder[b] IN
    Set(b, [run EXCEPT
      !.todo = @ \ {f}, !.statted[f] = 0, !.reread = @ \/ read, !.key[f] = entry.text,
      !.publish[f] = IF Publishable(b, entry) THEN entry ELSE Unknown])

\* hashOfAsync: the stat comes first, and may spare the read.
StatInput(b, f) ==
    /\ builder[b].at = "walk" /\ f \in builder[b].todo /\ builder[b].statted[f] = 0
    /\ LET entry == builder[b].prior[f] IN
       IF entry # Unknown /\ entry.stamp = input[f].stamp
       THEN Digested(b, f, entry, FALSE)
       ELSE Set(b, [builder[b] EXCEPT !.statted[f] = input[f].stamp + 1])
    /\ UNCHANGED <<worldVars, digests, reuseFile, built, builds>>

ReadInput(b, f) ==
    /\ builder[b].at = "walk" /\ builder[b].statted[f] # 0
    /\ Digested(b, f, [text |-> input[f].text, stamp |-> builder[b].statted[f] - 1], TRUE)
    /\ UNCHANGED <<worldVars, digests, reuseFile, built, builds>>

\* save: a record that would say the same again is left alone.
SaveDigests(b) ==
    /\ builder[b].at = "walk" /\ builder[b].todo = {}
    /\ digests' = LET run == builder[b] IN
                  IF ~run.reread /\ Cardinality(Known(run.publish)) = Cardinality(Known(run.prior))
                  THEN digests ELSE run.publish
    /\ Set(b, [builder[b] EXCEPT !.at = "ask", !.prior = NoDigests, !.publish = NoDigests])
    /\ UNCHANGED <<worldVars, reuseFile, built, builds>>

-----------------------------------------------------------------------------
(* reuseOrBuildPlaceAsync                                                  *)

\* tryReuseAsync: the record is read and its key compared.
ReadRecord(b) ==
    /\ builder[b].at = "ask"
    /\ LET run == builder[b] IN
       Set(b, IF reuseFile.there /\ reuseFile.key = run.key
              THEN [run EXCEPT !.at = "compare", !.found = reuseFile]
              ELSE [run EXCEPT !.at = "stage"])
    /\ UNCHANGED <<worldVars, digests, reuseFile, built, builds>>

\* Mutant: a place that is there will do.
SamePlace_Exists(b) == TRUE

SamePlace(b) == built = builder[b].found.built

\* The place is hashed, and the answer is given.
ComparePlace(b) ==
    /\ builder[b].at = "compare"
    /\ Set(b, [builder[b] EXCEPT !.at = IF SamePlace(b) THEN "reused" ELSE "stage"])
    /\ UNCHANGED <<worldVars, digests, reuseFile, built, builds>>

\* stageAndBuildAsync: rojo opens the place file ...
RojoStarts(b) ==
    /\ builder[b].at = "stage"
    /\ built' = Unwritten
    /\ SetAlone(b, [builder[b] EXCEPT !.at = "rojo"])
    /\ UNCHANGED <<worldVars, digests, reuseFile, builds>>

\* ... and fills it from what the inputs hold.
RojoEnds(b) ==
    /\ builder[b].at = "rojo"
    /\ built' = [f \in Inputs |-> input[f].text]
    /\ SetAlone(b, IF builder[b].plans THEN [builder[b] EXCEPT !.at = "hash"] ELSE Away)
    /\ UNCHANGED <<worldVars, digests, reuseFile, builds>>

HashBuilt(b) ==
    /\ builder[b].at = "hash"
    /\ Set(b, [builder[b] EXCEPT !.at = "note", !.found.built = built])
    /\ UNCHANGED <<worldVars, digests, reuseFile, built, builds>>

\* writePlaceReuseRecord.
NoteBuild(b) ==
    /\ builder[b].at = "note"
    /\ reuseFile' = [there |-> TRUE, key |-> builder[b].key, built |-> builder[b].found.built,
                     calm |-> builder[b].calm]
    /\ Set(b, Away)
    /\ UNCHANGED <<worldVars, digests, built, builds>>

\* The command line goes on with the place it was given; or rojo fails, a cache
\* cannot be written, the process is killed.
Leaves(b) ==
    /\ builder[b].at # "away"
    /\ Set(b, Away)
    /\ UNCHANGED <<worldVars, digests, reuseFile, built, builds>>

-----------------------------------------------------------------------------
(* What goes on outside                                                    *)

\* An input is written: now, or under the stamp it had before -- its times were
\* restored, the clock is too coarse, the mount's clock lags.
Touch(f, text, stamp) ==
    /\ touches < MaxTouches /\ text # input[f].text
    /\ touches' = touches + 1
    /\ input' = [input EXCEPT ![f] = [text |-> text, stamp |-> stamp]]
    /\ odd' = IF stamp < clock THEN odd \cup {f} ELSE odd
    /\ builder' = [b \in Builders |-> Disturbed(b)]
    /\ UNCHANGED <<clock, digests, reuseFile, built, builds>>

TimePasses ==
    /\ clock < MaxClock
    /\ clock' = clock + 1
    /\ UNCHANGED <<input, digests, reuseFile, built, builder, touches, builds, odd>>

ReuseNext ==
    \/ \E b \in Builders :
         \/ StartBuild(b) \/ SaveDigests(b) \/ ReadRecord(b) \/ ComparePlace(b)
         \/ RojoStarts(b) \/ RojoEnds(b) \/ HashBuilt(b) \/ NoteBuild(b) \/ Leaves(b)
         \/ \E f \in Inputs : StatInput(b, f) \/ ReadInput(b, f)
    \/ \E f \in Inputs, text \in Texts : \E stamp \in {clock, input[f].stamp} : Touch(f, text, stamp)
    \/ TimePasses

ReuseSpec == ReuseInit /\ [][ReuseNext]_buildVars

-----------------------------------------------------------------------------
(* Properties                                                              *)

Texts0 == Texts \cup {0}
Digests == [Inputs -> [text : Texts0, stamp : 0..MaxClock]]
Records == [there : BOOLEAN, key : [Inputs -> Texts0], built : [Inputs -> Texts0], calm : BOOLEAN]

BuilderRuns ==
    [at : {"away", "walk", "ask", "compare", "stage", "rojo", "hash", "note", "reused"},
     plans : BOOLEAN, opened : 0..MaxClock, prior : Digests, todo : SUBSET Inputs,
     statted : [Inputs -> 0..MaxClock + 1], key : [Inputs -> Texts0], publish : Digests,
     reread : BOOLEAN, found : Records, calm : BOOLEAN]

ReuseTypeOK ==
    /\ clock \in 1..MaxClock /\ touches \in 0..MaxTouches /\ builds \in 0..MaxBuilds
    /\ input \in [Inputs -> [text : Texts, stamp : 0..MaxClock]] /\ odd \subseteq Inputs
    /\ digests \in Digests /\ reuseFile \in Records /\ built \in [Inputs -> Texts0]
    /\ builder \in [Builders -> BuilderRuns]

\* A recorded digest that answers for the file on disk is the digest of what is on
\* disk, however late the file was written under the run that read it; only a
\* stamp older than its write defeats it (input-digest-cache.ts: "dead on
\* arrival rather than wrong", and the three cases it gives up).
DigestsHold ==
    \A f \in Inputs \ odd :
      digests[f] # Unknown /\ digests[f].stamp = input[f].stamp => digests[f].text = input[f].text

\* A place handed out without a build holds every input as it is: whichever run
\* built it, whichever was killed over it and whatever was rebuilt without a key.
\* Excused are an input edited while either run was at it, another run's rojo
\* over the same file meanwhile, and a stamp older than its write (place-builder.ts
\* on tryReuseAsync: "Any doubt ... rebuilds").
ReusedIsCurrent ==
    \A b \in Builders :
      builder[b].at = "reused" /\ builder[b].calm /\ builder[b].found.calm =>
        \A f \in Inputs \ odd : built[f] = input[f].text

ReuseIsSound == ReuseTypeOK /\ DigestsHold /\ ReusedIsCurrent
=============================================================================
