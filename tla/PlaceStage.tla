---------------------------- MODULE PlaceStage ----------------------------
(***************************************************************************)
(* How a package gets into the live DataModel and out again                *)
(* (luau/staging/materializer.luau).  The place carries every package      *)
(* under __pkg_stage, with what several of them mount held once in a pool: *)
(* in a stage a marker stands for the pooled entry, beside whatever        *)
(* children it declares itself.                                            *)
(*                                                                         *)
(* An instance is a record; where it came from is its owner: the place, or *)
(* the package whose stage it was cloned from.  A clone inside another     *)
(* clone rides its step, so the instances materialized keeps a list of are *)
(* the topmost ones a package owns.                                        *)
(***************************************************************************)
EXTENDS Integers, Functions, SequencesExt

PlaceOwned == "place"
NoKey == "none"

Folder(name, kids) == [name |-> name, kind |-> "folder", key |-> NoKey, kids |-> kids]
Script(name) == [name |-> name, kind |-> "module", key |-> NoKey, kids |-> <<>>]
Marker(name, key, kids) == [name |-> name, kind |-> "folder", key |-> key, kids |-> kids]
NoStage == Folder("none", <<>>)
Live(name, kind, kids) == [name |-> name, kind |-> kind, owner |-> PlaceOwned, kids |-> kids]

IsMarker(child) == child.key # NoKey

\* The kind of what a staged child stands for, and what it brings along: both
\* halves of a marker, the entry's children and its own.
SourceKind(pool, child) == IF IsMarker(child) THEN pool[child.key].kind ELSE child.kind
Halves(pool, child) ==
    IF IsMarker(child) THEN pool[child.key].kids \o child.kids ELSE child.kids

\* Two of one name merge only when both are containers.
Mergeable(occupied, kind) == occupied.kind = "folder" /\ kind = "folder"

\* The place of the instance that already stands where a child would land, a
\* live one or a clone a sibling has claimed the name with; or 0.
Occupied(kids, name) == SelectInSeq(kids, LAMBDA kid : kid.name = name)

RECURSIVE Add(_, _, _, _)

\* Where one staged child goes.  A plan with a collision is not carried out.
\* The children of one staged folder have names of their own: a clone would keep
\* two of one name, which here meet like any other pair.
AddChild(pool, owner, plan, child) ==
    LET at == Occupied(plan.kids, child.name)
        kind == SourceKind(pool, child)
        below == Add(pool, owner, Halves(pool, child), IF at = 0 THEN <<>> ELSE plan.kids[at].kids)
    IN CASE at = 0 ->
              [kids  |-> Append(plan.kids, [name |-> child.name, kind |-> kind,
                                            owner |-> owner, kids |-> below.kids]),
               sound |-> plan.sound /\ below.sound]
         [] at # 0 /\ Mergeable(plan.kids[at], kind) ->
              [kids  |-> [plan.kids EXCEPT ![at].kids = below.kids],
               sound |-> plan.sound /\ below.sound]
         [] OTHER -> [plan EXCEPT !.sound = FALSE]

Add(pool, owner, staged, kids) ==
    FoldLeft(LAMBDA plan, child : AddChild(pool, owner, plan, child),
             [kids |-> kids, sound |-> TRUE], staged)

\* Services are not created: what a stage holds for one the place does not have
\* stays behind.  The children of StarterPlayer are services of their own.
RECURSIVE AddServices(_, _, _, _)
AddServices(pool, owner, staged, kids) ==
    FoldLeft(LAMBDA plan, service :
               LET at == Occupied(plan.kids, service.name)
                   merge(k) == IF service.name = "StarterPlayer"
                               THEN AddServices(pool, owner, service.kids, k)
                               ELSE Add(pool, owner, service.kids, k)
                   below == merge(plan.kids[at].kids)
               IN IF at = 0
                  THEN plan
                  ELSE [kids  |-> [plan.kids EXCEPT ![at].kids = below.kids],
                        sound |-> plan.sound /\ below.sound],
             [kids |-> kids, sound |-> TRUE], staged)

\* Whatever Lighting holds is Studio's, or an earlier run's.
ClearLighting(tree) ==
    [i \in DOMAIN tree |-> IF tree[i].name = "Lighting" THEN [tree[i] EXCEPT !.kids = <<>>]
                                                         ELSE tree[i]]

\* A package whose whole stage is one module lands in ReplicatedStorage.
Services(stage) ==
    IF stage.kind = "module" THEN <<Folder("ReplicatedStorage", <<stage>>)>> ELSE stage.kids

\* materialize: everything lands, or nothing but the cleared Lighting shows.  A
\* package the place has no stage of fails before that.
Materialized(pool, tree, pkg) ==
    LET clear == ClearLighting(tree)
        plan == AddServices(pool, pkg.name, Services(pkg.stage), clear)
    IN IF pkg.stage = NoStage
       THEN [tree |-> tree, ok |-> FALSE]
       ELSE [tree |-> IF plan.sound THEN plan.kids ELSE clear, ok |-> plan.sound]

\* reset: every clone goes, and what it holds with it.
RECURSIVE WithoutClones(_)
WithoutClones(tree) ==
    LET kept == SelectSeq(tree, LAMBDA node : node.owner = PlaceOwned)
    IN [i \in DOMAIN kept |-> [kept[i] EXCEPT !.kids = WithoutClones(kept[i].kids)]]

-----------------------------------------------------------------------------
(* What a stage means, without an order of steps: the instances its        *)
(* children stand for, by path.                                            *)

RECURSIVE Parts(_, _, _)
Parts(pool, staged, path) ==
    FlattenSeq([i \in DOMAIN staged |->
        LET here == Append(path, staged[i].name)
        IN <<[path |-> here, kind |-> SourceKind(pool, staged[i])]>>
             \o Parts(pool, Halves(pool, staged[i]), here)])

RECURSIVE LiveParts(_, _)
LiveParts(tree, path) ==
    FlattenSeq([i \in DOMAIN tree |->
        LET here == Append(path, tree[i].name)
        IN <<[path |-> here, kind |-> tree[i].kind]>> \o LiveParts(tree[i].kids, here)])

\* The parts of a stage that have a service of the place to go to.
Wanted(pool, stage, tree) ==
    SelectSeq(Parts(pool, Services(stage), <<>>),
              LAMBDA part :
                \E p \in ToSet(LiveParts(tree, <<>>)) :
                  /\ Len(p.path) = IF part.path[1] = "StarterPlayer" THEN 2 ELSE 1
                  /\ IsStrictPrefix(p.path, part.path))

\* No path is claimed twice but by folders.
Agree(parts) ==
    \A i, j \in DOMAIN parts :
      parts[i].path = parts[j].path => i = j \/ (parts[i].kind = "folder" /\ parts[j].kind = "folder")

\* Whether a tree can take a stage, and whether it is what taking it gives.
Stageable(pool, tree, pkg) ==
    /\ pkg.stage # NoStage
    /\ Agree(LiveParts(ClearLighting(tree), <<>>) \o Wanted(pool, pkg.stage, tree))

HoldsStage(pool, before, pkg, tree) ==
    LET parts == LiveParts(tree, <<>>)
    IN /\ ToSet(parts) = ToSet(LiveParts(ClearLighting(before), <<>>))
                           \cup ToSet(Wanted(pool, pkg.stage, before))
       /\ IsInjective([i \in DOMAIN parts |-> parts[i].path])
=============================================================================
