--------------------------- MODULE MCPlaceBatch ---------------------------
(***************************************************************************)
(* A share of a few packages over a small place, with the materializer     *)
(* putting real trees into it.  A package is its name and its stage, so    *)
(* that many stages can be tried at once.                                  *)
(***************************************************************************)
EXTENDS PlaceBatch, PlaceStage

MCPlace ==
    <<Live("ReplicatedStorage", "folder",
           <<Live("Test", "folder", <<Live("spec", "module", <<>>)>>)>>),
      Live("Lighting", "folder", <<Live("Sky", "module", <<>>)>>),
      Live("StarterPlayer", "folder", <<Live("StarterPlayerScripts", "folder", <<>>)>>)>>

Pool == [lib |-> Folder("lib", <<Script("a"), Folder("b", <<Script("c")>>)>>),
         mod |-> Script("mod")]

\* What a stage may hold at one name of ReplicatedStorage: plain, standing for
\* something pooled, with more beside it, or with a marker further down.
Children(name) ==
    {Script(name), Folder(name, <<Script("spec")>>), Folder(name, <<Script("a")>>),
     Marker(name, "lib", <<>>), Marker(name, "mod", <<Script("a")>>),
     Marker(name, "lib", <<Script("a")>>),
     Marker(name, "lib", <<Folder("b", <<Script("d")>>)>>),
     Folder(name, <<Marker("b", "lib", <<Folder("b", <<Marker("e", "mod", <<>>)>>)>>)>>)}

Stage(kids) == Folder("stage", <<Folder("ReplicatedStorage", kids)>>)
Stages == {Stage(<<c>>) : c \in Children("Test")}
            \cup {Stage(<<c, d>>) : c \in Children("Test"), d \in Children("lib")}

Rich == [name |-> "rich", stage |->
           Folder("stage", <<Folder("ReplicatedStorage",
                                    <<Marker("lib", "lib", <<Folder("b", <<Script("d")>>)>>),
                                      Folder("Test", <<Script("own")>>)>>),
                             Folder("Teams", <<Script("nowhere")>>),
                             Folder("Lighting", <<Script("Sky")>>),
                             Folder("StarterPlayer",
                                    <<Folder("StarterPlayerScripts", <<Script("client")>>),
                                      Folder("StarterGear", <<Script("nowhere")>>)>>)>>)]
Bare == [name |-> "bare", stage |-> Script("lib")]
Colliding == [name |-> "colliding", stage |-> Stage(<<Script("lib"), Script("Test")>>)]
Missing == [name |-> "missing", stage |-> NoStage]

Project(pkg) == [pkg |-> pkg, budgeted |-> TRUE]
Endless(pkg) == [pkg |-> pkg, budgeted |-> FALSE]

Packages(share) == {share[i].pkg : i \in DOMAIN share}

MCBatches ==
    {<<Project(Rich), Project(Rich), Project(Bare)>>, <<Endless(Bare), Project(Rich)>>,
     <<Project(Rich), Project(Colliding), Project(Colliding)>>,
     <<Project(Missing), Project(Rich), Project(Missing)>>}
      \cup {<<Project([name |-> "any", stage |-> s])>> : s \in Stages}

\* Every package that is ever staged finds the place as it opened or, once a
\* package was staged, with Lighting empty: worked out once.
Stagings ==
    [tree \in {MCPlace, ClearLighting(MCPlace)}, pkg \in UNION {Packages(b) : b \in MCBatches} |->
       Materialized(Pool, tree, pkg)]
MCMaterialize(tree, pkg) ==
    IF <<tree, pkg>> \in DOMAIN Stagings THEN Stagings[tree, pkg] ELSE Materialized(Pool, tree, pkg)

\* What the materializer is held to: the parts a stage means, whatever the steps.
MCClean(tree) ==
    LiveParts(ClearLighting(tree), <<>>) = LiveParts(ClearLighting(MCPlace), <<>>)
MCStaged(pkg, tree) == HoldsStage(Pool, MCPlace, pkg, tree)
MCCanStage(pkg) == Stageable(Pool, MCPlace, pkg)
MCTrees ==
    {MCPlace, ClearLighting(MCPlace)} \cup {Stagings[s].tree : s \in DOMAIN Stagings}
=============================================================================
