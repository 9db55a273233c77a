------------------------------ MODULE MCCliRun ------------------------------
(***************************************************************************)
(* Three projects: two in package "a", one in package "b".  Project 1 has  *)
(* a runtime test, 2 shares a Type Test with it and has a runtime test of  *)
(* its own, 3 has one of each.  "stray" lies under no project.             *)
(***************************************************************************)
EXTENDS CliRun

MCPkgOf == <<"a", "a", "b">>
MCTypeTests == {"t12", "t3"}
MCTestFiles == {"r1", "r2", "r3", "stray"} \cup MCTypeTests
MCOwners ==
  [f \in MCTestFiles |->
     CASE f = "r1"  -> {1}
       [] f = "r2"  -> {2}
       [] f = "r3"  -> {3}
       [] f = "t12" -> {1, 2}
       [] f = "t3"  -> {3}
       [] OTHER     -> {}]

Layer(enabled, only) == [enabled |-> enabled, only |-> only]
Unset == Layer("unset", "unset")

MCCliLayers == {Unset, Layer("yes", "unset"), Layer("unset", "yes")}
RootLayers == {Unset, Layer("unset", "yes")}
ProjectLayers ==
  {[p \in Projects |-> Unset],
   [p \in Projects |-> IF p = 1 THEN Layer("unset", "yes") ELSE Unset],
   [p \in Projects |-> Layer("unset", IF p = 2 THEN "no" ELSE "yes")]}

Disks == {{}, {"r1"}, {"r2", "r3"}, {"t12"}, {"r3", "t12"}, {"r1", "r2", "r3"},
          {"r1", "r2", "t3"}, MCTestFiles \ {"stray"}}
FileChoices == {{}, {"r1"}, {"t12"}, {"r2", "stray"}, {"r1", "r3", "t3"}, {"stray"}}
NameChoices == {{}, {1}, {1, 3}, {2, Unknown}}
Patterns == {MCTestFiles, {"r1", "r3", "t12"}, {}}
Lenient(m) == IF m = "multi" THEN {{}, {"a", "b"}} ELSE {{}, {"a"}, {"a", "b"}}

MCRequests(m, cli) ==
  [cli : {cli}, root : RootLayers, project : ProjectLayers,
   names : NameChoices, files : FileChoices, pattern : Patterns,
   disk : Disks, lenient : Lenient(m)]

MCGatedUnits(m) == IF m = "multi" THEN {"root"} ELSE {"a", "b"}
=============================================================================
