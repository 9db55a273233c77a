-------------------------- MODULE MCCloudDispatch ---------------------------
(* A small instance of CloudDispatch for TLC: five jobs in two buckets, one *)
(* of them bigger than an envelope on its own.                             *)
EXTENDS CloudDispatch

MCParallel == [kind |-> "count", n |-> 2]
MCSize == <<5, 1, 2, 3, 2>>
MCBlockerSets == {{"x"}, {"x", "y"}}
=============================================================================
