-------------------------- MODULE MCCoverageCache ---------------------------
(* A small instance of CoverageCache for TLC: one module, one spec file,    *)
(* one input, and options that have the module probed or not.              *)
EXTENDS CoverageCache

MCRecipes == {{}, {"module"}}
MCProbed == {{"module"}}
=============================================================================
