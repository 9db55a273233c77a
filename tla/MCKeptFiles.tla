---------------------------- MODULE MCKeptFiles -----------------------------
(* Small instances, for TLC, of the five modules about what one run leaves  *)
(* to the next, or shares with another: files, and a Studio with its lock.  *)
(* They have no file in common but the writing of one, so that a history is *)
(* about one of them.                                                       *)
EXTENDS CoverageCache, UploadCache, AtomicWrite, PlaceReuse, StudioLaunch

VARIABLE subject

filesVars == <<subject, vars, uploadVars, writeVars, buildVars, launchVars>>

MCRecipes == {{}, {"module"}}

\* Contents are compared and never ordered: the one a file starts with is no
\* matter.
FilesInit ==
    /\ subject \in {"coverage", "upload", "write", "reuse", "launch"}
    /\ Init /\ UploadInit /\ WriteInit /\ ReuseInit /\ LaunchInit
    /\ \A x \in Files : source[x] = 1
    /\ \A t \in Targets : bytes[t] = 1
    /\ \A f \in Inputs : input[f].text = 1

About(s) == subject = s /\ UNCHANGED subject

\* Once the bounds are used up.
Rest == subject # "coverage" /\ UNCHANGED filesVars

FilesNext ==
    \/ About("coverage") /\ Next /\ UNCHANGED <<uploadVars, writeVars, buildVars, launchVars>>
    \/ About("upload") /\ UploadNext /\ UNCHANGED <<vars, writeVars, buildVars, launchVars>>
    \/ About("write") /\ WriteNext /\ UNCHANGED <<vars, uploadVars, buildVars, launchVars>>
    \/ About("reuse") /\ ReuseNext /\ UNCHANGED <<vars, uploadVars, writeVars, launchVars>>
    \/ About("launch") /\ LaunchNext /\ UNCHANGED <<vars, uploadVars, writeVars, buildVars>>
    \/ Rest

FilesSpec == FilesInit /\ [][FilesNext]_filesVars
=============================================================================
