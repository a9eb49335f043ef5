--------------------------- MODULE MCReleaseOrigin ---------------------------
(* Two requests at a time, two releases, two of the files.  An administrator *)
(* has a directory with the second release, but without the agent.           *)
EXTENDS ReleaseOrigin, TLC

MCFiles == <<"pathweaver-controller", "pathweaver-agent">>

MCSources == {[f \in File |-> IF f = "pathweaver-agent" THEN Absent ELSE 2]}

Symmetry == Permutations(Request)
=============================================================================
