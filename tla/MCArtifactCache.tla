--------------------------- MODULE MCArtifactCache ---------------------------
(* Constants for model checking ArtifactCache: two nodes in a chain below    *)
(* the controller, and an installer that enrolls a node below the nearer one.*)
EXTENDS ArtifactCache

CONSTANTS near, far, script

ChainParent == [m \in {near, far, script} |-> IF m = near THEN Origin ELSE near]
ChainLine   == [n \in {near, far} |-> IF n = near THEN {near} ELSE {near, far}]

\* The target release, and bin/ as it is before the update.
Directories == {[f \in File |-> v] : v \in Version}

=============================================================================
