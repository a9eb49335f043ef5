--------------------------- MODULE MCTrafficPolicy ---------------------------
(* One policy, whose rows no other policy touches, over a controller and   *)
(* two nodes, all linked; paths of two and three hops, two changed links.   *)
EXTENDS TrafficPolicy, TLC

Symmetry == Permutations(Node \ {Controller})
=============================================================================
