--------------------------- MODULE MCConfigPublish ---------------------------
(* Constants for model checking ConfigPublish: the tree c <- a <- b with a   *)
(* shortcut between c and b.                                                 *)
EXTENDS ConfigPublish

CONSTANTS c, a, b, ca, ab, cb

ChainParent   == [n \in {a, b} |-> IF n = b THEN a ELSE c]
ChainJoin     == [n \in {a, b} |-> IF n = b THEN ab ELSE ca]
TriangleEnds  == [l \in {ca, ab, cb} |->
                    CASE l = ca -> {c, a} [] l = ab -> {a, b} [] l = cb -> {c, b}]

=============================================================================
