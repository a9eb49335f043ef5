----------------------------- MODULE MCUpdateJob -----------------------------
(* Constants for model checking UpdateJob: small control trees.            *)
EXTENDS UpdateJob

CONSTANTS c, a, b

\* c <- a <- b
ChainParent == [n \in {a, b} |-> IF n = b THEN a ELSE c]
ChainDepth  == [n \in {c, a, b} |-> CASE n = c -> 0 [] n = a -> 1 [] n = b -> 2]

=============================================================================
