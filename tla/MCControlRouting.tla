-------------------------- MODULE MCControlRouting --------------------------
(* Constants for model checking ControlRouting: the controller c, a chain of *)
(* two nodes below it, and a node that may enroll anywhere.                  *)
EXTENDS ControlRouting

CONSTANTS c, m1, m2, m3

\* The chain c - m1 - m2.
Chain == [n \in {m1, m2} |-> IF n = m1 THEN c ELSE m1]

ChainLink == [n \in {m1, m2} |-> IF n = m1 THEN 1 ELSE 2]

ChainAddr == [n \in {c, m1, m2} |-> IF n = c THEN 1 ELSE IF n = m1 THEN 2 ELSE 3]

=============================================================================
