---------------------------- MODULE MCEnrollment ----------------------------
(* Constants for model checking Enrollment: the controller c and three other *)
(* nodes.                                                                    *)
EXTENDS Enrollment, TLC

CONSTANTS c, m1, m2, m3, t1, t2, s1, s2

\* One token for the controller, one for the node m1.
TokenFor == [t \in {t1, t2} |-> IF t = t1 THEN c ELSE m1]

\* The slots, and the nodes no token is for, are interchangeable.
Names == Permutations({m2, m3}) \cup Permutations({s1, s2})

=============================================================================
