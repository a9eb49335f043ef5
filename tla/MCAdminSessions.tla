--------------------------- MODULE MCAdminSessions ---------------------------
(* Two requests at a time, two sessions, one address that may try twice.    *)
EXTENDS AdminSessions, TLC

Symmetry == Permutations(Request) \cup Permutations(Session)
=============================================================================
