----------------------------- MODULE Membership -----------------------------
(***************************************************************************)
(* What enrollment promises: the members of the network form a tree below  *)
(* the controller and have distinct overlay addresses.  The promise is     *)
(* kept as long as requests do not interfere; `clean' says that they have  *)
(* not so far.  Enrollment implements this specification.                  *)
(***************************************************************************)

CONSTANTS Node, Root, Addr, RootAddr, NULL

\* What the module that implements this one must provide.
MembershipAssumption ==
  /\ Root \in Node /\ RootAddr \in Addr
  /\ NULL \notin Node \cup Addr

VARIABLES
  member,  \* the nodes in the network
  gone,    \* nodes that left; their ids do not come back
  addr,    \* overlay address of each member
  parent,  \* control parent of each member
  clean    \* no two requests have interfered

mVars == <<member, gone, addr, parent, clean>>

Others == member \ {Root}

MInit ==
  /\ member = {Root} /\ gone = {}
  /\ addr = [n \in Node |-> IF n = Root THEN RootAddr ELSE NULL]
  /\ parent = [n \in Node |-> NULL]
  /\ clean = TRUE

Dirty == clean' \in {clean, FALSE}

\* A new node joins below a member, with an address nobody has.
Join(n, a, p) ==
  /\ n \notin gone
  /\ member' = member \cup {n}
  /\ Dirty
  /\ clean' => \A m \in member : addr[m] # a
  /\ addr' = [addr EXCEPT ![n] = a]
  /\ parent' = [parent EXCEPT ![n] = p]
  /\ UNCHANGED gone

\* A member without children leaves.  If it got a child after the check, the
\* child stays behind without a parent.
Leave(n) ==
  /\ member' = member \ {n}
  /\ Dirty
  /\ clean' => \A m \in member : parent[m] # n
  /\ gone' = gone \cup {n}
  /\ addr' = [addr EXCEPT ![n] = NULL]
  /\ parent' = [m \in Node |-> IF m = n \/ parent[m] = n THEN NULL ELSE parent[m]]

Interfere ==
  /\ clean' = FALSE
  /\ UNCHANGED <<member, gone, addr, parent>>

MNext ==
  \/ \E n \in Node \ member, p \in member, a \in Addr : Join(n, a, p)
  \/ \E n \in Others : Leave(n)
  \/ Interfere

MSpec == MInit /\ [][MNext]_mVars

-----------------------------------------------------------------------------

\* No two members have the same overlay address (AllocateOverlayIPv4).
DistinctAddresses ==
  clean => \A m, n \in member : addr[m] = addr[n] => m = n

\* Every member but the controller has a member for a parent, and no set of
\* members has all its parents within itself, so that every chain of parents
\* ends at the controller (CreateNode, DeleteNode).
Tree ==
  clean =>
    /\ \A n \in Others : parent[n] \in member
    /\ \A S \in SUBSET Others : S # {} => \E n \in S : parent[n] \notin S

=============================================================================
