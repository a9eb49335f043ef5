---------------------------- MODULE AdminSessions ----------------------------
(***************************************************************************)
(* The administrator's sessions.  A login passes a limiter that counts the *)
(* attempts of an address within a sliding window, compares the password   *)
(* with the stored hash and inserts a session.  Every other request is     *)
(* admitted by its session and runs with the session and administrator     *)
(* rows read then; meanwhile other requests change the password and revoke *)
(* sessions.  Attempts live in memory, passwords and sessions in SQLite.   *)
(*                                                                         *)
(* Simplifications:                                                        *)
(*  - A password stands for its hash; there is one administrator.          *)
(*  - The limiter's slice of times is a set of numbered times: the code    *)
(*    filters and counts them, and their order plays no part.              *)
(*  - Handlers that change neither sessions nor password are not there.    *)
(*  - The expiry is compared when a request is admitted; the row stays.    *)
(***************************************************************************)
EXTENDS Naturals, FiniteSets

CONSTANTS
  Request,      \* HTTP requests in progress
  Session,      \* ids of sessions
  Address,      \* client addresses
  Password,
  First,        \* the password set by --bootstrap
  Max,          \* attempts allowed within the window
  Window,       \* its length
  Lifetime,     \* of a session
  NULL,
  MaxClock,     \* bound: ticks
  MaxChanges,   \* bound: changes of the password
  MaxRevokes,   \* bound: calls of handleRevokeSessions
  MaxRestarts   \* bound: restarts of the controller

ASSUME AdminAssumption ==
  /\ First \in Password /\ NULL \notin Session \cup Password
  /\ {Max, Window, Lifetime, MaxClock, MaxChanges, MaxRevokes, MaxRestarts}
       \subseteq Nat

VARIABLES
  clock,
  attempts,     \* the limiter: the attempts it keeps for an address
  password,     \* admin.password_hash
  session,      \* table sessions
  req,          \* requests in progress
  restarts,
  \* history
  admitted,     \* all attempts of an address that this process admitted
  changes,      \* how often the password was changed
  era, keeper   \* how often other sessions were revoked, and by which session

histVars == <<admitted, changes, era, keeper>>
vars     == <<clock, attempts, password, session, req, restarts, histVars>>

Idle == [pc |-> "idle", session |-> NULL, seen |-> NULL, since |-> 0]

Init ==
  /\ clock = Window
  /\ attempts = [a \in Address |-> {}] /\ admitted = attempts
  /\ password = First
  /\ session = [s \in Session |-> NULL]
  /\ req = [r \in Request |-> Idle]
  /\ restarts = 0 /\ changes = 0 /\ era = 0 /\ keeper = NULL

Tick ==
  /\ clock < MaxClock
  /\ clock' = clock + 1
  /\ UNCHANGED <<attempts, password, session, req, restarts, histVars>>

-----------------------------------------------------------------------------
(* RateLimiter.Allow.                                                      *)

Kept(S) == {t \in S : t.at > clock - Window}

\* Attempts at the same time have different numbers.
Now(a) == [at |-> clock, nr |-> Cardinality(admitted[a])]

\* Variant: the times are kept whatever the answer is.
AllowCountsAll(r, a) ==
  /\ req[r].pc = "idle"
  /\ attempts' = [attempts EXCEPT ![a] = Kept(@) \cup {Now(a)}]
  /\ IF Cardinality(Kept(attempts[a])) >= Max
     THEN UNCHANGED <<req, admitted>>
     ELSE /\ req' = [req EXCEPT ![r] = [Idle EXCEPT !.pc = "login", !.since = changes]]
          /\ admitted' = [admitted EXCEPT ![a] = @ \cup {Now(a)}]
  /\ UNCHANGED <<clock, password, session, restarts, changes, era, keeper>>

\* A refused attempt is not counted.
Allow(r, a) ==
  LET kept == Kept(attempts[a]) IN
  /\ req[r].pc = "idle"
  /\ IF Cardinality(kept) >= Max
     THEN attempts' = [attempts EXCEPT ![a] = kept] /\ UNCHANGED <<req, admitted>>
     ELSE /\ attempts' = [attempts EXCEPT ![a] = kept \cup {Now(a)}]
          /\ req' = [req EXCEPT ![r] = [Idle EXCEPT !.pc = "login", !.since = changes]]
          /\ admitted' = [admitted EXCEPT ![a] = @ \cup {Now(a)}]
  /\ UNCHANGED <<clock, password, session, restarts, changes, era, keeper>>

-----------------------------------------------------------------------------
(* handleLogin after the limiter.                                          *)

\* A missing or wrong password ends the request.
Login(r, p) ==
  /\ req[r].pc = "login"
  /\ req' = [req EXCEPT ![r] =
       IF p = password THEN [@ EXCEPT !.pc = "create", !.seen = p] ELSE Idle]
  /\ UNCHANGED <<clock, attempts, password, session, restarts, histVars>>

CreateSession(r, s) ==
  /\ req[r].pc = "create" /\ session[s] = NULL
  /\ session' = [session EXCEPT ![s] =
       [expires |-> clock + Lifetime, revoked |-> FALSE,
        password |-> req[r].seen, since |-> req[r].since, era |-> era]]
  /\ req' = [req EXCEPT ![r] = Idle]
  /\ UNCHANGED <<clock, attempts, password, restarts, histVars>>

-----------------------------------------------------------------------------
(* Requests with a session.                                                *)

Valid(s) == session[s] # NULL /\ ~session[s].revoked /\ clock <= session[s].expires

\* authMiddleware: the rows it read stay with the request.
Authenticate(r, s) ==
  /\ req[r].pc = "idle" /\ Valid(s)
  /\ req' = [req EXCEPT ![r] = [Idle EXCEPT !.pc = "act", !.session = s, !.seen = password]]
  /\ UNCHANGED <<clock, attempts, password, session, restarts, histVars>>

Revoked(S) ==
  [s \in Session |-> IF s \in S /\ session[s] # NULL
                     THEN [session[s] EXCEPT !.revoked = TRUE] ELSE session[s]]

Logout(r) ==
  /\ req[r].pc = "act"
  /\ session' = Revoked({req[r].session})
  /\ req' = [req EXCEPT ![r] = Idle]
  /\ UNCHANGED <<clock, attempts, password, restarts, histVars>>

\* The current password is compared with the row read by the middleware, the new
\* one is stored over whatever is there; sessions stay.
ChangePassword(r, current, new) ==
  /\ req[r].pc = "act" /\ changes < MaxChanges
  /\ IF current = req[r].seen
     THEN password' = new /\ changes' = changes + 1
     ELSE UNCHANGED <<password, changes>>
  /\ req' = [req EXCEPT ![r] = Idle]
  /\ UNCHANGED <<clock, attempts, session, restarts, admitted, era, keeper>>

\* Variant: the statement revokes only the sessions that are older.
RevokeOlderSessions(r) ==
  /\ req[r].pc = "act" /\ era < MaxRevokes
  /\ session' = Revoked({s \in Session : session[s] # NULL
                                           /\ session[s].expires < session[req[r].session].expires})
  /\ era' = era + 1 /\ keeper' = req[r].session
  /\ req' = [req EXCEPT ![r] = Idle]
  /\ UNCHANGED <<clock, attempts, password, restarts, admitted, changes>>

\* handleRevokeSessions: a session revoked meanwhile still revokes the others.
RevokeOtherSessions(r) ==
  /\ req[r].pc = "act" /\ era < MaxRevokes
  /\ session' = Revoked(Session \ {req[r].session})
  /\ era' = era + 1 /\ keeper' = req[r].session
  /\ req' = [req EXCEPT ![r] = Idle]
  /\ UNCHANGED <<clock, attempts, password, restarts, admitted, changes>>

\* The attempts are forgotten, the sessions are not.
Restart ==
  /\ restarts < MaxRestarts
  /\ restarts' = restarts + 1
  /\ attempts' = [a \in Address |-> {}] /\ admitted' = attempts'
  /\ req' = [r \in Request |-> Idle]
  /\ UNCHANGED <<clock, password, session, changes, era, keeper>>

-----------------------------------------------------------------------------

Next ==
  \/ Tick \/ Restart
  \/ \E r \in Request :
       \/ \E a \in Address : Allow(r, a)
       \/ \E p \in Password : Login(r, p)
       \/ \E s \in Session : CreateSession(r, s) \/ Authenticate(r, s)
       \/ Logout(r) \/ RevokeOtherSessions(r)
       \/ \E p, q \in Password : ChangePassword(r, p, q)

Spec == Init /\ [][Next]_vars

-----------------------------------------------------------------------------
(* Properties.                                                             *)

\* In no window does an address get more than Max attempts from one process, and
\* the limiter counts exactly those that passed it, so somebody refused is let in
\* again as soon as the oldest of them leaves the window (RateLimiter.Allow).
LimiterIsExact ==
  \A a \in Address :
    /\ Kept(attempts[a]) = Kept(admitted[a])
    /\ Cardinality(Kept(admitted[a])) <= Max

\* However logins, changes and revocations overlap: a valid session whose login
\* began after the last change of the password knows the present one, and it was
\* opened after the last revocation of other sessions or asked for it
\* (handleLogin, handleChangePassword, handleRevokeSessions).
SessionsAreCurrent ==
  \A s \in Session : Valid(s) =>
    /\ session[s].since = changes => session[s].password = password
    /\ session[s].era = era \/ s = keeper

=============================================================================
