------------------------ MODULE AdminSessionsProofs ------------------------
(* Proofs about AdminSessions: no session outlives a revocation it did not *)
(* ask for or a password it did not know, and the limiter counts exactly,  *)
(* for any number of requests, sessions, passwords and changes.            *)
EXTENDS AdminSessions, FiniteSetTheorems, TLAPS

SessionRow ==
  [expires: Nat, revoked: BOOLEAN, password: Password, since: Nat, era: Nat]

RequestRow ==
  [pc: {"idle", "login", "create", "act"}, session: Session \cup {NULL},
   seen: Password \cup {NULL}, since: Nat]

Types ==
  /\ clock \in Nat /\ changes \in Nat /\ era \in Nat /\ password \in Password
  /\ session \in [Session -> SessionRow \cup {NULL}]
  /\ req \in [Request -> RequestRow]

\* A login that has compared its password knows the present one, unless the
\* password has been changed since it began.
Knows(r) ==
  /\ req[r].since <= changes
  /\ req[r].pc \in {"create", "act"} => req[r].seen # NULL
  /\ req[r].pc = "create" /\ req[r].since = changes => req[r].seen = password

\* The same of a session, valid or not.
Informed(s) ==
  session[s] # NULL =>
    /\ session[s].since <= changes
    /\ session[s].since = changes => session[s].password = password

\* A session that was not revoked survived the last revocation of the others
\* because it asked for it or came later.
Survivor(s) ==
  session[s] # NULL /\ ~session[s].revoked => session[s].era = era \/ s = keeper

IInv ==
  /\ Types
  /\ \A r \in Request : Knows(r)
  /\ \A s \in Session : Informed(s) /\ Survivor(s)

-----------------------------------------------------------------------------

LEMMA IdleRow == Idle \in RequestRow
  BY DEF Idle, RequestRow

LEMMA Initially == Init => IInv
  BY AdminAssumption, IdleRow
  DEF Init, IInv, Types, Knows, Informed, Survivor, Idle, RequestRow

\* A step of one request that leaves the rows alone.
LEMMA RequestKeeps ==
  ASSUME IInv, NEW r \in Request, NEW q \in RequestRow,
         req' = [req EXCEPT ![r] = q],
         q.since <= changes,
         q.pc \in {"create", "act"} => q.seen # NULL,
         q.pc = "create" /\ q.since = changes => q.seen = password,
         UNCHANGED <<clock, password, session, changes, era, keeper>>
  PROVE  IInv'
<1>1. Types'
  BY DEF IInv, Types
<1>2. \A x \in Request : Knows(x)'
  BY DEF IInv, Types, Knows
<1>3. \A s \in Session : Informed(s)' /\ Survivor(s)'
  BY DEF IInv, Informed, Survivor
<1> QED
  BY <1>1, <1>2, <1>3 DEF IInv

LEMMA AllowKeeps ==
  ASSUME IInv, NEW r \in Request, NEW a \in Address, Allow(r, a)
  PROVE  IInv'
<1>1. CASE UNCHANGED req
  BY <1>1 DEF Allow, IInv, Types, Knows, Informed, Survivor
<1>2. CASE req' = [req EXCEPT ![r] = [Idle EXCEPT !.pc = "login", !.since = changes]]
  <2> DEFINE q == [Idle EXCEPT !.pc = "login", !.since = changes]
  <2>1. q \in RequestRow /\ q.since = changes /\ q.pc = "login"
    BY DEF IInv, Types, Idle, RequestRow
  <2>2. UNCHANGED <<clock, password, session, changes, era, keeper>>
    BY DEF Allow
  <2>3. changes <= changes
    BY DEF IInv, Types
  <2> HIDE DEF q
  <2> QED
    BY <1>2, <2>1, <2>2, <2>3, RequestKeeps DEF q
<1> QED
  BY <1>1, <1>2 DEF Allow

LEMMA IdleAgain ==
  ASSUME IInv, NEW r \in Request, req' = [req EXCEPT ![r] = Idle],
         UNCHANGED <<clock, password, session, changes, era, keeper>>
  PROVE  IInv'
<1>1. Idle.since <= changes /\ Idle.pc = "idle"
  BY DEF IInv, Types, Idle
<1> QED
  BY <1>1, IdleRow, RequestKeeps

LEMMA LoginKeeps ==
  ASSUME IInv, NEW r \in Request, NEW p \in Password, Login(r, p)
  PROVE  IInv'
<1>1. CASE p = password
  <2> DEFINE q == [req[r] EXCEPT !.pc = "create", !.seen = p]
  <2>1. req[r] \in RequestRow
    BY DEF IInv, Types
  <2>2. q \in RequestRow /\ q.since = req[r].since /\ q.seen = p
    BY <2>1 DEF RequestRow
  <2>3. req' = [req EXCEPT ![r] = q]
    BY <1>1 DEF Login
  <2>4. q.since <= changes /\ q.seen # NULL
    BY <2>2, AdminAssumption DEF IInv, Knows
  <2>5. UNCHANGED <<clock, password, session, changes, era, keeper>>
    BY DEF Login, histVars
  <2> HIDE DEF q
  <2> QED
    BY <1>1, <2>2, <2>3, <2>4, <2>5, RequestKeeps
<1>2. CASE p # password
  BY <1>2, IdleAgain DEF Login, histVars
<1> QED
  BY <1>1, <1>2

LEMMA AuthenticateKeeps ==
  ASSUME IInv, NEW r \in Request, NEW s \in Session, Authenticate(r, s)
  PROVE  IInv'
<1> DEFINE q == [Idle EXCEPT !.pc = "act", !.session = s, !.seen = password]
<1>1. q \in RequestRow /\ q.since = 0 /\ q.seen = password /\ q.pc = "act"
  BY DEF IInv, Types, Idle, RequestRow
<1>2. q.since <= changes /\ q.seen # NULL
  BY <1>1, AdminAssumption DEF IInv, Types
<1>3. req' = [req EXCEPT ![r] = q]
      /\ UNCHANGED <<clock, password, session, changes, era, keeper>>
  BY DEF Authenticate, histVars
<1> HIDE DEF q
<1> QED
  BY <1>1, <1>2, <1>3, RequestKeeps

LEMMA CreateKeeps ==
  ASSUME IInv, NEW r \in Request, NEW s \in Session, CreateSession(r, s)
  PROVE  IInv'
<1> DEFINE row == [expires |-> clock + Lifetime, revoked |-> FALSE,
                   password |-> req[r].seen, since |-> req[r].since, era |-> era]
<1>1. req[r] \in RequestRow /\ req[r].seen \in Password /\ req[r].since <= changes
      /\ (req[r].since = changes => req[r].seen = password)
  BY DEF CreateSession, IInv, Types, RequestRow, Knows
<1>2. row \in SessionRow
  BY <1>1, AdminAssumption DEF IInv, Types, RequestRow, SessionRow
<1>3. session' = [session EXCEPT ![s] = row] /\ req' = [req EXCEPT ![r] = Idle]
      /\ UNCHANGED <<clock, password, changes, era, keeper>>
  BY DEF CreateSession, histVars
<1>4. row.since = req[r].since /\ row.password = req[r].seen /\ row.era = era
  OBVIOUS
<1> HIDE DEF row
<1>5. Types'
  BY <1>2, <1>3, IdleRow DEF IInv, Types
<1>6. \A x \in Request : Knows(x)'
  <2>1. Idle.since = 0 /\ Idle.pc = "idle"
    BY DEF Idle
  <2> QED
    BY <1>3, <2>1 DEF IInv, Types, Knows
<1>7. \A x \in Session : Informed(x)' /\ Survivor(x)'
  BY <1>1, <1>3, <1>4 DEF IInv, Types, Informed, Survivor
<1> QED
  BY <1>5, <1>6, <1>7 DEF IInv

\* What a revocation does to a row.
LEMMA RevokedRows ==
  ASSUME Types, NEW S
  PROVE  /\ Revoked(S) \in [Session -> SessionRow \cup {NULL}]
         /\ \A s \in Session : Revoked(S)[s] # NULL =>
              /\ session[s] # NULL
              /\ Revoked(S)[s].since = session[s].since
              /\ Revoked(S)[s].password = session[s].password
              /\ Revoked(S)[s].era = session[s].era
              /\ ~Revoked(S)[s].revoked => s \notin S /\ ~session[s].revoked
<1>1. \A s \in Session : session[s] # NULL => session[s] \in SessionRow
  BY DEF Types
<1> QED
  BY <1>1 DEF Types, Revoked, SessionRow

LEMMA LogoutKeeps ==
  ASSUME IInv, NEW r \in Request, Logout(r)
  PROVE  IInv'
<1>1. session' = Revoked({req[r].session}) /\ req' = [req EXCEPT ![r] = Idle]
      /\ UNCHANGED <<clock, password, changes, era, keeper>>
  BY DEF Logout, histVars
<1>2. Types'
  BY <1>1, RevokedRows, IdleRow DEF IInv, Types
<1>3. \A x \in Request : Knows(x)'
  <2>1. Idle.since = 0 /\ Idle.pc = "idle"
    BY DEF Idle
  <2> QED
    BY <1>1, <2>1 DEF IInv, Types, Knows
<1>4. \A x \in Session : Informed(x)' /\ Survivor(x)'
  BY <1>1, RevokedRows DEF IInv, Informed, Survivor
<1> QED
  BY <1>2, <1>3, <1>4 DEF IInv

LEMMA RevokeKeeps ==
  ASSUME IInv, NEW r \in Request, RevokeOtherSessions(r)
  PROVE  IInv'
<1>1. session' = Revoked(Session \ {req[r].session}) /\ req' = [req EXCEPT ![r] = Idle]
      /\ era' = era + 1 /\ keeper' = req[r].session
      /\ UNCHANGED <<clock, password, changes>>
  BY DEF RevokeOtherSessions
<1>2. Types'
  BY <1>1, RevokedRows, IdleRow DEF IInv, Types
<1>3. \A x \in Request : Knows(x)'
  <2>1. Idle.since = 0 /\ Idle.pc = "idle"
    BY DEF Idle
  <2> QED
    BY <1>1, <2>1 DEF IInv, Types, Knows
<1>4. \A x \in Session : Informed(x)'
  BY <1>1, RevokedRows DEF IInv, Informed
<1>5. \A x \in Session : Survivor(x)'
  BY <1>1, RevokedRows DEF IInv, Survivor
<1> QED
  BY <1>2, <1>3, <1>4, <1>5 DEF IInv

LEMMA ChangeKeeps ==
  ASSUME IInv, NEW r \in Request, NEW p \in Password, NEW q \in Password,
         ChangePassword(r, p, q)
  PROVE  IInv'
<1>1. CASE p = req[r].seen
  <2>1. password' = q /\ changes' = changes + 1 /\ req' = [req EXCEPT ![r] = Idle]
        /\ UNCHANGED <<clock, session, era, keeper>>
    BY <1>1 DEF ChangePassword
  <2>2. Types'
    BY <2>1, IdleRow DEF IInv, Types
  <2>3. \A x \in Request : req[x].since \in Nat /\ req[x].since <= changes
    BY DEF IInv, Types, RequestRow, Knows
  <2>4. \A x \in Request : Knows(x)'
    <3>1. Idle.since = 0 /\ Idle.pc = "idle"
      BY DEF Idle
    <3> QED
      BY <2>1, <2>3, <3>1 DEF IInv, Types, Knows
  <2>5. \A x \in Session : session[x] # NULL => session[x].since \in Nat
    BY DEF IInv, Types, SessionRow
  <2>6. \A x \in Session : Informed(x)' /\ Survivor(x)'
    BY <2>1, <2>5 DEF IInv, Types, Informed, Survivor
  <2> QED
    BY <2>2, <2>4, <2>6 DEF IInv
<1>2. CASE p # req[r].seen
  BY <1>2, IdleAgain DEF ChangePassword
<1> QED
  BY <1>1, <1>2

LEMMA RestartKeeps ==
  ASSUME IInv, Restart
  PROVE  IInv'
<1>1. Types'
  BY IdleRow DEF IInv, Types, Restart
<1>2. \A x \in Request : Knows(x)'
  BY DEF IInv, Types, Restart, Knows, Idle
<1>3. \A s \in Session : Informed(s)' /\ Survivor(s)'
  BY DEF IInv, Restart, Informed, Survivor
<1> QED
  BY <1>1, <1>2, <1>3 DEF IInv

LEMMA StepKeeps == IInv /\ [Next]_vars => IInv'
<1> SUFFICES ASSUME IInv, [Next]_vars
             PROVE  IInv'
  OBVIOUS
<1>1. CASE Tick
  BY <1>1 DEF Tick, histVars, IInv, Types, Knows, Informed, Survivor
<1>2. CASE Restart
  BY <1>2, RestartKeeps
<1>3. ASSUME NEW r \in Request, NEW a \in Address, Allow(r, a)
      PROVE  IInv'
  BY <1>3, AllowKeeps
<1>4. ASSUME NEW r \in Request, NEW p \in Password, Login(r, p)
      PROVE  IInv'
  BY <1>4, LoginKeeps
<1>5. ASSUME NEW r \in Request, NEW s \in Session, CreateSession(r, s) \/ Authenticate(r, s)
      PROVE  IInv'
  BY <1>5, CreateKeeps, AuthenticateKeeps
<1>6. ASSUME NEW r \in Request, Logout(r) \/ RevokeOtherSessions(r)
      PROVE  IInv'
  BY <1>6, LogoutKeeps, RevokeKeeps
<1>7. ASSUME NEW r \in Request, NEW p \in Password, NEW q \in Password, ChangePassword(r, p, q)
      PROVE  IInv'
  BY <1>7, ChangeKeeps
<1>8. CASE UNCHANGED vars
  BY <1>8 DEF vars, histVars, IInv, Types, Knows, Informed, Survivor
<1> QED
  BY <1>1, <1>2, <1>3, <1>4, <1>5, <1>6, <1>7, <1>8 DEF Next

LEMMA Invariant == Spec => []IInv
  BY Initially, StepKeeps, PTL DEF Spec

\* A valid session whose login began after the last change of the password knows
\* the present one, and it was opened after the last revocation of other sessions
\* or asked for it, however requests overlap (handleLogin, handleChangePassword,
\* handleRevokeSessions).
THEOREM SessionsCorrect == Spec => []SessionsAreCurrent
<1>1. IInv => SessionsAreCurrent
  BY DEF IInv, Informed, Survivor, SessionsAreCurrent, Valid
<1> QED
  BY <1>1, Invariant, PTL

-----------------------------------------------------------------------------
(* The limiter.                                                            *)

Attempt == [at: Nat, nr: Nat]

\* What the limiter of an address keeps: it has dropped nothing that is still in
\* the window, nothing in it was refused, and it is never over its limit.
Counted(a) ==
  /\ IsFiniteSet(admitted[a])
  /\ attempts[a] \subseteq admitted[a]
  /\ Kept(admitted[a]) \subseteq attempts[a]
  /\ Cardinality(Kept(attempts[a])) <= Max
  /\ \A e \in admitted[a] : e.nr < Cardinality(admitted[a])

LimiterInv ==
  /\ clock \in Nat
  /\ attempts \in [Address -> SUBSET Attempt]
  /\ admitted \in [Address -> SUBSET Attempt]
  /\ \A a \in Address : Counted(a)

LEMMA LimiterInitially == Init => LimiterInv
<1> SUFFICES ASSUME Init PROVE LimiterInv
  OBVIOUS
<1>1. IsFiniteSet({}) /\ Cardinality({}) = 0 /\ Kept({}) = {}
  BY FS_EmptySet DEF Kept
<1> QED
  BY <1>1, AdminAssumption DEF Init, LimiterInv, Counted

\* What is admitted has passed the count, is new and is in the window.
LEMMA AdmittedCounted ==
  ASSUME LimiterInv, NEW a \in Address,
         Cardinality(Kept(attempts[a])) < Max,
         UNCHANGED clock,
         attempts'[a] = Kept(attempts[a]) \cup {Now(a)},
         admitted'[a] = admitted[a] \cup {Now(a)}
  PROVE  Counted(a)'
<1> DEFINE n == Now(a)  K == Kept(attempts[a])
<1>1. IsFiniteSet(admitted[a]) /\ attempts[a] \subseteq admitted[a]
      /\ admitted[a] \subseteq Attempt
      /\ Kept(admitted[a]) \subseteq attempts[a]
      /\ \A e \in admitted[a] : e.nr < Cardinality(admitted[a])
  BY DEF LimiterInv, Counted
<1>2. Cardinality(admitted[a]) \in Nat
  BY <1>1, FS_CardinalityType
<1>3. n.at = clock /\ n.nr = Cardinality(admitted[a]) /\ n \in Attempt
      /\ n \notin admitted[a]
  BY <1>1, <1>2 DEF Now, Attempt, LimiterInv
<1>4. K \subseteq attempts[a] /\ IsFiniteSet(K)
  BY <1>1, FS_Subset DEF Kept
<1>5. Cardinality(K) \in Nat /\ Cardinality(K) < Max
  BY <1>4, FS_CardinalityType
<1>6. n \notin K
  BY <1>1, <1>3, <1>4
<1> HIDE DEF n, K
<1>7. IsFiniteSet(admitted[a] \cup {n}) /\ IsFiniteSet(K \cup {n})
      /\ Cardinality(admitted[a] \cup {n}) = Cardinality(admitted[a]) + 1
      /\ Cardinality(K \cup {n}) = Cardinality(K) + 1
  BY <1>1, <1>3, <1>4, <1>6, FS_AddElement
<1>8. IsFiniteSet(admitted[a])' /\ (\A e \in admitted[a] : e.nr < Cardinality(admitted[a]))'
  <2>1. admitted'[a] = admitted[a] \cup {n}
    BY DEF n
  <2>2. \A e \in admitted[a] \cup {n} : e.nr < Cardinality(admitted[a]) + 1
    BY <1>1, <1>2, <1>3 DEF Attempt
  <2> QED
    BY <1>7, <2>1, <2>2
<1>9. attempts'[a] = K \cup {n} /\ admitted'[a] = admitted[a] \cup {n}
  BY DEF n, K
<1>10. (attempts[a] \subseteq admitted[a])'
  BY <1>1, <1>4, <1>9
<1>11. (Kept(admitted[a]) \subseteq attempts[a])'
  <2>1. \A e \in Kept(admitted[a])' : e.at > clock - Window /\ (e = n \/ e \in admitted[a])
    BY <1>9 DEF Kept
  <2>2. \A e \in admitted[a] : e.at > clock - Window => e \in K
    BY <1>1 DEF Kept, K
  <2> QED
    BY <1>9, <2>1, <2>2
<1>12. (Cardinality(Kept(attempts[a])) <= Max)'
  <2>1. Kept(attempts[a])' \subseteq K \cup {n}
    BY <1>9 DEF Kept
  <2>2. /\ IsFiniteSet(Kept(attempts[a])')
        /\ Cardinality(Kept(attempts[a])') <= Cardinality(K \cup {n})
        /\ Cardinality(Kept(attempts[a])') \in Nat
    BY <1>7, <2>1, FS_Subset, FS_CardinalityType
  <2> QED
    BY <1>5, <1>7, <2>2, AdminAssumption
<1> QED
  BY <1>8, <1>10, <1>11, <1>12 DEF Counted

LEMMA AllowCounted ==
  ASSUME LimiterInv, NEW r \in Request, NEW a \in Address, Allow(r, a)
  PROVE  LimiterInv'
<1> DEFINE kept == Kept(attempts[a])
<1>1. UNCHANGED clock
  BY DEF Allow
<1>2. IsFiniteSet(kept) /\ Cardinality(kept) \in Nat /\ kept \subseteq attempts[a]
      /\ IsFiniteSet(admitted[a]) /\ Cardinality(admitted[a]) \in Nat
  BY FS_Subset, FS_CardinalityType DEF LimiterInv, Counted, Kept
<1>3. Now(a) \in Attempt
  BY <1>2 DEF Now, Attempt, LimiterInv
<1>4. CASE Cardinality(kept) >= Max
  <2>1. attempts' = [attempts EXCEPT ![a] = kept] /\ UNCHANGED admitted
    BY <1>4 DEF Allow
  <2>2. attempts'[a] = kept /\ attempts' \in [Address -> SUBSET Attempt]
    BY <1>2, <2>1 DEF LimiterInv
  <2>3. Counted(a)'
    <3>1. Kept(admitted[a])' = Kept(admitted[a]) /\ Kept(attempts[a])' = kept
      BY <1>1, <2>1, <2>2 DEF Kept
    <3>2. Kept(admitted[a]) \subseteq kept
      BY DEF LimiterInv, Counted, Kept
    <3> QED
      BY <1>2, <2>1, <2>2, <3>1, <3>2 DEF LimiterInv, Counted
  <2>4. \A b \in Address \ {a} : Counted(b)'
    BY <1>1, <2>1 DEF LimiterInv, Counted, Kept
  <2> QED
    BY <1>1, <2>1, <2>2, <2>3, <2>4 DEF LimiterInv
<1>5. CASE ~(Cardinality(kept) >= Max)
  <2>1. /\ attempts' = [attempts EXCEPT ![a] = kept \cup {Now(a)}]
        /\ admitted' = [admitted EXCEPT ![a] = @ \cup {Now(a)}]
    BY <1>5 DEF Allow
  <2>2. /\ attempts'[a] = kept \cup {Now(a)} /\ attempts' \in [Address -> SUBSET Attempt]
        /\ admitted'[a] = admitted[a] \cup {Now(a)}
        /\ admitted' \in [Address -> SUBSET Attempt]
    BY <1>2, <1>3, <2>1 DEF LimiterInv
  <2>3. Cardinality(kept) < Max
    BY <1>2, <1>5, AdminAssumption
  <2>4. Counted(a)'
    BY <1>1, <2>2, <2>3, AdmittedCounted
  <2>5. \A b \in Address \ {a} : attempts'[b] = attempts[b] /\ admitted'[b] = admitted[b]
    BY <2>1 DEF LimiterInv
  <2>6. \A b \in Address \ {a} : Counted(b)'
    BY <1>1, <2>5 DEF LimiterInv, Counted, Kept
  <2> QED
    BY <1>1, <2>2, <2>4, <2>6 DEF LimiterInv
<1> QED
  BY <1>4, <1>5

\* Time only moves attempts out of the window.
LEMMA TickCounted == ASSUME LimiterInv, Tick PROVE LimiterInv'
<1>1. clock \in Nat /\ clock' = clock + 1 /\ UNCHANGED <<attempts, admitted>>
  BY DEF LimiterInv, Tick, histVars
<1>2. ASSUME NEW a \in Address PROVE Counted(a)'
  <2>1. IsFiniteSet(admitted[a]) /\ attempts[a] \subseteq admitted[a]
        /\ Kept(admitted[a]) \subseteq attempts[a] /\ admitted[a] \subseteq Attempt
        /\ Cardinality(Kept(attempts[a])) <= Max
        /\ \A e \in admitted[a] : e.nr < Cardinality(admitted[a])
    BY DEF LimiterInv, Counted
  <2>2. \A e \in admitted[a] : e.at > clock' - Window => e.at > clock - Window
    BY <1>1, <2>1, AdminAssumption DEF Attempt
  <2>3. Kept(attempts[a])' \subseteq Kept(attempts[a])
    BY <1>1, <2>1, <2>2 DEF Kept
  <2>4. Kept(admitted[a])' \subseteq Kept(admitted[a])
    BY <1>1, <2>1, <2>2 DEF Kept
  <2>5. IsFiniteSet(Kept(attempts[a]))
    BY <2>1, FS_Subset DEF Kept
  <2>6. Cardinality(Kept(attempts[a])') <= Max
    BY <2>1, <2>3, <2>5, FS_Subset, FS_CardinalityType, AdminAssumption
  <2> QED
    BY <1>1, <2>1, <2>4, <2>6 DEF Counted
<1> QED
  BY <1>1, <1>2 DEF LimiterInv

LEMMA LimiterStep == LimiterInv /\ [Next]_vars => LimiterInv'
<1> SUFFICES ASSUME LimiterInv, [Next]_vars
             PROVE  LimiterInv'
  OBVIOUS
<1>1. ASSUME UNCHANGED <<clock, attempts, admitted>>
      PROVE  LimiterInv'
  BY <1>1 DEF LimiterInv, Counted, Kept
<1>2. CASE Tick
  BY <1>2, TickCounted
<1>3. CASE Restart
  <2>1. clock' \in Nat /\ attempts' = [a \in Address |-> {}] /\ admitted' = attempts'
    BY <1>3 DEF Restart, LimiterInv
  <2>2. ASSUME NEW a \in Address PROVE Counted(a)'
    <3>1. attempts'[a] = {} /\ admitted'[a] = {}
      BY <2>1
    <3>2. Kept(attempts[a])' = {} /\ Kept(admitted[a])' = {}
      BY <3>1 DEF Kept
    <3>3. IsFiniteSet({}) /\ Cardinality({}) = 0
      BY FS_EmptySet
    <3> QED
      BY <3>1, <3>2, <3>3, AdminAssumption DEF Counted
  <2> QED
    BY <2>1, <2>2 DEF LimiterInv
<1>4. ASSUME NEW r \in Request, NEW a \in Address, Allow(r, a)
      PROVE  LimiterInv'
  BY <1>4, AllowCounted
<1>5. ASSUME NEW r \in Request, NEW p \in Password, Login(r, p)
      PROVE  LimiterInv'
  BY <1>1, <1>5 DEF Login, histVars
<1>6. ASSUME NEW r \in Request, NEW s \in Session, CreateSession(r, s) \/ Authenticate(r, s)
      PROVE  LimiterInv'
  BY <1>1, <1>6 DEF CreateSession, Authenticate, histVars
<1>7. ASSUME NEW r \in Request, Logout(r) \/ RevokeOtherSessions(r)
      PROVE  LimiterInv'
  BY <1>1, <1>7 DEF Logout, RevokeOtherSessions, histVars
<1>8. ASSUME NEW r \in Request, NEW p \in Password, NEW q \in Password, ChangePassword(r, p, q)
      PROVE  LimiterInv'
  BY <1>1, <1>8 DEF ChangePassword
<1>9. CASE UNCHANGED vars
  BY <1>1, <1>9 DEF vars, histVars
<1> QED
  BY <1>2, <1>3, <1>4, <1>5, <1>6, <1>7, <1>8, <1>9 DEF Next

\* In no window does an address get more than Max attempts from one process, and
\* the limiter counts exactly those it let pass (RateLimiter.Allow).
THEOREM LimiterCorrect == Spec => []LimiterIsExact
<1>1. LimiterInv => LimiterIsExact
  <2> SUFFICES ASSUME LimiterInv, NEW a \in Address
               PROVE  /\ Kept(attempts[a]) = Kept(admitted[a])
                      /\ Cardinality(Kept(admitted[a])) <= Max
    BY DEF LimiterIsExact
  <2>1. Kept(attempts[a]) = Kept(admitted[a])
    BY DEF LimiterInv, Counted, Kept
  <2> QED
    BY <2>1 DEF LimiterInv, Counted
<1> QED
  BY <1>1, LimiterInitially, LimiterStep, PTL DEF Spec

=============================================================================
