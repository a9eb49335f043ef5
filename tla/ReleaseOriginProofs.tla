------------------------ MODULE ReleaseOriginProofs ------------------------
(* Proofs about ReleaseOrigin: what a release directory holds, how old an  *)
(* answer can be and what a restart loads, for any number of releases,     *)
(* files, requests and failures.                                           *)
EXTENDS ReleaseOrigin, TLAPS

Content == 0 .. MaxRelease + 1

RequestRow ==
  [pc: {"idle", "ask", "store", "download", "stage", "write"},
   kind: {"show", "pull", "dir", "bin"}, since: Nat,
   info: Content \cup {NULL}, src: [File -> Content], next: Nat \ {0}]

Types ==
  /\ body \in Release /\ package \in Release \cup {Absent}
  /\ clock \in Nat /\ cached \in Content \cup {NULL} /\ running \in Content
  /\ req \in [Request -> RequestRow]
  /\ dir \in [Release -> [File -> Content]] /\ bin \in [File -> Content]
  /\ inst.pc = "copy" => inst.version \in Release

\* Nothing has come between a lookup and the package it was about.
Untouched == lapses \cap {"lookup", "moved"} = {}

\* A request that writes a directory reads that version's files only, and nothing
\* changes them meanwhile.
Copies(r) ==
  req[r].pc \in {"stage", "write"} /\ req[r].info \notin relabelled =>
    /\ \A f \in File : Reading(req[r])[f] \in {req[r].info, Absent}
    /\ req[r].kind = "bin" => inst.pc # "copy"

\* A pull that knows a version finds that version's package or none.
Follows(r) ==
  /\ req[r].kind = "pull" /\ req[r].pc \in {"store", "download"} =>
       req[r].info \in Release /\ package \in {req[r].info, Absent}
  /\ Copies(r)

IInv ==
  /\ Types
  /\ \A r \in Request : req[r].pc = "download" => req[r].kind = "pull"
  /\ Untouched => \A r \in Request : Follows(r)
  /\ StagedAsLabelled

-----------------------------------------------------------------------------

LEMMA Numbers ==
  /\ MaxRelease \in Nat \ {0} /\ NULL \notin Release
  /\ Files[1] \in File
  /\ Release \subseteq Content /\ {Absent, Torn} \subseteq Content /\ Absent \notin Release
  BY OriginAssumption DEF Release, Content, Absent, Torn, File

LEMMA IdleRow == Idle \in RequestRow /\ Idle.pc = "idle"
  BY Numbers DEF Idle, RequestRow, NoFiles

LEMMA Initially == Init => IInv
<1> SUFFICES ASSUME Init PROVE IInv
  OBVIOUS
<1>1. 1 \in Release
  BY Numbers DEF Release
<1>2. Types
  BY <1>1, Numbers, IdleRow DEF Init, Types, NoInst
<1>3. \A r \in Request : Follows(r) /\ req[r].pc = "idle"
  BY IdleRow DEF Init, Follows, Copies
<1>4. StagedAsLabelled
  BY DEF Init, StagedAsLabelled
<1> QED
  BY <1>2, <1>3, <1>4 DEF IInv

\* A step of one request that writes nothing.
LEMMA RequestKeeps ==
  ASSUME IInv, NEW r \in Request, NEW q \in RequestRow,
         req' = [req EXCEPT ![r] = q],
         lapses \subseteq lapses', relabelled \subseteq relabelled',
         q.pc = "download" => q.kind = "pull",
         Untouched' => Follows(r)',
         cached' \in Content \cup {NULL},
         UNCHANGED <<body, package, dir, bin, inst, clock, running>>
  PROVE  IInv'
<1>1. Types'
  BY DEF IInv, Types
<1>2. Untouched' => Untouched
  BY DEF Untouched
<1>3. \A x \in Request : x # r => req'[x] = req[x]
  BY DEF IInv, Types
<1>4. req'[r] = q
  BY DEF IInv, Types
<1>5. Untouched' => \A x \in Request : Follows(x)'
  <2> SUFFICES ASSUME Untouched', NEW x \in Request, x # r
               PROVE  Follows(x)'
    OBVIOUS
  <2> QED
    BY <1>2, <1>3 DEF IInv, Follows, Copies, Reading
<1>6. StagedAsLabelled'
  BY <1>2 DEF IInv, StagedAsLabelled, Untouched
<1> QED
  BY <1>1, <1>3, <1>4, <1>5, <1>6 DEF IInv

LEMMA IdleAgain ==
  ASSUME IInv, NEW r \in Request, req' = [req EXCEPT ![r] = Idle],
         lapses \subseteq lapses', relabelled \subseteq relabelled',
         UNCHANGED <<body, package, dir, bin, inst, clock, cached, running>>
  PROVE  IInv'
<1>1. req'[r] = Idle
  BY DEF IInv, Types
<1>2. Follows(r)'
  BY <1>1, IdleRow DEF Follows, Copies
<1>3. cached' \in Content \cup {NULL}
  BY DEF IInv, Types
<1> QED
  BY <1>2, <1>3, IdleRow, RequestKeeps

\* A request asks.
LEMMA AskKeeps ==
  ASSUME IInv, NEW r \in Request, Ask(r) \/ Pull(r)
  PROVE  IInv'
<1> DEFINE a == [Idle EXCEPT !.pc = "ask", !.since = clock]
           p == [Idle EXCEPT !.pc = "ask", !.kind = "pull", !.since = clock]
<1>1. {a, p} \subseteq RequestRow /\ a.pc = "ask" /\ p.pc = "ask"
  BY IdleRow DEF RequestRow, IInv, Types
<1>2. req' = [req EXCEPT ![r] = a] \/ req' = [req EXCEPT ![r] = p]
  BY DEF Ask, Pull
<1> HIDE DEF a, p
<1>3. PICK q \in RequestRow : q.pc = "ask" /\ req' = [req EXCEPT ![r] = q]
  BY <1>1, <1>2
<1>4. UNCHANGED <<body, package, dir, bin, inst, clock, cached, running, lapses, relabelled>>
  BY DEF Ask, Pull, githubVars, cacheVars, diskVars, notes
<1>5. req'[r] = q
  BY <1>3 DEF IInv, Types
<1>6. Follows(r)' /\ cached' \in Content \cup {NULL}
  BY <1>3, <1>4, <1>5 DEF Follows, Copies, IInv, Types
<1> QED
  BY <1>3, <1>4, <1>6, RequestKeeps

LEMMA LookupKeeps ==
  ASSUME IInv, NEW r \in Request, Lookup(r)
  PROVE  IInv'
<1> DEFINE q == [req[r] EXCEPT !.pc = "store", !.info = body]
<1>1. req[r] \in RequestRow
  BY DEF IInv, Types
<1>2. q \in RequestRow /\ q.pc = "store" /\ q.info = body /\ q.kind = req[r].kind
  BY <1>1, Numbers DEF IInv, Types, RequestRow
<1>3. req' = [req EXCEPT ![r] = q]
  BY DEF Lookup
<1> HIDE DEF q
<1>4. req'[r] = q
  BY <1>3 DEF IInv, Types
<1>5. /\ UNCHANGED <<body, package, dir, bin, inst, clock, cached, running, relabelled>>
      /\ lapses \subseteq lapses'
  BY DEF Lookup, githubVars, diskVars, cacheVars, notes
<1>6. Untouched' => Follows(r)'
  BY <1>2, <1>4, <1>5 DEF Lookup, Untouched, Follows, Copies, IInv, Types
<1>7. cached' \in Content \cup {NULL}
  BY <1>5 DEF IInv, Types
<1> QED
  BY <1>2, <1>3, <1>5, <1>6, <1>7, RequestKeeps

LEMMA LookupFailsKeeps ==
  ASSUME IInv, NEW r \in Request, LookupFails(r)
  PROVE  IInv'
<1> DEFINE q == [req[r] EXCEPT !.pc = "store"]
<1>1. req[r] \in RequestRow
  BY DEF IInv, Types
<1>2. q \in RequestRow /\ q.pc = "store"
  BY <1>1 DEF RequestRow
<1>3. req' = [req EXCEPT ![r] = q]
  BY DEF LookupFails
<1>4. /\ lapses' = lapses \cup {"lookup"}
      /\ UNCHANGED <<body, package, dir, bin, inst, clock, cached, running, relabelled>>
  BY DEF LookupFails, githubVars, diskVars, cacheVars, notes
<1>5. ~Untouched'
  BY <1>4 DEF Untouched
<1>6. cached' \in Content \cup {NULL}
  BY <1>4 DEF IInv, Types
<1> HIDE DEF q
<1> QED
  BY <1>2, <1>3, <1>4, <1>5, <1>6, RequestKeeps

LEMMA StoreKeeps ==
  ASSUME IInv, NEW r \in Request, Store(r)
  PROVE  IInv'
<1> DEFINE known  == IF cached # NULL THEN cached ELSE running
           answer == IF req[r].info # NULL THEN req[r].info ELSE known
           q == IF req[r].kind = "pull"
                THEN [req[r] EXCEPT !.pc = "download", !.info = answer, !.since = 0]
                ELSE Idle
<1>1. req[r] \in RequestRow
  BY DEF IInv, Types
<1>2. answer \in Content
  BY <1>1 DEF IInv, Types, RequestRow
<1>3. req' = [req EXCEPT ![r] = q] /\ cached' = answer
      /\ UNCHANGED <<body, package, dir, bin, inst, clock, running, lapses, relabelled>>
  BY <1>1 DEF Store, githubVars, diskVars, notes, IInv, Types
<1>4. Untouched /\ req[r].kind = "pull" => req[r].info \in Release /\ package \in {req[r].info, Absent}
  BY DEF Store, IInv, Follows
<1>5. Untouched /\ req[r].kind = "pull" => answer = req[r].info
  BY <1>4, Numbers
<1> HIDE DEF known, answer
<1>6. /\ q \in RequestRow /\ (q.pc = "idle" \/ (q.pc = "download" /\ q.kind = "pull" /\ req[r].kind = "pull"))
      /\ q.pc = "download" => q.info = answer
  <2>1. CASE req[r].kind = "pull"
    <3>1. q = [req[r] EXCEPT !.pc = "download", !.info = answer, !.since = 0]
      BY <2>1
    <3> QED
      BY <1>1, <1>2, <2>1, <3>1 DEF RequestRow
  <2>2. CASE req[r].kind # "pull"
    <3>1. q = Idle
      BY <2>2
    <3> QED
      BY <3>1, IdleRow
  <2> QED
    BY <2>1, <2>2
<1> HIDE DEF q
<1>7. req'[r] = q
  BY <1>3 DEF IInv, Types
<1>8. Untouched' => Follows(r)'
  BY <1>3, <1>4, <1>5, <1>6, <1>7 DEF Untouched, Follows, Copies
<1> QED
  BY <1>2, <1>3, <1>6, <1>8, RequestKeeps

LEMMA DownloadKeeps ==
  ASSUME IInv, NEW r \in Request, Download(r)
  PROVE  IInv'
<1> DEFINE q == [req[r] EXCEPT !.pc = "stage", !.src = [f \in File |-> package]]
<1>1. req[r] \in RequestRow /\ req[r].kind = "pull" /\ package \in Content
  BY Numbers DEF Download, IInv, Types
<1>2. /\ q \in RequestRow /\ q.pc = "stage" /\ q.src = [f \in File |-> package]
      /\ q.info = req[r].info /\ q.kind = "pull"
  BY <1>1 DEF RequestRow
<1>3. req' = [req EXCEPT ![r] = q]
      /\ UNCHANGED <<body, package, dir, bin, inst, clock, cached, running, lapses, relabelled>>
  BY DEF Download, githubVars, diskVars, cacheVars
<1> HIDE DEF q
<1>4. req'[r] = q
  BY <1>2, <1>3 DEF IInv, Types
<1>5. Untouched' => Follows(r)'
  <2> SUFFICES ASSUME Untouched' PROVE Follows(r)'
    OBVIOUS
  <2>1. package = req[r].info
    BY <1>1, <1>3 DEF Download, Untouched, Follows, IInv
  <2>2. \A f \in File : Reading(q)[f] = q.info
    BY <1>2, <2>1 DEF Reading
  <2> QED
    BY <1>2, <1>4, <2>2 DEF Follows, Copies, Reading
<1>6. cached' \in Content \cup {NULL}
  BY <1>3 DEF IInv, Types
<1> QED
  BY <1>2, <1>3, <1>5, <1>6, RequestKeeps

\* A job for any version, from any files.
LEMMA CreateKeeps ==
  ASSUME IInv, NEW r \in Request, NEW v \in Release, NEW kind \in {"dir", "bin"},
         NEW files \in Sources \cup {NoFiles}, CreateUpdate(r, v, kind, files)
  PROVE  IInv'
<1> DEFINE q == [Idle EXCEPT !.pc = "stage", !.kind = kind, !.info = v, !.src = files]
<1>1. files \in [File -> Content]
  BY Numbers, OriginAssumption DEF NoFiles
<1>2. q \in RequestRow /\ q.pc = "stage" /\ q.kind = kind /\ q.info = v
  BY <1>1, IdleRow, Numbers DEF RequestRow
<1>3. /\ req' = [req EXCEPT ![r] = q] /\ relabelled \subseteq relabelled'
      /\ v \notin relabelled' => ~(kind = "bin" /\ inst.pc = "copy")
                                /\ \A f \in File : Reading(q)[f] \in {v, Absent}
      /\ UNCHANGED <<body, package, dir, bin, inst, clock, cached, running, lapses>>
  BY DEF CreateUpdate, githubVars, diskVars, cacheVars
<1> HIDE DEF q
<1>4. req'[r] = q
  BY <1>2, <1>3 DEF IInv, Types
<1>5. Follows(r)'
  BY <1>2, <1>3, <1>4 DEF Follows, Copies, Reading
<1>6. cached' \in Content \cup {NULL}
  BY <1>3 DEF IInv, Types
<1> QED
  BY <1>2, <1>3, <1>5, <1>6, RequestKeeps

\* A request that goes on in the directory it writes.
LEMMA GoesOn ==
  ASSUME IInv, NEW r \in Request, Skip(r) \/ Truncate(r) \/ Write(r)
  PROVE  /\ req[r] \in RequestRow /\ req[r].pc \in {"stage", "write"}
         /\ \E q \in RequestRow :
              /\ req' = [req EXCEPT ![r] = q] /\ q.info = req[r].info
              /\ q.src = req[r].src /\ q.kind = req[r].kind
              /\ \/ Truncate(r) /\ q.pc = "write" /\ q.next = req[r].next
                 \/ ~Truncate(r) /\ q.pc = "stage" /\ q.next = req[r].next + 1
<1> DEFINE t == [req[r] EXCEPT !.pc = "write"]
           w == [req[r] EXCEPT !.pc = "stage", !.next = req[r].next + 1]
<1>1. req[r] \in RequestRow /\ req[r].pc \in {"stage", "write"}
  BY DEF Skip, Truncate, Write, IInv, Types
<1>2. /\ t \in RequestRow /\ t.info = req[r].info /\ t.src = req[r].src
      /\ t.kind = req[r].kind /\ t.pc = "write" /\ t.next = req[r].next
  BY <1>1 DEF RequestRow
<1>3. /\ w \in RequestRow /\ w.info = req[r].info /\ w.src = req[r].src
      /\ w.kind = req[r].kind /\ w.pc = "stage" /\ w.next = req[r].next + 1
  <2>1. req[r].next + 1 \in Nat \ {0}
    BY <1>1 DEF RequestRow
  <2> QED
    BY <1>1, <2>1 DEF RequestRow
<1>4. Truncate(r) => req' = [req EXCEPT ![r] = t]
  BY DEF Truncate
<1>5. ~Truncate(r) => req' = [req EXCEPT ![r] = w]
  <2>1. CASE Write(r)
    BY <2>1 DEF Write
  <2>2. CASE Skip(r)
    <3>1. req' = [req EXCEPT ![r] = [req[r] EXCEPT !.next = req[r].next + 1]]
      BY <2>2 DEF Skip, IInv, Types
    <3>2. [req[r] EXCEPT !.next = req[r].next + 1] = w
      BY <1>1, <2>2 DEF Skip, RequestRow
    <3> QED
      BY <3>1, <3>2
  <2> QED
    BY <2>1, <2>2
<1> HIDE DEF t, w
<1> QED
  BY <1>1, <1>2, <1>3, <1>4, <1>5

\* Writing a file keeps the directories as they are labelled.
LEMMA WriteKeeps ==
  ASSUME IInv, NEW r \in Request, Skip(r) \/ Truncate(r) \/ Write(r)
  PROVE  IInv'
<1> DEFINE f0 == Files[req[r].next]
<1>1. /\ req[r] \in RequestRow /\ req[r].pc \in {"stage", "write"}
      /\ \E q \in RequestRow : /\ req' = [req EXCEPT ![r] = q] /\ q.info = req[r].info
                               /\ q.src = req[r].src /\ q.kind = req[r].kind
                               /\ q.pc \in {"stage", "write"}
  BY GoesOn
<1>2. PICK q \in RequestRow : /\ req' = [req EXCEPT ![r] = q]
                               /\ q.pc \in {"stage", "write"} /\ q.info = req[r].info
                               /\ q.src = req[r].src /\ q.kind = req[r].kind
  BY <1>1
<1>3. UNCHANGED <<body, package, bin, inst, clock, cached, running, lapses, relabelled>>
  BY DEF Skip, Truncate, Write, githubVars, cacheVars, diskVars, notes
<1>4. \/ UNCHANGED dir
      \/ \E c \in {Torn, Reading(req[r])[f0]} : dir' = [dir EXCEPT ![req[r].info][f0] = c]
  BY DEF Skip, Truncate, Write, diskVars
<1>5. Reading(req[r]) \in [File -> Content]
  BY <1>1 DEF Reading, IInv, Types, RequestRow
<1>6. \A v \in Release, f \in File :
        dir'[v][f] \in {dir[v][f]} \cup IF v = req[r].info THEN {Torn, Reading(req[r])[f]} ELSE {}
  BY <1>4 DEF IInv, Types
<1>7. dir' \in [Release -> [File -> Content]]
  <2>1. CASE UNCHANGED dir
    BY <2>1 DEF IInv, Types
  <2>2. CASE \E c \in {Torn, Reading(req[r])[f0]} : dir' = [dir EXCEPT ![req[r].info][f0] = c]
    <3>1. PICK c \in {Torn, Reading(req[r])[f0]} : dir' = [dir EXCEPT ![req[r].info][f0] = c]
      BY <2>2
    <3>2. f0 \in File => c \in Content
      BY <1>5, <3>1, Numbers
    <3> QED
      BY <3>1, <3>2 DEF IInv, Types
  <2> QED
    BY <1>4, <2>1, <2>2
<1>8. Types'
  BY <1>2, <1>3, <1>7 DEF IInv, Types
<1>9. req'[r] = q /\ \A x \in Request : x # r => req'[x] = req[x]
  BY <1>2 DEF IInv, Types
<1>10. \A x \in Request : req'[x].pc = "download" => req'[x].kind = "pull"
  BY <1>2, <1>9 DEF IInv
<1>11. Untouched' => \A x \in Request : Follows(x)'
  BY <1>1, <1>2, <1>3, <1>9 DEF IInv, Untouched, Follows, Copies, Reading
<1>12. StagedAsLabelled'
  <2> SUFFICES ASSUME Untouched', NEW v \in Release \ relabelled, NEW f \in File
               PROVE  dir'[v][f] \in {Absent, Torn, v}
    BY <1>3 DEF StagedAsLabelled, Untouched
  <2>1. Untouched
    BY <1>3 DEF Untouched
  <2>2. v = req[r].info => Reading(req[r])[f] \in {Absent, v}
    BY <1>1, <2>1 DEF IInv, Follows, Copies
  <2>3. dir[v][f] \in {Absent, Torn, v}
    BY <2>1 DEF IInv, StagedAsLabelled, Untouched
  <2> QED
    BY <1>6, <2>2, <2>3
<1> QED
  BY <1>8, <1>10, <1>11, <1>12 DEF IInv

\* After an error a job from bin/ is created all the same.
LEMMA WriteFailsKeeps ==
  ASSUME IInv, NEW r \in Request, WriteFails(r)
  PROVE  IInv'
<1>1. UNCHANGED <<body, package, dir, bin, inst, clock, cached, running, lapses, relabelled>>
  BY DEF WriteFails, githubVars, diskVars, cacheVars
<1>2. CASE req[r].kind # "bin"
  BY <1>1, <1>2, IdleAgain DEF WriteFails
<1>3. CASE req[r].kind = "bin"
  <2> DEFINE q == [req[r] EXCEPT !.pc = "stage", !.next = Len(Files) + 1]
  <2>1. req[r] \in RequestRow /\ Len(Files) \in Nat /\ req[r].pc \in {"stage", "write"}
    BY OriginAssumption DEF WriteFails, IInv, Types
  <2>2. /\ q \in RequestRow /\ q.pc = "stage" /\ q.info = req[r].info
        /\ q.src = req[r].src /\ q.kind = req[r].kind
    <3>1. Len(Files) + 1 \in Nat \ {0}
      BY <2>1
    <3> QED
      BY <2>1, <3>1 DEF RequestRow
  <2>3. req' = [req EXCEPT ![r] = q]
    BY <1>3 DEF WriteFails
  <2> HIDE DEF q
  <2>4. req'[r] = q /\ cached' \in Content \cup {NULL}
    BY <1>1, <2>3 DEF IInv, Types
  <2>5. Untouched' => Follows(r)'
    BY <1>1, <2>1, <2>2, <2>4 DEF Untouched, Follows, Copies, Reading, IInv
  <2> QED
    BY <1>1, <2>2, <2>3, <2>4, <2>5, RequestKeeps
<1> QED
  BY <1>2, <1>3

\* A package that replaces the one a pull has looked up is noticed.
LEMMA GitHubKeeps ==
  ASSUME IInv, GitHub
  PROVE  IInv'
<1>1. /\ body' \in Release /\ package' \in Release \cup {Absent}
      /\ package' \in {package, Absent} \/ Upload
  BY Numbers DEF GitHub, Announce, Withdraw, Upload, IInv, Types, Release
<1>2. UNCHANGED <<clock, cached, running, req, dir, bin, inst, relabelled>> /\ lapses \subseteq lapses'
  BY DEF GitHub, Announce, Withdraw, Upload, cacheVars, diskVars, notes
<1>3. Types'
  BY <1>1, <1>2 DEF IInv, Types
<1>4. Untouched' => Untouched
  BY <1>2 DEF Untouched
<1>5. Untouched' => \A r \in Request : Follows(r)'
  <2> SUFFICES ASSUME Untouched', NEW r \in Request
               PROVE  Follows(r)'
    OBVIOUS
  <2>1. Follows(r)
    BY <1>4 DEF IInv
  <2>2. CASE package' \in {package, Absent}
    BY <1>2, <2>1, <2>2 DEF Follows, Copies, Reading
  <2>3. CASE Upload
    <3>1. ~(req[r].kind = "pull" /\ req[r].pc \in {"store", "download"})
      BY <2>3 DEF Upload, Untouched
    <3> QED
      BY <1>2, <2>1, <3>1 DEF Follows, Copies, Reading
  <2> QED
    BY <1>1, <2>2, <2>3
<1>6. StagedAsLabelled'
  BY <1>2, <1>4 DEF IInv, StagedAsLabelled, Untouched
<1> QED
  BY <1>2, <1>3, <1>5, <1>6 DEF IInv

LEMMA HandlerKeeps ==
  ASSUME IInv, NEW r \in Request, Handler(r)
  PROVE  IInv'
<1> USE DEF githubVars, diskVars, cacheVars, notes
<1>1. CASE DownloadFails(r)
  BY <1>1, IdleAgain DEF DownloadFails
<1>2. CASE CreateUpdateJob(r)
  BY <1>2, IdleAgain DEF CreateUpdateJob
<1>3. CASE \E v \in Release : \/ CreateUpdate(r, v, "bin", NoFiles)
                               \/ \E files \in Sources : CreateUpdate(r, v, "dir", files)
  BY <1>3, CreateKeeps
<1> QED
  BY <1>1, <1>2, <1>3, AskKeeps, LookupKeeps, LookupFailsKeeps, StoreKeeps,
     DownloadKeeps, WriteKeeps, WriteFailsKeeps DEF Handler

\* The controller's own installation only reads the directories; a job that is being
\* created from the files it replaces has been noticed.
LEMMA InstallKeeps ==
  ASSUME IInv, (\E v \in Release : InstallControllerRelease(v)) \/ CopyFile \/ CopyFails
  PROVE  IInv'
<1>1. /\ UNCHANGED <<body, package, clock, cached, running, req, dir, lapses>>
      /\ relabelled \subseteq relabelled'
  BY DEF InstallControllerRelease, CopyFile, CopyFails, githubVars, cacheVars, diskVars, notes
<1>2. bin' \in [File -> Content] /\ (inst'.pc = "copy" => inst'.version \in Release)
  <2>1. CASE \E v \in Release : InstallControllerRelease(v)
    BY <2>1 DEF InstallControllerRelease, diskVars, IInv, Types
  <2>2. CASE CopyFile
    <3> DEFINE f == Files[inst.next]
    <3>1. inst.version \in Release
      BY <2>2 DEF CopyFile, Copying, IInv, Types
    <3>2. PICK c \in {bin[f], dir[inst.version][f]} : bin' = [bin EXCEPT ![f] = c]
      BY <2>2 DEF CopyFile
    <3>3. bin' \in [File -> Content]
      <4>1. f \in File => c \in Content
        BY <3>1, <3>2 DEF IInv, Types
      <4> QED
        BY <3>2, <4>1 DEF IInv, Types
    <3>4. inst'.version = inst.version \/ inst'.pc # "copy"
      BY <2>2 DEF CopyFile
    <3> QED
      BY <3>1, <3>3, <3>4
  <2>3. CASE CopyFails
    <3>1. PICK c \in {bin[Files[inst.next]], Torn} :
            bin' = [bin EXCEPT ![Files[inst.next]] = c]
      BY <2>3 DEF CopyFails
    <3>2. bin' \in [File -> Content]
      BY <3>1, Numbers DEF IInv, Types
    <3> QED
      BY <2>3, <3>2 DEF CopyFails, NoInst
  <2> QED
    BY <2>1, <2>2, <2>3
<1>3. Types'
  BY <1>1, <1>2 DEF IInv, Types
<1>4. Untouched' => Untouched
  BY <1>1 DEF Untouched
<1>5. ASSUME NEW r \in Request, Copies(r)
      PROVE  Copies(r)'
  <2>1. CASE \E v \in Release : InstallControllerRelease(v)
    <3>1. /\ UNCHANGED bin
          /\ req[r].pc \in {"stage", "write"} /\ req[r].kind = "bin" => req[r].info \in relabelled'
      BY <2>1 DEF InstallControllerRelease, diskVars
    <3> QED
      BY <1>1, <1>5, <3>1 DEF Copies, Reading
  <2>2. CASE CopyFile \/ CopyFails
    <3>1. inst.pc = "copy"
      BY <2>2 DEF CopyFile, CopyFails, Copying
    <3> QED
      BY <1>1, <1>5, <3>1 DEF Copies, Reading
  <2> QED
    BY <2>1, <2>2
<1>6. Untouched' => \A r \in Request : Follows(r)'
  BY <1>1, <1>4, <1>5 DEF IInv, Follows
<1> QED
  BY <1>1, <1>3, <1>4, <1>6 DEF IInv, StagedAsLabelled, Untouched

LEMMA ProcessKeeps ==
  ASSUME IInv, ScheduledRestart \/ Crash
  PROVE  IInv'
<1>1. NewProcess /\ UNCHANGED <<body, package, clock, dir, bin, lapses, relabelled>>
  BY DEF ScheduledRestart, Crash, githubVars, diskVars
<1>2. Types'
  BY <1>1, Numbers, IdleRow DEF NewProcess, NoInst, IInv, Types
<1>3. \A r \in Request : req'[r] = Idle
  BY <1>1 DEF NewProcess
<1>4. \A r \in Request : Follows(r)' /\ req'[r].pc = "idle"
  BY <1>3, IdleRow DEF Follows, Copies
<1>5. StagedAsLabelled'
  BY <1>1 DEF IInv, StagedAsLabelled, Untouched
<1> QED
  BY <1>2, <1>4, <1>5 DEF IInv

LEMMA StepKeeps == IInv /\ [Next]_vars => IInv'
<1> SUFFICES ASSUME IInv, [Next]_vars
             PROVE  IInv'
  OBVIOUS
<1>1. CASE Tick
  BY <1>1 DEF Tick, githubVars, cacheVars, diskVars, notes, IInv, Types, Follows, Copies, Reading,
              Untouched, StagedAsLabelled
<1>2. CASE UNCHANGED vars
  BY <1>2 DEF vars, githubVars, cacheVars, diskVars, notes, IInv, Types, Follows, Copies, Reading,
              Untouched, StagedAsLabelled
<1> QED
  BY <1>1, <1>2, GitHubKeeps, HandlerKeeps, InstallKeeps, ProcessKeeps DEF Next, Installation

\* A directory named after a version holds that version's files and no others, for
\* any number of overlapping pulls, jobs created from any directory or from bin/,
\* installations, failed downloads and copies, and crashes, unless a lookup failed, the
\* package was replaced between the lookup of a pull and its download, or a job for
\* that version was created from other files (handlePullLatest, handleCreateUpdate,
\* SeedRelease).
THEOREM StagedCorrect == Spec => []StagedAsLabelled
<1>1. IInv => StagedAsLabelled
  BY DEF IInv
<1> QED
  BY <1>1, Initially, StepKeeps, PTL DEF Spec

-----------------------------------------------------------------------------
(* How old an answer can be.                                                 *)

\* v has been the latest version at t or since.
LatestSince(v, t) == v \in Release /\ (v = body \/ until[v] >= t)

\* A lookup asks and is answered within a tick.
RecentInv ==
  /\ until \in [Release -> Nat]
  /\ cachedAt \in Nat /\ cachedAt <= clock
  /\ \A r \in Asking : req[r].since \in Nat /\ req[r].since <= clock /\ clock <= req[r].since + 1
  /\ "lookup" \notin lapses =>
       /\ \A r \in Request : req[r].pc = "store" => LatestSince(req[r].info, req[r].since)
       /\ cached # NULL => cached \in Release /\ (cached = body \/ until[cached] + 1 >= cachedAt)

LEMMA RecentInitially == Init => RecentInv
  BY IdleRow DEF Init, RecentInv, Asking

\* A step of one request that stores no answer.
LEMMA AskingKeeps ==
  ASSUME IInv, RecentInv, NEW r \in Request, NEW q \in RequestRow, req' = [req EXCEPT ![r] = q],
         lapses \subseteq lapses',
         q.pc = "ask" => q.since = clock \/ (req[r].pc = "ask" /\ q.since = req[r].since),
         q.pc = "store" => /\ req[r].pc = "ask" /\ q.since = req[r].since
                           /\ "lookup" \notin lapses' => q.info = body,
         UNCHANGED <<body, until, clock, cached, cachedAt>>
  PROVE  RecentInv'
<1>1. \A x \in Request : req'[x] = IF x = r THEN q ELSE req[x]
  BY DEF IInv, Types
<1>2. clock \in Nat /\ body \in Release
  BY DEF IInv, Types
<1>3. \A x \in Asking' : req'[x].since \in Nat /\ req'[x].since <= clock /\ clock <= req'[x].since + 1
  <2> SUFFICES ASSUME NEW x \in Asking'
               PROVE  req'[x].since \in Nat /\ req'[x].since <= clock /\ clock <= req'[x].since + 1
    OBVIOUS
  <2>1. CASE x # r
    BY <1>1, <2>1 DEF Asking, RecentInv
  <2>2. CASE x = r /\ q.since = clock
    BY <1>1, <1>2, <2>2
  <2>3. CASE x = r /\ q.since # clock
    <3>1. r \in Asking /\ q.since = req[r].since
      BY <1>1, <2>3 DEF Asking
    <3> QED
      BY <1>1, <2>3, <3>1 DEF RecentInv
  <2> QED
    BY <2>1, <2>2, <2>3
<1>4. "lookup" \notin lapses' =>
        /\ \A x \in Request : req'[x].pc = "store" => LatestSince(req'[x].info, req'[x].since)
        /\ cached # NULL => cached \in Release /\ (cached = body \/ until[cached] + 1 >= cachedAt)
  BY <1>1, <1>2 DEF RecentInv, LatestSince
<1> QED
  BY <1>3, <1>4 DEF RecentInv, LatestSince

LEMMA LookupRecent ==
  ASSUME IInv, RecentInv, NEW r \in Request, Lookup(r) \/ LookupFails(r)
  PROVE  RecentInv'
<1> DEFINE q == [req[r] EXCEPT !.pc = "store", !.info = body]
           e == [req[r] EXCEPT !.pc = "store"]
<1>1. req[r] \in RequestRow /\ req[r].pc = "ask" /\ body \in Content
  BY Numbers DEF Lookup, LookupFails, IInv, Types
<1>2. /\ {q, e} \subseteq RequestRow /\ q.pc = "store" /\ q.info = body
      /\ q.since = req[r].since /\ e.pc = "store" /\ e.since = req[r].since
  BY <1>1 DEF RequestRow
<1>3. \/ req' = [req EXCEPT ![r] = q] /\ lapses \subseteq lapses'
      \/ req' = [req EXCEPT ![r] = e] /\ lapses' = lapses \cup {"lookup"}
  BY DEF Lookup, LookupFails
<1>4. UNCHANGED <<body, until, clock, cached, cachedAt>>
  BY DEF Lookup, LookupFails, githubVars, cacheVars
<1> HIDE DEF q, e
<1> QED
  BY <1>1, <1>2, <1>3, <1>4, AskingKeeps

\* An answer is stored a tick after it was asked for, at most.
LEMMA StoreRecent ==
  ASSUME IInv, RecentInv, NEW r \in Request, Store(r)
  PROVE  RecentInv'
<1>1. /\ req[r].pc = "store" /\ r \in Asking /\ clock \in Nat /\ cachedAt' = clock
      /\ req[r].info # NULL => cached' = req[r].info
      /\ UNCHANGED <<body, until, clock, lapses>>
  BY DEF Store, Asking, githubVars, IInv, Types
<1>2. \A x \in Request : req'[x].pc \in {"ask", "store"} => req'[x] = req[x]
  <2>1. req[r] \in RequestRow
    BY DEF IInv, Types
  <2>2. req'[r].pc \notin {"ask", "store"}
    <3>1. CASE req[r].kind = "pull"
      BY <2>1, <3>1 DEF Store, IInv, Types, RequestRow
    <3>2. CASE req[r].kind # "pull"
      BY <3>2, IdleRow DEF Store, IInv, Types
    <3> QED
      BY <3>1, <3>2
  <2>3. \A x \in Request \ {r} : req'[x] = req[x]
    BY DEF Store, IInv, Types
  <2> QED
    BY <2>2, <2>3
<1>3. \A x \in Asking' : req'[x].since \in Nat /\ req'[x].since <= clock /\ clock <= req'[x].since + 1
  BY <1>1, <1>2 DEF RecentInv, Asking
<1>4. ASSUME "lookup" \notin lapses
      PROVE  cached' \in Release /\ (cached' = body \/ until[cached'] + 1 >= clock)
  <2>1. LatestSince(req[r].info, req[r].since) /\ cached' = req[r].info
    BY <1>1, <1>4, Numbers DEF RecentInv, LatestSince
  <2>2. req[r].since \in Nat /\ clock <= req[r].since + 1
    BY <1>1 DEF RecentInv
  <2>3. cached' = body \/ (cached' \in Release /\ until[cached'] \in Nat /\ until[cached'] >= req[r].since)
    BY <2>1 DEF LatestSince, RecentInv
  <2> QED
    BY <1>1, <2>1, <2>2, <2>3 DEF LatestSince
<1> QED
  BY <1>1, <1>2, <1>3, <1>4 DEF RecentInv, LatestSince

\* The version that a build replaces was the latest until then.
LEMMA AnnounceRecent ==
  ASSUME IInv, RecentInv, Announce
  PROVE  RecentInv'
<1>1. /\ body \in Release /\ clock \in Nat /\ body' = body + 1
      /\ until' = [until EXCEPT ![body] = clock]
      /\ UNCHANGED <<clock, cached, cachedAt, req, lapses>>
  BY DEF Announce, cacheVars, IInv, Types
<1>2. until' \in [Release -> Nat] /\ Asking' = Asking
  BY <1>1 DEF RecentInv, Asking
<1>3. ASSUME NEW v \in Release, NEW t \in Nat, t <= clock, v = body \/ until[v] >= t
      PROVE  until'[v] >= t
  BY <1>1, <1>3 DEF RecentInv
<1>4. ASSUME "lookup" \notin lapses, NEW r \in Request, req[r].pc = "store"
      PROVE  LatestSince(req[r].info, req[r].since)'
  <2>1. LatestSince(req[r].info, req[r].since) /\ req[r].since \in Nat /\ req[r].since <= clock
    BY <1>4 DEF RecentInv, Asking
  <2> QED
    BY <1>1, <1>3, <2>1 DEF LatestSince
<1>5. ASSUME "lookup" \notin lapses, cached # NULL
      PROVE  cached \in Release /\ until'[cached] + 1 >= cachedAt
  <2>1. cached \in Release /\ cachedAt \in Nat /\ cachedAt <= clock
        /\ (cached = body \/ until[cached] + 1 >= cachedAt)
    BY <1>5 DEF RecentInv
  <2>2. CASE cached = body
    BY <1>1, <2>1, <2>2 DEF RecentInv
  <2>3. CASE cached # body
    BY <1>1, <2>1, <2>3 DEF RecentInv
  <2> QED
    BY <2>1, <2>2, <2>3
<1> QED
  BY <1>1, <1>2, <1>4, <1>5 DEF RecentInv, LatestSince

LEMMA RecentKept == IInv /\ RecentInv /\ [Next]_vars => RecentInv'
<1> SUFFICES ASSUME IInv, RecentInv, [Next]_vars PROVE RecentInv'
  OBVIOUS
<1> USE DEF githubVars, cacheVars
<1>1. CASE Tick
  <2>1. clock \in Nat /\ cachedAt \in Nat
    BY DEF IInv, Types, RecentInv
  <2>2. clock' = clock + 1 /\ UNCHANGED <<body, until, cached, cachedAt, req, lapses>>
        /\ \A r \in Asking : req[r].since = clock
    BY <1>1 DEF Tick
  <2> QED
    BY <2>1, <2>2 DEF RecentInv, Asking, LatestSince
<1>2. CASE Withdraw \/ Upload \/ UNCHANGED vars
  <2>1. UNCHANGED <<body, until, clock, cached, cachedAt, req>> /\ lapses \subseteq lapses'
    BY <1>2 DEF Withdraw, Upload, vars
  <2> QED
    BY <2>1 DEF RecentInv, Asking, LatestSince
<1>3. ASSUME NEW r \in Request, Handler(r) PROVE RecentInv'
  <2> DEFINE a == [Idle EXCEPT !.pc = "ask", !.since = clock]
             p == [Idle EXCEPT !.pc = "ask", !.kind = "pull", !.since = clock]
  <2>1. CASE Ask(r) \/ Pull(r)
    <3>1. {a, p} \subseteq RequestRow /\ a.pc = "ask" /\ p.pc = "ask" /\ a.since = clock /\ p.since = clock
      BY IdleRow DEF RequestRow, IInv, Types, Idle
    <3>2. (req' = [req EXCEPT ![r] = a] \/ req' = [req EXCEPT ![r] = p]) /\ lapses \subseteq lapses'
          /\ UNCHANGED <<body, until, clock, cached, cachedAt>>
      BY <2>1 DEF Ask, Pull
    <3> HIDE DEF a, p
    <3> QED
      BY <3>1, <3>2, AskingKeeps
  <2>2. CASE \/ Download(r) \/ DownloadFails(r) \/ Skip(r) \/ Truncate(r) \/ Write(r)
             \/ WriteFails(r) \/ CreateUpdateJob(r)
             \/ \E v, kind, files : CreateUpdate(r, v, kind, files)
    <3>1. PICK q : req' = [req EXCEPT ![r] = q] /\ q.pc \notin {"ask", "store"}
      <4>1. req[r] \in RequestRow
        BY DEF IInv, Types
      <4>2. CASE \E v, kind, files : CreateUpdate(r, v, kind, files)
        <5>1. PICK v, kind, files : CreateUpdate(r, v, kind, files)
          BY <4>2
        <5> DEFINE q == [Idle EXCEPT !.pc = "stage", !.kind = kind, !.info = v, !.src = files]
        <5>2. req' = [req EXCEPT ![r] = q]
          BY <5>1 DEF CreateUpdate
        <5>3. q.pc = "stage"
          BY DEF Idle
        <5> QED
          BY <5>2, <5>3
      <4>3. CASE WriteFails(r)
        <5> DEFINE q == [req[r] EXCEPT !.pc = "stage", !.next = Len(Files) + 1]
        <5>1. req' = [req EXCEPT ![r] = q] \/ req' = [req EXCEPT ![r] = Idle]
          BY <4>3 DEF WriteFails
        <5>2. q.pc = "stage"
          BY <4>1 DEF RequestRow
        <5> HIDE DEF q
        <5> QED
          BY <5>1, <5>2, IdleRow
      <4>4. CASE Skip(r)
        <5> DEFINE q == [req[r] EXCEPT !.next = req[r].next + 1]
        <5>1. req' = [req EXCEPT ![r] = q]
          BY <4>4 DEF Skip, IInv, Types
        <5>2. q.pc = "stage"
          BY <4>1, <4>4 DEF Skip, RequestRow
        <5> QED
          BY <5>1, <5>2
      <4> QED
        BY <2>2, <4>1, <4>2, <4>3, <4>4, IdleRow
           DEF Download, DownloadFails, Truncate, Write, CreateUpdateJob, RequestRow
    <3>2. UNCHANGED <<body, until, clock, cached, cachedAt>> /\ lapses \subseteq lapses'
      BY <2>2 DEF Download, DownloadFails, Skip, Truncate, Write, WriteFails, CreateUpdateJob, CreateUpdate
    <3>3. \A x \in Request : req'[x].pc \in {"ask", "store"} => req'[x] = req[x]
      BY <3>1 DEF IInv, Types
    <3> QED
      BY <3>2, <3>3 DEF RecentInv, Asking, LatestSince
  <2> QED
    BY <1>3, <2>1, <2>2, LookupRecent, StoreRecent DEF Handler
<1>4. CASE Installation \/ Crash
  <2>1. /\ UNCHANGED <<body, until, clock>> /\ lapses \subseteq lapses'
        /\ \/ UNCHANGED <<cached, cachedAt, req>>
           \/ cached' = NULL /\ cachedAt' = 0 /\ Asking' = {}
    BY <1>4, IdleRow
       DEF Installation, InstallControllerRelease, CopyFile, CopyFails, ScheduledRestart, Crash, NewProcess,
       Asking
  <2>2. \A r \in Request : req'[r].pc = "store" => r \in Asking'
    BY DEF Asking
  <2>3. clock \in Nat
    BY DEF IInv, Types
  <2> QED
    BY <2>1, <2>2, <2>3 DEF RecentInv, Asking, LatestSince
<1> QED
  BY <1>1, <1>2, <1>3, <1>4, AnnounceRecent DEF Next, GitHub

\* While no lookup fails, an answer that is still remembered was right at most Ttl
\* ago, and one that is told at any age was right when it was looked up, for any number
\* of releases and overlapping lookups, in whatever order they store their answers,
\* and for every Ttl (fetchGitHubLatestCached, handleUpdatesOverview).
THEOREM AnswersCorrect == Spec => []AnswersAreRecent
<1>1. ASSUME IInv, RecentInv, "lookup" \notin lapses, Remembered, cached # body
      PROVE  until[cached] + Ttl >= clock
  <2>1. cached # NULL /\ clock - cachedAt < Ttl
    BY <1>1 DEF Remembered
  <2>2. cached \in Release /\ until[cached] \in Nat /\ until[cached] + 1 >= cachedAt
    BY <1>1, <2>1 DEF RecentInv
  <2>3. clock \in Nat /\ cachedAt \in Nat /\ Ttl \in Nat
    BY <1>1, OriginAssumption DEF RecentInv, IInv, Types
  <2> QED
    BY <2>1, <2>2, <2>3
<1>2. ASSUME IInv, RecentInv, "lookup" \notin lapses, cached # NULL
      PROVE  Skipping = body \/ until[Skipping] + 1 >= cachedAt
  BY <1>2 DEF RecentInv, Skipping
<1>3. IInv /\ RecentInv => AnswersAreRecent
  BY <1>1, <1>2 DEF AnswersAreRecent
<1> QED
  BY <1>3, Initially, StepKeeps, RecentInitially, RecentKept, PTL DEF Spec

-----------------------------------------------------------------------------
(* What a restart loads.                                                     *)

\* Request r is writing the files of directory v.
Stages(r, v) == req[r].pc \in {"stage", "write"} /\ req[r].info = v

OneRelease(content) == \E p \in Release : \A f \in File : content[f] = p

Whole(v) == OneRelease(dir[v])

\* It reads files of one release, which nothing changes, and has written those before
\* the next one.
Progress(r, v) ==
  /\ inst.version # v /\ (req[r].kind = "bin" => inst.pc # "copy")
  /\ OneRelease(Reading(req[r]))
  /\ \A i \in DOMAIN Files : i < req[r].next =>
       \/ dir[v][Files[i]] = Reading(req[r])[Files[i]]
       \/ req[r].pc = "write" /\ Files[i] = Files[req[r].next]

\* The files that were installed so far are those of the directory.
Installs ==
  /\ inst.version \in jobs /\ inst.next \in Nat
  /\ \A i \in DOMAIN Files : i < inst.next => bin[Files[i]] = dir[inst.version][Files[i]]

\* One request at a time writes the directory, to its end.
Neat(v) ==
  /\ \A r, s \in Request : Stages(r, v) /\ Stages(s, v) => r = s
  /\ \A r \in Request : Stages(r, v) => Progress(r, v)
  /\ v \in jobs /\ (\A r \in Request : ~Stages(r, v)) => Whole(v)
  /\ inst.pc = "copy" /\ inst.version = v => Installs

LoadInv ==
  /\ \A r \in Request : req[r].pc \in {"idle", "ask", "store", "download"} => req[r].next = 1
  /\ \A v \in Release \ patched : Neat(v)

LEMMA NothingStaged == \A v : Staging(v) = {} <=> \A r \in Request : ~Stages(r, v)
  BY DEF Staging, Stages

LEMMA Positions == \A i \in DOMAIN Files : i \in Nat /\ i >= 1 /\ i <= Len(Files) /\ Files[i] \in File
  BY OriginAssumption DEF File

LEMMA LoadInitially == Init => LoadInv
  BY Positions DEF Init, Idle, NoInst, LoadInv, Neat, Stages

\* A step of a request that does not write, or whose directory is given up.
LEMMA LoadKeeps ==
  ASSUME IInv, LoadInv, NEW r \in Request, NEW q, req' = [req EXCEPT ![r] = q],
         \/ q.pc \in {"idle", "ask", "store", "download"} /\ q.next = 1
         \/ q.pc = "stage" /\ q.info \in patched',
         req[r].pc \in {"stage", "write"} => req[r].info \in patched',
         patched \subseteq patched', UNCHANGED <<dir, bin, inst, jobs>>
  PROVE  LoadInv'
<1>1. \A x \in Request : req'[x] = IF x = r THEN q ELSE req[x]
  BY DEF IInv, Types
<1>2. ASSUME NEW v \in Release \ patched' PROVE Neat(v)'
  <2>1. Neat(v)
    BY <1>2 DEF LoadInv
  <2>2. ~Stages(r, v) /\ ~Stages(r, v)'
    BY <1>1, <1>2 DEF Stages
  <2>3. \A x \in Request :
          /\ Stages(x, v)' <=> Stages(x, v)
          /\ Stages(x, v) => (Progress(x, v) <=> Progress(x, v)')
    BY <1>1, <2>2 DEF Stages, Progress, Reading, OneRelease
  <2>4. Whole(v) <=> Whole(v)'
    BY DEF Whole, OneRelease
  <2>5. Installs <=> Installs'
    BY DEF Installs
  <2> QED
    BY <2>1, <2>3, <2>4, <2>5 DEF Neat
<1> QED
  BY <1>1, <1>2 DEF LoadInv

LEMMA AskLoads ==
  ASSUME IInv, LoadInv, NEW r \in Request,
         Ask(r) \/ Pull(r) \/ Lookup(r) \/ LookupFails(r) \/ Store(r) \/ DownloadFails(r)
  PROVE  LoadInv'
<1> USE DEF diskVars, notes
<1>1. UNCHANGED <<dir, bin, inst, jobs, patched>>
  BY DEF Ask, Pull, Lookup, LookupFails, Store, DownloadFails
<1>2. req[r] \in RequestRow /\ (req[r].pc \in {"idle", "ask", "store", "download"} => req[r].next = 1)
  BY DEF LoadInv, IInv, Types
<1>3. PICK q : /\ req' = [req EXCEPT ![r] = q]
               /\ q.pc \in {"idle", "ask", "store", "download"} /\ q.next = 1
  <2>1. Idle.next = 1 /\ Idle.pc = "idle"
    BY DEF Idle
  <2>2. CASE Ask(r) \/ Pull(r) \/ DownloadFails(r)
    <3> DEFINE a == [Idle EXCEPT !.pc = "ask", !.since = clock]
               p == [Idle EXCEPT !.pc = "ask", !.kind = "pull", !.since = clock]
    <3>1. a.pc = "ask" /\ a.next = 1 /\ p.pc = "ask" /\ p.next = 1
      BY DEF Idle
    <3>2. \E q \in {a, p, Idle} : req' = [req EXCEPT ![r] = q]
      BY <2>2 DEF Ask, Pull, DownloadFails
    <3> HIDE DEF a, p
    <3> QED
      BY <2>1, <3>1, <3>2
  <2>3. CASE Lookup(r) \/ LookupFails(r)
    BY <1>2, <2>3 DEF Lookup, LookupFails, RequestRow
  <2>4. CASE Store(r) /\ req[r].kind = "pull"
    <3> DEFINE known  == IF cached # NULL THEN cached ELSE running
               answer == IF req[r].info # NULL THEN req[r].info ELSE known
               q == [req[r] EXCEPT !.pc = "download", !.info = answer, !.since = 0]
    <3>1. req' = [req EXCEPT ![r] = q]
      BY <2>4 DEF Store
    <3>2. q.pc = "download" /\ q.next = req[r].next /\ req[r].pc = "store"
      BY <1>2, <2>4 DEF Store, RequestRow
    <3> QED
      BY <1>2, <3>1, <3>2
  <2>5. CASE Store(r) /\ req[r].kind # "pull"
    BY <2>1, <2>5 DEF Store
  <2> QED
    BY <2>2, <2>3, <2>4, <2>5
<1>4. req[r].pc \notin {"stage", "write"}
  BY DEF Ask, Pull, Lookup, LookupFails, Store, DownloadFails
<1> QED
  BY <1>1, <1>3, <1>4, LoadKeeps

\* A request begins to write a directory in which nobody else writes or reads, from
\* files of one release.
LEMMA BeginLoads ==
  ASSUME IInv, LoadInv, NEW r \in Request, NEW q, req' = [req EXCEPT ![r] = q],
         req[r].pc \in {"idle", "download"}, q.pc = "stage", q.next = 1,
         patched \subseteq patched',
         q.info \notin patched' =>
           /\ ~Shared(q.info) /\ OneRelease(Reading(q))
           /\ q.kind = "bin" => inst.pc # "copy",
         UNCHANGED <<dir, bin, inst, jobs>>
  PROVE  LoadInv'
<1>1. \A x \in Request : req'[x] = IF x = r THEN q ELSE req[x]
  BY DEF IInv, Types
<1>2. ASSUME NEW v \in Release \ patched' PROVE Neat(v)'
  <2>1. Neat(v)
    BY <1>2 DEF LoadInv
  <2>2. Whole(v) <=> Whole(v)'
    BY DEF Whole, OneRelease
  <2>3. Installs <=> Installs'
    BY DEF Installs
  <2>4. \A x \in Request \ {r} :
          /\ Stages(x, v)' <=> Stages(x, v)
          /\ Progress(x, v)' <=> Progress(x, v)
    BY <1>1 DEF Stages, Progress, Reading, OneRelease
  <2>5. ~Stages(r, v)
    BY DEF Stages
  <2>6. CASE q.info = v
    <3>1. ~Shared(v) /\ OneRelease(Reading(q)) /\ (q.kind = "bin" => inst.pc # "copy")
      BY <1>2, <2>6
    <3>2. (\A x \in Request : ~Stages(x, v)) /\ inst.version # v
      BY <3>1, NothingStaged DEF Shared
    <3>3. OneRelease(Reading(req[r]))'
      BY <1>1, <3>1 DEF Reading, OneRelease
    <3>4. Progress(r, v)' /\ Stages(r, v)'
      BY <1>1, <2>6, <3>1, <3>2, <3>3, Positions DEF Progress, Stages
    <3> QED
      BY <2>4, <3>2, <3>4 DEF Neat
  <2>7. CASE q.info # v
    <3>1. ~Stages(r, v)'
      BY <1>1, <2>7 DEF Stages
    <3> QED
      BY <2>1, <2>2, <2>3, <2>4, <2>5, <3>1 DEF Neat
  <2> QED
    BY <2>6, <2>7
<1> QED
  BY <1>1, <1>2 DEF LoadInv

LEMMA DownloadLoads ==
  ASSUME IInv, LoadInv, NEW r \in Request, Download(r)
  PROVE  LoadInv'
<1> DEFINE q == [req[r] EXCEPT !.pc = "stage", !.src = [f \in File |-> package]]
<1>1. /\ req[r] \in RequestRow /\ req[r].pc = "download" /\ req[r].next = 1
      /\ req[r].kind = "pull" /\ package \in Release
  BY DEF Download, LoadInv, IInv, Types
<1>2. /\ q.pc = "stage" /\ q.info = req[r].info /\ q.next = 1 /\ q.kind = "pull"
      /\ q.src = [f \in File |-> package]
  BY <1>1 DEF RequestRow
<1>3. /\ req' = [req EXCEPT ![r] = q] /\ UNCHANGED <<dir, bin, inst, jobs>>
      /\ patched \subseteq patched' /\ (Shared(req[r].info) => req[r].info \in patched')
  BY DEF Download, diskVars
<1> HIDE DEF q
<1>4. OneRelease(Reading(q))
  BY <1>1, <1>2 DEF OneRelease, Reading
<1> QED
  BY <1>1, <1>2, <1>3, <1>4, BeginLoads

LEMMA CreateLoads ==
  ASSUME IInv, LoadInv, NEW r \in Request, NEW v \in Release, NEW kind \in {"dir", "bin"},
         NEW files, CreateUpdate(r, v, kind, files)
  PROVE  LoadInv'
<1> DEFINE q == [Idle EXCEPT !.pc = "stage", !.kind = kind, !.info = v, !.src = files]
<1>1. q.pc = "stage" /\ q.info = v /\ q.next = 1 /\ q.kind = kind
  BY DEF Idle
<1>2. /\ req' = [req EXCEPT ![r] = q] /\ req[r].pc = "idle" /\ UNCHANGED <<dir, bin, inst, jobs>>
      /\ patched \subseteq patched'
      /\ v \notin patched' => /\ ~Shared(v) /\ ~(kind = "bin" /\ inst.pc = "copy")
                             /\ \E w \in Release : \A f \in File : Reading(q)[f] \in {w}
  BY DEF CreateUpdate, diskVars
<1> HIDE DEF q
<1>3. v \notin patched' => OneRelease(Reading(q))
  BY <1>2 DEF OneRelease
<1> QED
  BY <1>1, <1>2, <1>3, BeginLoads

\* Only a directory from several releases has no file in the place of another.
LEMMA SkipLoads ==
  ASSUME IInv, LoadInv, NEW r \in Request, Skip(r)
  PROVE  LoadInv'
<1>1. /\ req[r] \in RequestRow /\ req[r].pc = "stage" /\ Files[req[r].next] \in File
      /\ Reading(req[r])[Files[req[r].next]] = Absent
      /\ UNCHANGED <<dir, bin, inst, jobs, patched>>
  <2>1. req[r] \in RequestRow
    BY DEF IInv, Types
  <2>2. req[r].next \in DOMAIN Files
    BY <2>1, OriginAssumption DEF Skip, RequestRow
  <2> QED
    BY <2>1, <2>2 DEF Skip, diskVars, notes, File
<1>2. \E q : /\ req' = [req EXCEPT ![r] = q] /\ q.pc \in {"stage", "write"}
             /\ q.info = req[r].info /\ (q.pc = "write" => Truncate(r))
  BY GoesOn
<1>3. PICK q : /\ req' = [req EXCEPT ![r] = q] /\ q.pc = "stage" /\ q.info = req[r].info
  BY <1>1, <1>2 DEF Truncate
<1>4. ASSUME NEW v \in Release \ patched PROVE ~Stages(r, v)
  BY <1>1, <1>4, Numbers DEF LoadInv, Neat, Progress, OneRelease
<1>5. \A x \in Request : req'[x] = IF x = r THEN q ELSE req[x]
  BY <1>3 DEF IInv, Types
<1>6. ASSUME NEW v \in Release \ patched PROVE Neat(v)'
  <2>1. ~Stages(r, v) /\ ~Stages(r, v)'
    BY <1>1, <1>3, <1>4, <1>5, <1>6 DEF Stages
  <2>2. \A x \in Request :
          /\ Stages(x, v)' <=> Stages(x, v)
          /\ Stages(x, v) => (Progress(x, v) <=> Progress(x, v)')
    BY <1>1, <1>5, <2>1 DEF Stages, Progress, Reading, OneRelease
  <2>3. (Whole(v) <=> Whole(v)') /\ (Installs <=> Installs')
    BY <1>1 DEF Whole, OneRelease, Installs
  <2> QED
    BY <1>1, <1>6, <2>2, <2>3 DEF LoadInv, Neat
<1> QED
  BY <1>1, <1>3, <1>5, <1>6 DEF LoadInv

\* A file of a directory that a request writes.
LEMMA WriteLoads ==
  ASSUME IInv, LoadInv, NEW r \in Request, Truncate(r) \/ Write(r)
  PROVE  LoadInv'
<1> DEFINE v0 == req[r].info
           k  == req[r].next
           f0 == Files[k]
<1>1. /\ req[r] \in RequestRow /\ req[r].pc \in {"stage", "write"}
      /\ \E q \in RequestRow :
           /\ req' = [req EXCEPT ![r] = q] /\ q.info = v0 /\ q.src = req[r].src
           /\ q.kind = req[r].kind
           /\ \/ Truncate(r) /\ q.pc = "write" /\ q.next = k
              \/ ~Truncate(r) /\ q.pc = "stage" /\ q.next = k + 1
  BY GoesOn
<1>2. PICK q \in RequestRow :
           /\ req' = [req EXCEPT ![r] = q] /\ q.info = v0 /\ q.src = req[r].src
           /\ q.kind = req[r].kind
           /\ \/ Truncate(r) /\ q.pc = "write" /\ q.next = k
              \/ ~Truncate(r) /\ q.pc = "stage" /\ q.next = k + 1
  BY <1>1
<1>3. PICK c : /\ dir' = [dir EXCEPT ![v0][f0] = c]
               /\ q.pc = "stage" => c = Reading(req[r])[f0]
  BY <1>2 DEF Truncate, Write
<1>4. \A x \in Request : req'[x] = IF x = r THEN q ELSE req[x]
  BY <1>2 DEF IInv, Types
<1>5. UNCHANGED <<bin, inst, jobs, patched>>
  BY DEF Truncate, Write, notes
<1>6. \A v \in Release, f \in File : dir'[v][f] = IF v = v0 /\ f = f0 THEN c ELSE dir[v][f]
  BY <1>3 DEF IInv, Types
<1>7. Reading(q) = Reading(req[r])
  BY <1>2, <1>4, <1>5 DEF Reading
<1>8. ASSUME NEW v \in Release \ patched PROVE Neat(v)'
  <2>1. Neat(v)
    BY <1>8 DEF LoadInv
  <2>2. \A x \in Request : Stages(x, v)' <=> Stages(x, v)
    BY <1>1, <1>2, <1>4 DEF Stages
  <2>3. Stages(r, v0)
    BY <1>1 DEF Stages
  <2>4. ASSUME NEW x \in Request, Stages(x, v)
        PROVE  Progress(x, v)'
    <3>1. Progress(x, v)
      BY <2>1, <2>4 DEF Neat
    <3>2. CASE x # r
      <4>1. v # v0
        BY <2>1, <2>3, <2>4, <3>2 DEF Neat
      <4> QED
        BY <1>4, <1>5, <1>6, <3>1, <3>2, <4>1, Positions DEF Progress, Reading, OneRelease
    <3>3. CASE x = r
      <4>1. v = v0
        BY <2>4, <3>3 DEF Stages
      <4>2. /\ inst.version # v0 /\ (q.kind = "bin" => inst.pc # "copy")
            /\ OneRelease(Reading(req[r]))
        BY <1>2, <3>1, <3>3, <4>1 DEF Progress
      <4>3. ASSUME NEW i \in DOMAIN Files, i < q.next
            PROVE  dir'[v0][Files[i]] = Reading(q)[Files[i]] \/ (q.pc = "write" /\ Files[i] = Files[q.next])
        <5>1. k \in Nat /\ i \in Nat /\ Files[i] \in File
          BY <1>1, <4>3, Positions DEF RequestRow
        <5>2. CASE Files[i] = f0
          BY <1>2, <1>3, <1>6, <1>7, <4>1, <5>1, <5>2
        <5>3. CASE Files[i] # f0
          <6>1. i < k
            BY <1>2, <4>3, <5>1, <5>3
          <6>2. dir[v0][Files[i]] = Reading(req[r])[Files[i]]
            BY <3>1, <3>3, <4>1, <4>3, <5>3, <6>1 DEF Progress
          <6> QED
            BY <1>6, <1>7, <4>1, <5>1, <5>3, <6>2
        <5> QED
          BY <5>2, <5>3
      <4>4. OneRelease(Reading(req[r]))'
        BY <1>5, <1>2, <1>4, <4>2 DEF OneRelease, Reading
      <4>5. req'[r] = q
        BY <1>4
      <4>6. \A i \in DOMAIN Files : i < req'[r].next =>
              \/ dir'[v][Files[i]] = (Reading(req[r])[Files[i]])'
              \/ req'[r].pc = "write" /\ Files[i] = Files[req'[r].next]
        BY <1>5, <4>1, <4>3, <4>5 DEF Reading
      <4> QED
        BY <1>5, <3>3, <4>1, <4>2, <4>4, <4>5, <4>6 DEF Progress
    <3> QED
      BY <3>2, <3>3
  <2>5. v # v0 => (Whole(v) => Whole(v)')
    BY <1>6 DEF Whole, OneRelease
  <2>6. inst'.pc = "copy" /\ inst'.version = v => Installs'
    <3> SUFFICES ASSUME inst.pc = "copy", inst.version = v PROVE Installs'
      BY <1>5
    <3>1. Installs /\ v # v0
      BY <2>1, <2>3 DEF Neat, Progress
    <3> QED
      BY <1>5, <1>6, <3>1, Positions DEF Installs
  <2>7. ASSUME v \in jobs, \A x \in Request : ~Stages(x, v)'
        PROVE  Whole(v)'
    BY <2>1, <2>2, <2>3, <2>5, <2>7 DEF Neat
  <2> QED
    BY <1>5, <2>1, <2>2, <2>4, <2>6, <2>7 DEF Neat
<1> QED
  BY <1>1, <1>2, <1>4, <1>5, <1>8 DEF LoadInv

\* An error gives the directory up.
LEMMA FailsLoads ==
  ASSUME IInv, LoadInv, NEW r \in Request, WriteFails(r)
  PROVE  LoadInv'
<1> DEFINE q == [req[r] EXCEPT !.pc = "stage", !.next = Len(Files) + 1]
<1>1. /\ req[r] \in RequestRow /\ patched' = patched \cup {req[r].info}
      /\ UNCHANGED <<dir, bin, inst, jobs>>
      /\ req' = [req EXCEPT ![r] = q] \/ req' = [req EXCEPT ![r] = Idle]
  BY DEF WriteFails, diskVars, IInv, Types
<1>2. q.pc = "stage" /\ q.info = req[r].info /\ Idle.pc = "idle" /\ Idle.next = 1
  BY <1>1 DEF RequestRow, Idle
<1> HIDE DEF q
<1> QED
  BY <1>1, <1>2, LoadKeeps

\* The directory is whole when its job is created.
LEMMA JobLoads ==
  ASSUME IInv, LoadInv, NEW r \in Request, CreateUpdateJob(r)
  PROVE  LoadInv'
<1> DEFINE v0 == req[r].info
<1>1. /\ req[r] \in RequestRow /\ req[r].pc = "stage" /\ req[r].next > Len(Files)
      /\ jobs' = jobs \cup {v0} /\ UNCHANGED <<dir, bin, inst, patched>>
  BY DEF CreateUpdateJob, IInv, Types, diskVars, notes
<1>2. \A x \in Request : req'[x] = IF x = r THEN Idle ELSE req[x]
  BY DEF CreateUpdateJob, IInv, Types
<1>3. ASSUME NEW v \in Release \ patched PROVE Neat(v)'
  <2>1. Neat(v)
    BY <1>3 DEF LoadInv
  <2>2. \A x \in Request : Stages(x, v)' <=> (Stages(x, v) /\ x # r)
    BY <1>2, IdleRow DEF Stages
  <2>3. \A x \in Request : Stages(x, v)' => Progress(x, v)'
    <3>1. \A x \in Request \ {r} : Progress(x, v) => Progress(x, v)'
      BY <1>1, <1>2 DEF Progress, Reading, OneRelease
    <3> QED
      BY <2>1, <2>2, <3>1 DEF Neat
  <2>4. v = v0 => Whole(v)
    <3> SUFFICES ASSUME v = v0 PROVE Whole(v)
      OBVIOUS
    <3>1. Progress(r, v)
      BY <1>1, <2>1 DEF Neat, Stages
    <3>2. \A i \in DOMAIN Files : dir[v][Files[i]] = Reading(req[r])[Files[i]]
      <4>1. req[r].next \in Nat /\ Len(Files) \in Nat
        BY <1>1, OriginAssumption DEF RequestRow
      <4> QED
        BY <1>1, <3>1, <4>1, Positions DEF Progress
    <3>3. OneRelease(Reading(req[r]))
      BY <3>1 DEF Progress
    <3> QED
      BY <3>2, <3>3 DEF Whole, OneRelease, File
  <2>5. Whole(v) <=> Whole(v)'
    BY <1>1 DEF Whole, OneRelease
  <2>6. Installs => Installs'
    BY <1>1 DEF Installs
  <2>7. ASSUME v \in jobs', \A x \in Request : ~Stages(x, v)'
        PROVE  Whole(v)'
    <3>1. CASE v = v0
      BY <2>4, <2>5, <3>1
    <3>2. CASE v # v0
      <4>1. v \in jobs /\ \A x \in Request : ~Stages(x, v)
        BY <1>1, <2>2, <2>7, <3>2 DEF Stages
      <4> QED
        BY <2>1, <2>5, <4>1 DEF Neat
    <3> QED
      BY <3>1, <3>2
  <2> QED
    BY <1>1, <2>1, <2>2, <2>3, <2>6, <2>7 DEF Neat
<1> QED
  BY <1>1, <1>2, <1>3 DEF LoadInv, Idle

\* The controller installs from a whole directory; a job that is being created from
\* its bin/ meanwhile has been noticed.
LEMMA InstallLoads ==
  ASSUME IInv, LoadInv, (\E v \in Release : InstallControllerRelease(v)) \/ CopyFile \/ CopyFails
  PROVE  LoadInv'
<1>1. UNCHANGED <<req, dir, jobs>> /\ patched \subseteq patched'
  BY DEF InstallControllerRelease, CopyFile, CopyFails, diskVars, notes
<1>2. ASSUME NEW u \in Release \ patched' PROVE Neat(u)'
  <2>1. Neat(u) /\ u \notin patched
    BY <1>1, <1>2 DEF LoadInv
  <2>2. /\ Whole(u) <=> Whole(u)'
        /\ \A x \in Request : Stages(x, u) <=> Stages(x, u)'
    BY <1>1 DEF Whole, OneRelease, Stages
  <2>3. /\ inst'.pc = "copy" /\ inst'.version = u => Installs'
        /\ \A x \in Request : Stages(x, u) => /\ inst'.version # u
                                              /\ req[x].kind # "bin" \/ (UNCHANGED bin /\ inst'.pc # "copy")
    <3>1. CASE \E v \in Release : InstallControllerRelease(v)
      <4>1. PICK v \in Release : InstallControllerRelease(v)
        BY <3>1
      <4>2. \A x \in Request : ~Stages(x, v) \/ v \in patched'
        BY <4>1, NothingStaged DEF InstallControllerRelease
      <4>3. \A x \in Request : Stages(x, u) => req[x].kind # "bin"
        BY <1>2, <4>1 DEF InstallControllerRelease, Stages
      <4>4. v \in jobs /\ inst'.pc = "copy" /\ inst'.version = v /\ inst'.next = 1 /\ UNCHANGED bin
        BY <4>1 DEF InstallControllerRelease, diskVars
      <4> QED
        BY <1>1, <1>2, <4>2, <4>3, <4>4, Positions DEF Installs
    <3>2. CASE CopyFile
      <4> DEFINE k == inst.next
                 f == Files[k]
      <4>1. /\ inst.pc = "copy" /\ inst' = [inst EXCEPT !.next = k + 1]
            /\ bin' = [bin EXCEPT ![f] = IF dir[inst.version][f] = Absent THEN @ ELSE dir[inst.version][f]]
        BY <3>2 DEF CopyFile, Copying
      <4>2. inst'.version = inst.version /\ (inst'.pc = "copy" => inst'.next = k + 1)
        BY <4>1
      <4>3. ASSUME inst.version = u PROVE Installs'
        <5>1. u \in jobs /\ k \in Nat
              /\ \A i \in DOMAIN Files : i < k => bin[Files[i]] = dir[u][Files[i]]
          BY <2>1, <4>1, <4>3 DEF Neat, Installs
        <5>2. Whole(u)
          BY <2>1, <4>3, <5>1 DEF Neat, Progress
        <5>3. \A g \in File : dir[u][g] # Absent
          BY <5>2, Numbers DEF Whole, OneRelease
        <5>4. \A i \in DOMAIN Files : i < k + 1 => bin'[Files[i]] = dir[u][Files[i]]
          <6> SUFFICES ASSUME NEW i \in DOMAIN Files, i < k + 1
                       PROVE  bin'[Files[i]] = dir[u][Files[i]]
            OBVIOUS
          <6>1. i \in Nat /\ Files[i] \in File
            BY Positions
          <6>2. CASE Files[i] = f
            BY <4>1, <4>3, <5>3, <6>1, <6>2 DEF IInv, Types
          <6>3. CASE Files[i] # f
            <7>1. i < k
              BY <5>1, <6>1, <6>3
            <7> QED
              BY <4>1, <5>1, <6>1, <6>3, <7>1 DEF IInv, Types
          <6> QED
            BY <6>2, <6>3
        <5>5. inst'.next = k + 1
          BY <4>1, <4>2, <4>3, <2>1 DEF Neat, IInv, Types
        <5> QED
          BY <1>1, <4>2, <4>3, <5>1, <5>4, <5>5 DEF Installs
      <4> QED
        BY <2>1, <4>1, <4>2, <4>3 DEF Neat, Progress
    <3>3. CASE CopyFails
      <4>1. inst'.pc = "idle" /\ inst'.version = NULL /\ inst.pc = "copy"
        BY <3>3 DEF CopyFails, Copying, NoInst
      <4> QED
        BY <2>1, <4>1, Numbers DEF Neat, Progress
    <3> QED
      BY <3>1, <3>2, <3>3
  <2>4. ASSUME NEW x \in Request, Stages(x, u)' PROVE Progress(x, u)'
    <3>1. Progress(x, u) /\ inst'.version # u
          /\ (req[x].kind # "bin" \/ (UNCHANGED bin /\ inst'.pc # "copy"))
      BY <2>1, <2>2, <2>3, <2>4 DEF Neat
    <3>2. Reading(req[x])' = Reading(req[x])
      BY <1>1, <3>1 DEF Reading
    <3> QED
      BY <1>1, <3>1, <3>2 DEF Progress, OneRelease
  <2> QED
    BY <1>1, <2>1, <2>2, <2>3, <2>4 DEF Neat
<1> QED
  BY <1>1, <1>2 DEF LoadInv

\* A new process has no requests: whoever was writing has been noticed.
LEMMA ProcessLoads ==
  ASSUME IInv, LoadInv, ScheduledRestart \/ Crash
  PROVE  LoadInv'
<1>1. /\ \A r \in Request : req'[r] = Idle
      /\ inst' = NoInst /\ UNCHANGED <<dir, jobs>>
      /\ patched' = patched \cup {v \in Release : Staging(v) # {}}
  BY DEF ScheduledRestart, Crash, NewProcess, diskVars
<1>2. ASSUME NEW v \in Release \ patched' PROVE Neat(v)'
  <2>1. Neat(v) /\ Staging(v) = {}
    BY <1>1, <1>2 DEF LoadInv
  <2>2. \A r \in Request : ~Stages(r, v) /\ ~Stages(r, v)'
    BY <1>1, <2>1, IdleRow, NothingStaged DEF Stages
  <2>3. Whole(v) <=> Whole(v)'
    BY <1>1 DEF Whole, OneRelease
  <2> QED
    BY <1>1, <2>1, <2>2, <2>3 DEF Neat, NoInst
<1> QED
  BY <1>1, <1>2 DEF LoadInv, Idle

LEMMA LoadKept == IInv /\ LoadInv /\ [Next]_vars => LoadInv'
<1> SUFFICES ASSUME IInv, LoadInv, [Next]_vars PROVE LoadInv'
  OBVIOUS
<1>1. CASE Tick \/ GitHub \/ UNCHANGED vars
  <2>1. UNCHANGED <<req, dir, bin, inst, jobs, patched>>
    BY <1>1 DEF Tick, GitHub, Announce, Withdraw, Upload, vars, diskVars, notes
  <2>2. \A v : Neat(v) => Neat(v)'
    BY <2>1 DEF Neat, Stages, Progress, Reading, OneRelease, Whole, Installs
  <2> QED
    BY <2>1, <2>2 DEF LoadInv
<1>2. ASSUME NEW r \in Request, Handler(r) PROVE LoadInv'
  <2>1. CASE \E v \in Release : \/ CreateUpdate(r, v, "bin", NoFiles)
                                \/ \E files \in Sources : CreateUpdate(r, v, "dir", files)
    BY <2>1, CreateLoads
  <2> QED
    BY <1>2, <2>1, AskLoads, DownloadLoads, SkipLoads, WriteLoads, FailsLoads, JobLoads DEF Handler
<1> QED
  BY <1>1, <1>2, InstallLoads, ProcessLoads DEF Next, Installation

\* The restart after an installation loads files of one release, for any number of
\* files, releases, overlapping pulls and jobs created from any directory or from bin/,
\* earlier installations that stopped half-way and crashes, unless the directory was
\* written by two at once, only in part, or from files of several releases
\* (applyLocalRelease, handleCreateUpdate, SeedRelease): otherwise a job exists only for
\* a directory that was written to its end, and every file of it is copied.
THEOREM RestartCorrect == Spec => RestartLoadsOneRelease
<1>1. ASSUME IInv, LoadInv, ScheduledRestart, inst.version \notin patched
      PROVE  \E v \in Release : \A f \in File : bin[f] = v
  <2> DEFINE v == inst.version
  <2>1. inst.pc = "copy" /\ inst.next > Len(Files) /\ v \in Release
    BY <1>1 DEF ScheduledRestart, IInv, Types
  <2>2. Neat(v)
    BY <1>1, <2>1 DEF LoadInv
  <2>3. Installs /\ \A r \in Request : ~Stages(r, v)
    BY <2>1, <2>2 DEF Neat, Progress
  <2>4. PICK p \in Release : \A f \in File : dir[v][f] = p
    BY <2>2, <2>3 DEF Neat, Installs, Whole, OneRelease
  <2>5. \A i \in DOMAIN Files : bin[Files[i]] = p
    <3>1. Len(Files) \in Nat
      BY OriginAssumption
    <3> QED
      BY <2>1, <2>3, <2>4, <3>1, Positions DEF Installs
  <2> QED
    BY <2>5 DEF File
<1>2. IInv /\ LoadInv /\ [Next]_vars =>
        [ScheduledRestart /\ inst.version \notin patched =>
           \E v \in Release : \A f \in File : bin[f] = v]_vars
  BY <1>1
<1> QED
  BY <1>2, Initially, StepKeeps, LoadInitially, LoadKept, PTL DEF Spec, RestartLoadsOneRelease

=============================================================================
