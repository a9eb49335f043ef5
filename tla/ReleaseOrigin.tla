---------------------------- MODULE ReleaseOrigin ----------------------------
(***************************************************************************)
(* Where the releases of an update come from.  GitHub has one release,     *)
(* tagged latest, whose text names a version and whose package is replaced *)
(* by every build.  The controller asks for that version, remembers the    *)
(* answer for Ttl, and on demand pulls: it asks again, downloads the       *)
(* package, writes its files to artifacts/releases/<version> and creates a *)
(* job for that version.  An administrator may also create a job for any   *)
(* version, from a directory of his own or from the files the controller   *)
(* runs.  When the job reaches the controller, the staged files are copied *)
(* over its own, one after the other, and it restarts.                     *)
(*                                                                         *)
(* Simplifications:                                                        *)
(*  - A file's content is the release it was built for, or Torn while it   *)
(*    is written.  The copies of a pull in the flat part of the store are  *)
(*    left to ArtifactCache, the agents to UpdateJob.                      *)
(*  - A package holds all the files (build.sh); a directory an             *)
(*    administrator names lies outside the store and bin/ and does not     *)
(*    change while it is copied.                                           *)
(*  - A version an administrator makes up is a release like any other: the *)
(*    name only selects the directory.                                     *)
(*  - The answer to one lookup takes less than two ticks of the clock      *)
(*    (20 seconds against 30 minutes).                                     *)
(*  - The branch that repeats an error for 5 minutes is left out: an error *)
(*    leaves an answer in the cache, so the test before it is true.        *)
(*  - One installation at a time; UpdateJob has several.                   *)
(***************************************************************************)
EXTENDS Naturals, FiniteSets, Sequences

CONSTANTS
  MaxRelease,   \* bound: releases are numbered in the order they are built
  Request,      \* HTTP requests in progress at the controller
  Files,        \* a sequence: the order in which installation copies files
  Ttl,          \* how long an answer is remembered
  NULL,
  MaxClock,     \* bound: ticks
  MaxRequests,  \* bound: lookups for the console, and calls of handlePullLatest
                \* and of handleCreateUpdate
  Sources,      \* what the directories hold that an administrator names
  MaxInstalls,  \* bound: installations
  MaxFaults     \* bound: failed lookups, downloads and copies, crashes

Release == 1 .. MaxRelease
Absent  == 0
Torn    == MaxRelease + 1
File    == {Files[i] : i \in DOMAIN Files}
NoFiles == [f \in File |-> Absent]

ASSUME OriginAssumption ==
  /\ {MaxRelease, MaxClock, MaxRequests, MaxInstalls, MaxFaults} \subseteq Nat
  /\ Sources \subseteq [File -> Release \cup {Absent}]
  /\ MaxRelease > 0 /\ Ttl \in Nat \ {0}
  /\ Files \in Seq(File) /\ Len(Files) > 0 /\ NULL \notin Release

VARIABLES
  body, package,    \* GitHub: the version in the text, the package attached
  clock,
  cached, cachedAt, \* the last answer and its time
  req,              \* the requests
  dir,              \* artifacts/releases/<version>, by version and file
  jobs,             \* the versions for which an update job was created
  bin,              \* the controller's own files
  running,          \* the version the controller process was built for
  inst,             \* the installation on the controller
  used,             \* counters against the bounds
  \* history
  until,            \* when a version was last the latest one
  lapses,           \* what went wrong: "lookup", "moved"
  relabelled,       \* versions created from files of another version
  patched           \* versions whose directory two releases, a failure, a restart
                    \* or two writers may have left mixed or incomplete

githubVars == <<body, package, until>>
cacheVars  == <<cached, cachedAt>>
diskVars   == <<dir, bin>>
notes      == <<relabelled, patched>>
vars == <<githubVars, clock, cacheVars, req, jobs, diskVars, running, inst, used, lapses, notes>>

\* kind: a lookup for the console, a pull, or the creation of a job from a directory
\* or from bin/.
Idle == [pc |-> "idle", kind |-> "show", since |-> 0, info |-> NULL, src |-> NoFiles, next |-> 1]

NoInst == [pc |-> "idle", version |-> NULL, next |-> 1]

Init ==
  /\ body = 1 /\ package = 1 /\ until = [v \in Release |-> 0]
  /\ clock = 0
  /\ cached = NULL /\ cachedAt = 0
  /\ req = [r \in Request |-> Idle]
  /\ dir = [v \in Release |-> [f \in File |-> Absent]]
  /\ jobs = {}
  /\ bin = [f \in File |-> 1] /\ running = 1
  /\ inst = NoInst
  /\ used = [k \in {"requests", "installs", "faults"} |-> 0]
  /\ lapses = {} /\ relabelled = {} /\ patched = {}

Spend(counter, limit) ==
  /\ used[counter] < limit
  /\ used' = [used EXCEPT ![counter] = @ + 1]

\* The requests that ask GitHub at this moment.
Asking == {r \in Request : req[r].pc \in {"ask", "store"}}

Tick ==
  /\ clock < MaxClock /\ \A r \in Asking : req[r].since = clock
  /\ clock' = clock + 1
  /\ UNCHANGED <<githubVars, cacheVars, req, jobs, diskVars, running, inst, used, lapses, notes>>

-----------------------------------------------------------------------------
(* GitHub: a build changes the text of the release, removes the package    *)
(* and uploads its own.                                                    *)

Announce ==
  /\ body = package /\ body < MaxRelease
  /\ body' = body + 1
  /\ until' = [until EXCEPT ![body] = clock]
  /\ UNCHANGED <<package, clock, cacheVars, req, jobs, diskVars, running, inst, used, lapses, notes>>

Withdraw ==
  /\ package \notin {body, Absent}
  /\ package' = Absent
  /\ UNCHANGED <<body, until, clock, cacheVars, req, jobs, diskVars, running, inst, used, lapses, notes>>

\* A pull that knows the previous version gets this package.
Upload ==
  /\ package = Absent
  /\ package' = body
  /\ lapses' = IF \E r \in Request : req[r].kind = "pull" /\ req[r].pc \in {"store", "download"}
               THEN lapses \cup {"moved"} ELSE lapses
  /\ UNCHANGED <<body, until, clock, cacheVars, req, jobs, diskVars, running, inst, used, notes>>

-----------------------------------------------------------------------------
(* The cached lookup (fetchGitHubLatestCached).                            *)

\* Variant: an answer is remembered a tick longer.
RememberedLonger == cached # NULL /\ clock - cachedAt <= Ttl

\* Then handleUpdatesLatest and handleUpdatesOverview show cached at once.
Remembered == cached # NULL /\ clock - cachedAt < Ttl

\* What handleUpdatesOverview shows with skip_github, and never asks: the answer of
\* any age, or the controller's own version.
Skipping == IF cached # NULL THEN cached ELSE running

\* There is no answer or it is too old, or the console asks for a refresh: the
\* mutex is released while GitHub is asked.
Ask(r) ==
  /\ req[r].pc = "idle"
  /\ Spend("requests", MaxRequests)
  /\ req' = [req EXCEPT ![r] = [Idle EXCEPT !.pc = "ask", !.since = clock]]
  /\ UNCHANGED <<githubVars, clock, cacheVars, jobs, diskVars, running, inst, lapses, notes>>

\* Variant: a pull is content with a remembered answer.
PullRemembered(r) ==
  /\ req[r].pc = "idle"
  /\ Spend("requests", MaxRequests)
  /\ req' = [req EXCEPT ![r] =
       IF Remembered
       THEN [Idle EXCEPT !.pc = "download", !.kind = "pull", !.info = cached]
       ELSE [Idle EXCEPT !.pc = "ask", !.kind = "pull", !.since = clock]]
  /\ UNCHANGED <<githubVars, clock, cacheVars, jobs, diskVars, running, inst, lapses, notes>>

\* handlePullLatest always asks.
Pull(r) ==
  /\ req[r].pc = "idle"
  /\ Spend("requests", MaxRequests)
  /\ req' = [req EXCEPT ![r] = [Idle EXCEPT !.pc = "ask", !.kind = "pull", !.since = clock]]
  /\ UNCHANGED <<githubVars, clock, cacheVars, jobs, diskVars, running, inst, lapses, notes>>

\* fetchGitHubLatestUncached: the version in the text, if there is a package.
Lookup(r) ==
  /\ req[r].pc = "ask" /\ package # Absent
  /\ req' = [req EXCEPT ![r].pc = "store", ![r].info = body]
  /\ lapses' = IF req[r].kind = "pull" /\ body # package THEN lapses \cup {"moved"} ELSE lapses
  /\ UNCHANGED <<githubVars, clock, cacheVars, jobs, diskVars, running, inst, used, notes>>

LookupFails(r) ==
  /\ req[r].pc = "ask"
  /\ IF package = Absent THEN UNCHANGED used ELSE Spend("faults", MaxFaults)
  /\ lapses' = lapses \cup {"lookup"}
  /\ req' = [req EXCEPT ![r].pc = "store"]
  /\ UNCHANGED <<githubVars, clock, cacheVars, jobs, diskVars, running, inst, notes>>

\* The cache takes whatever arrives last.  A failure leaves the old answer and
\* renews its time; without one directLatestFallback puts the controller's own
\* version there, with the address of the latest package.
Store(r) ==
  LET known  == IF cached # NULL THEN cached ELSE running
      answer == IF req[r].info # NULL THEN req[r].info ELSE known IN
  /\ req[r].pc = "store"
  /\ cached' = answer /\ cachedAt' = clock
  /\ req' = [req EXCEPT ![r] = IF @.kind = "pull"
                              THEN [@ EXCEPT !.pc = "download", !.info = answer, !.since = 0]
                              ELSE Idle]
  /\ UNCHANGED <<githubVars, clock, jobs, diskVars, running, inst, used, lapses, notes>>

-----------------------------------------------------------------------------
(* The rest of handlePullLatest, and handleCreateUpdate.                   *)

Staging(v) == {r \in Request : req[r].pc \in {"stage", "write"} /\ req[r].info = v}

\* Two requests write to one directory, or the controller installs from it.
Shared(v) == Staging(v) # {} \/ inst.version = v

Download(r) ==
  /\ req[r].pc = "download" /\ package # Absent
  /\ req' = [req EXCEPT ![r].pc = "stage", ![r].src = [f \in File |-> package]]
  /\ patched' = IF Shared(req[r].info) THEN patched \cup {req[r].info} ELSE patched
  /\ UNCHANGED <<githubVars, clock, cacheVars, jobs, diskVars, running, inst, used, lapses, relabelled>>

\* No package, no connection, or one that cannot be extracted.
DownloadFails(r) ==
  /\ req[r].pc = "download"
  /\ package = Absent \/ used["faults"] < MaxFaults
  /\ used' = IF package = Absent THEN used ELSE [used EXCEPT !["faults"] = @ + 1]
  /\ req' = [req EXCEPT ![r] = Idle]
  /\ UNCHANGED <<githubVars, clock, cacheVars, jobs, diskVars, running, inst, lapses, notes>>

\* The directory a request stages from: bin/ as it is by then, or files that stay.
Reading(q) == IF q.kind = "bin" THEN bin ELSE q.src

\* handleCreateUpdate: any version, and the files of any directory, or without one
\* of the controller's bin/.
CreateUpdate(r, v, kind, files) ==
  LET q     == [Idle EXCEPT !.pc = "stage", !.kind = kind, !.info = v, !.src = files]
      moves == kind = "bin" /\ inst.pc = "copy"
      Holds(content) == ~moves /\ \A f \in File : Reading(q)[f] \in content IN
  /\ req[r].pc = "idle"
  /\ Spend("requests", MaxRequests)
  /\ req' = [req EXCEPT ![r] = q]
  /\ relabelled' = IF Holds({v, Absent}) THEN relabelled ELSE relabelled \cup {v}
  /\ patched' = IF (\E w \in Release : Holds({w})) /\ ~Shared(v) THEN patched ELSE patched \cup {v}
  /\ UNCHANGED <<githubVars, clock, cacheVars, jobs, diskVars, running, inst, lapses>>

\* SeedRelease: the next file there is in the source is truncated, then written.
Skip(r) ==
  LET q == req[r] IN
  /\ q.pc = "stage" /\ q.next <= Len(Files) /\ Reading(q)[Files[q.next]] = Absent
  /\ req' = [req EXCEPT ![r].next = @ + 1]
  /\ UNCHANGED <<githubVars, clock, cacheVars, jobs, diskVars, running, inst, used, lapses, notes>>

Truncate(r) ==
  LET q == req[r] IN
  /\ q.pc = "stage" /\ q.next <= Len(Files) /\ Reading(q)[Files[q.next]] # Absent
  /\ dir' = [dir EXCEPT ![q.info][Files[q.next]] = Torn]
  /\ req' = [req EXCEPT ![r].pc = "write"]
  /\ UNCHANGED <<githubVars, clock, cacheVars, jobs, bin, running, inst, used, lapses, notes>>

Write(r) ==
  LET q == req[r] IN
  /\ q.pc = "write"
  /\ dir' = [dir EXCEPT ![q.info][Files[q.next]] = Reading(q)[Files[q.next]]]
  /\ req' = [req EXCEPT ![r].pc = "stage", ![r].next = q.next + 1]
  /\ UNCHANGED <<githubVars, clock, cacheVars, jobs, bin, running, inst, used, lapses, notes>>

\* The first error ends the staging, and the files written so far stay.  It ends
\* the request, too, except that a job is created from bin/ in any case.
WriteFails(r) ==
  LET q == req[r] IN
  /\ q.pc \in {"stage", "write"} /\ q.next <= Len(Files)
  /\ Spend("faults", MaxFaults)
  /\ req' = [req EXCEPT ![r] =
       IF q.kind = "bin" THEN [q EXCEPT !.pc = "stage", !.next = Len(Files) + 1] ELSE Idle]
  /\ patched' = patched \cup {q.info}
  /\ UNCHANGED <<githubVars, clock, cacheVars, jobs, diskVars, running, inst, lapses, relabelled>>

CreateUpdateJob(r) ==
  LET q == req[r] IN
  /\ q.pc = "stage" /\ q.next > Len(Files)
  /\ jobs' = jobs \cup {q.info}
  /\ req' = [req EXCEPT ![r] = Idle]
  /\ UNCHANGED <<githubVars, clock, cacheVars, diskVars, running, inst, used, lapses, notes>>

-----------------------------------------------------------------------------
(* The controller installs (installControllerRelease, applyLocalRelease).  *)

\* Some started job has come to the controller.  Jobs that are being created from
\* its bin/ get what the installation leaves there meanwhile.
InstallControllerRelease(v) ==
  LET copied == {req[r].info : r \in {x \in Request : req[x].pc \in {"stage", "write"}
                                                     /\ req[x].kind = "bin"}} IN
  /\ v \in jobs /\ inst.pc = "idle"
  /\ Spend("installs", MaxInstalls)
  /\ inst' = [pc |-> "copy", version |-> v, next |-> 1]
  /\ relabelled' = relabelled \cup copied
  /\ patched' = patched \cup copied \cup {w \in {v} : Staging(w) # {}}
  /\ UNCHANGED <<githubVars, clock, cacheVars, req, jobs, diskVars, running, lapses>>

Copying == inst.pc = "copy" /\ inst.next <= Len(Files)

\* A file that was not staged is passed over.
CopyFile ==
  LET f == Files[inst.next] IN
  /\ Copying
  /\ bin' = [bin EXCEPT ![f] = IF dir[inst.version][f] = Absent THEN @ ELSE dir[inst.version][f]]
  /\ inst' = [inst EXCEPT !.next = @ + 1]
  /\ UNCHANGED <<githubVars, clock, cacheVars, req, jobs, dir, running, used, lapses, notes>>

\* Variant: a file that cannot be copied is passed over.
CopyFailsOn ==
  /\ Copying
  /\ Spend("faults", MaxFaults)
  /\ inst' = [inst EXCEPT !.next = @ + 1]
  /\ UNCHANGED <<githubVars, clock, cacheVars, req, jobs, diskVars, running, lapses, notes>>

\* The first error ends the installation (InstallFailed) without a restart:
\* a file is in use and stays, or the disk is full.
CopyFails ==
  /\ Copying
  /\ Spend("faults", MaxFaults)
  /\ \E c \in {bin[Files[inst.next]], Torn} : bin' = [bin EXCEPT ![Files[inst.next]] = c]
  /\ inst' = NoInst
  /\ UNCHANGED <<githubVars, clock, cacheVars, req, jobs, dir, running, lapses, notes>>

\* The new process runs the file on disk and remembers nothing.  A request that was
\* writing is interrupted.
NewProcess ==
  /\ bin[Files[1]] # Torn
  /\ running' = bin[Files[1]]
  /\ cached' = NULL /\ cachedAt' = 0
  /\ req' = [r \in Request |-> Idle]
  /\ inst' = NoInst
  /\ patched' = patched \cup {v \in Release : Staging(v) # {}}

\* scheduleControllerRestart, after the last file.
ScheduledRestart ==
  /\ inst.pc = "copy" /\ inst.next > Len(Files)
  /\ NewProcess
  /\ UNCHANGED <<githubVars, clock, jobs, diskVars, used, lapses, relabelled>>

Crash ==
  /\ NewProcess
  /\ Spend("faults", MaxFaults)
  /\ UNCHANGED <<githubVars, clock, jobs, diskVars, lapses, relabelled>>

-----------------------------------------------------------------------------

GitHub == Announce \/ Withdraw \/ Upload

Handler(r) ==
  \/ Ask(r) \/ Pull(r) \/ Lookup(r) \/ LookupFails(r) \/ Store(r)
  \/ Download(r) \/ DownloadFails(r)
  \/ \E v \in Release : \/ CreateUpdate(r, v, "bin", NoFiles)
                        \/ \E files \in Sources : CreateUpdate(r, v, "dir", files)
  \/ Skip(r) \/ Truncate(r) \/ Write(r) \/ WriteFails(r) \/ CreateUpdateJob(r)

Installation ==
  \/ \E v \in Release : InstallControllerRelease(v)
  \/ CopyFile \/ CopyFails \/ ScheduledRestart

Next == Tick \/ GitHub \/ (\E r \in Request : Handler(r)) \/ Installation \/ Crash

Spec == Init /\ [][Next]_vars

-----------------------------------------------------------------------------
(* Properties.                                                             *)

\* While no lookup fails, the version the console is told without a lookup was
\* the latest one at most Ttl before, in whatever order overlapping lookups
\* store their answers (fetchGitHubLatestCached); a failure hides behind an old
\* answer whose time it renews.  With skip_github an answer has no such limit: it is
\* the one that was the latest when it was looked up, or the controller's own
\* version before the first lookup (handleUpdatesOverview).
AnswersAreRecent ==
  "lookup" \notin lapses =>
    /\ Remembered => cached = body \/ until[cached] + Ttl >= clock
    /\ cached # NULL => Skipping = body \/ until[Skipping] + 1 >= cachedAt

\* A directory named after a version holds that version's files and no others,
\* unless a lookup failed, the package was replaced between the lookup of a pull and
\* its download, or a job for that version was created from other files
\* (handlePullLatest, handleCreateUpdate, SeedRelease).
StagedAsLabelled ==
  lapses \cap {"lookup", "moved"} = {} =>
    \A v \in Release \ relabelled, f \in File : dir[v][f] \in {Absent, Torn, v}

\* The restart after an installation loads files of one release, also when an
\* earlier installation stopped half-way, unless the directory it was installed from
\* was written by two at once, only in part, or from files of several releases, such
\* as a bin/ an installation left half-way (applyLocalRelease, handleCreateUpdate).
RestartLoadsOneRelease ==
  [][ScheduledRestart /\ inst.version \notin patched =>
       \E v \in Release : \A f \in File : bin[f] = v]_vars

=============================================================================
