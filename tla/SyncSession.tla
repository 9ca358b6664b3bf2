----------------------------- MODULE SyncSession -----------------------------
(***************************************************************************)
(* The session lock behind `ref sync`, `ref sync --watch` and `ref clean`: *)
(* a lock directory on disk, the processes that race for it, and the       *)
(* signals they send each other (sync/session.ts, sync/session-owner.ts),  *)
(* with the part of the watch driver, of the CLI runners and of the clean  *)
(* command that decides how a holder reacts to a signal and when it lets   *)
(* go (lib/watch/index.ts, cli/watch.ts, cli/sync.ts, cli/clean.ts).       *)
(*                                                                         *)
(* One element of Procs is one invocation of the CLI; its lock nonce is    *)
(* drawn once per acquisition, so the process stands for its nonce and its *)
(* pid.  Every await of the code, and every system call made inside a      *)
(* synchronous section, is a step of its own, so that other processes      *)
(* interleave with it.                                                     *)
(***************************************************************************)
EXTENDS Naturals, FiniteSets

CONSTANTS
  Procs,            \* the invocations of the CLI
  Ghost,            \* the nonce of a process that died before the run began
  Junk,             \* an owner file that does not parse to an owner
  None,             \* no owner, no marker, no lastSeen
  Kinds,            \* the kinds of session the invocations may ask for
  Breakers,         \* the sets of invocations that may carry --break-lock
  LeftBehind,       \* what an earlier run may have left on disk
  UserSignals,      \* the signals a user or a supervisor may send
  MaxUserSignals,   \* bound on their number
  MaxCrashes,       \* bound on the number of crashes
  MaxAttempts,      \* MAX_ACQUIRE_ATTEMPTS
  Prompt            \* TRUE: file operations are prompt with regard to settles

AllKinds == {"one-shot", "watch", "clean"}
AllLeftBehind == {"nothing", "emptyDir", "deadOwner", "tornOwner"}

\* What holdSession listens to.
Signals == {"TERM", "INT", "HUP"}

ASSUME SessionAssumption ==
  /\ Procs # {} /\ Ghost \notin Procs /\ Junk \notin Procs /\ None \notin Procs
  /\ Ghost # Junk /\ Ghost # None /\ Junk # None
  /\ Kinds \subseteq AllKinds
  /\ Breakers \subseteq SUBSET Procs
  /\ LeftBehind \subseteq AllLeftBehind
  /\ UserSignals \subseteq Signals
  /\ MaxUserSignals \in Nat /\ MaxCrashes \in Nat
  /\ MaxAttempts \in Nat \ {0}
  /\ Prompt \in BOOLEAN

VARIABLES
  pc,        \* where each process is
  outcome,   \* why it left, or will leave once its release is over
  kind,      \* SyncSessionKind of each process
  break,     \* its --break-lock flag
  taking,    \* TRUE: writing the owner file inside forceTake
  seen,      \* the owner it read: lastSeen, the pid it signals or attaches to
  tries,     \* finished turns of the acquire loop
  busy,      \* a sync or a wipe of this process is writing the folder
  up,        \* a watch whose baseline is done and whose CLI listeners are on
  sig,       \* signals delivered to a holder and not yet handled
  dir,       \* TRUE: the lock directory exists
  owner,     \* owner.json
  marker,    \* preempt.json
  tmps,      \* the temporary files of writeLockFile
  crashes, userSignals  \* how often the environment has acted

procVars == <<pc, outcome, seen, tries, taking>>
jobVars  == <<kind, break>>
holdVars == <<busy, up, sig>>
diskVars == <<dir, owner, marker, tmps>>
envVars  == <<crashes, userSignals>>
vars == <<procVars, jobVars, holdVars, diskVars, envVars>>

Claiming  == {"mkdir", "write", "rename", "readBack"}
Reading   == {"read", "settle100", "settle500", "contend"}
Matrix    == {"poke", "markWrite", "markRename", "term", "wait", "kill"}
Stealing  == {"fresh", "unlink", "rmdir", "remkdir", "takeSettle"}
Releasing == {"relRead", "relUnlink", "relRmdir"}
PCs == {"idle", "exit", "held", "stop", "drain", "tail", "attached"}
         \cup Claiming \cup Reading \cup Matrix \cup Stealing \cup Releasing

Outcomes == {"none", "done", "failed", "drain", "covered", "superseded",
             "terminated", "interrupted", "signalled", "poked", "killed",
             "crashed", "unsettled"}

\* pidAlive: a Ghost never is, a process of the run is until it exits.
Alive(p) == p \in Procs /\ pc[p] \notin {"idle", "exit"}

\* The entry in heldSessions: this process believes the lock is its own.
Holding(p) == pc[p] \in {"held", "stop"}

\* A sync (or a clean) of this process is writing the generated folder.
Writing(p) == busy[p] /\ pc[p] # "exit"

\* The file operations that one process strings together with no timer.
MidFileOp(p) == pc[p] \in {"write", "rename", "readBack", "markRename", "unlink",
                          "rmdir", "remkdir"} \cup Releasing

\* The timing assumption of settleMissingOwner and of TAKE_SETTLE_MS: what a
\* live peer has begun lands before a settle of 50 ms or more is over.
SettleMayEnd(p) == Prompt => \A q \in Procs \ {p} : ~MidFileOp(q)

Goto(p, l) == pc' = [pc EXCEPT ![p] = l]

Exit(p, why) == /\ Goto(p, "exit")
                /\ outcome' = [outcome EXCEPT ![p] = why]

-----------------------------------------------------------------------------
Init ==
  /\ pc = [p \in Procs |-> "idle"]
  /\ outcome = [p \in Procs |-> "none"]
  /\ kind \in [Procs -> Kinds]
  /\ break \in {[p \in Procs |-> p \in b] : b \in Breakers}
  /\ \A p \in Procs : kind[p] = "clean" => ~break[p]
  /\ taking = [p \in Procs |-> FALSE]
  /\ seen = [p \in Procs |-> None]
  /\ tries = [p \in Procs |-> 0]
  /\ busy = [p \in Procs |-> FALSE]
  /\ up = [p \in Procs |-> FALSE]
  /\ sig = [p \in Procs |-> {}]
  /\ \E left \in LeftBehind :
        /\ dir = (left # "nothing")
        /\ owner = CASE left = "deadOwner" -> Ghost
                     [] left = "tornOwner" -> Junk
                     [] OTHER -> None
  /\ marker = None
  /\ tmps = {}
  /\ crashes = 0 /\ userSignals = 0

-----------------------------------------------------------------------------
(***************************************************************************)
(* acquireSyncSession: the loop.  A turn that ends without a session costs *)
(* one attempt; the last one throws "lock contention did not settle".      *)
(***************************************************************************)
Retry(p) ==
  /\ tries' = [tries EXCEPT ![p] = @ + 1]
  /\ \/ tries[p] + 1 < MaxAttempts /\ Goto(p, "mkdir") /\ UNCHANGED outcome
     \/ tries[p] + 1 = MaxAttempts /\ Exit(p, "unsettled")

Launch(p) ==
  /\ pc[p] = "idle"
  /\ Goto(p, "mkdir")
  /\ UNCHANGED <<outcome, seen, tries, taking, jobVars, holdVars, diskVars, envVars>>

\* tryClaimDir: the atomic mkdir; EEXIST leads to acquireContendedLock.
TryClaimDir(p) ==
  /\ pc[p] = "mkdir"
  /\ \/ /\ ~dir
        /\ dir' = TRUE
        /\ taking' = [taking EXCEPT ![p] = FALSE]
        /\ Goto(p, "write")
     \/ dir /\ Goto(p, "read") /\ UNCHANGED <<dir, taking>>
  /\ UNCHANGED <<outcome, seen, tries, jobVars, holdVars, owner, marker, tmps, envVars>>

\* writeFreshOwner returned false: a claim goes on to the contended branch of
\* the same turn, a take gives the turn up.
FreshOwnerLost(p) ==
  \/ taking[p] /\ Retry(p)
  \/ ~taking[p] /\ Goto(p, "read") /\ UNCHANGED <<outcome, tries>>

\* holdSession: the hold and its signal handlers, on the way out of acquire.
HoldSession(p) ==
  /\ Goto(p, "held")
  /\ busy' = [busy EXCEPT ![p] = TRUE]
  /\ UNCHANGED <<outcome, tries>>

\* writeLockFile, first half: the temporary file.
WriteOwnerTmp(p) ==
  /\ pc[p] = "write"
  /\ \/ /\ dir
        /\ tmps' = tmps \cup {<<p, "owner">>}
        /\ Goto(p, "rename")
        /\ UNCHANGED <<outcome, tries>>
     \/ ~dir /\ FreshOwnerLost(p) /\ UNCHANGED tmps
  /\ UNCHANGED <<seen, taking, jobVars, holdVars, dir, owner, marker, envVars>>

\* writeLockFile, second half: the rename over owner.json.
RenameOwner(p) ==
  /\ pc[p] = "rename"
  /\ \/ /\ <<p, "owner">> \in tmps
        /\ tmps' = tmps \ {<<p, "owner">>}
        /\ owner' = p
        /\ Goto(p, "readBack")
        /\ UNCHANGED <<outcome, tries>>
     \/ /\ <<p, "owner">> \notin tmps
        /\ FreshOwnerLost(p)
        /\ UNCHANGED <<owner, tmps>>
  /\ UNCHANGED <<seen, taking, jobVars, holdVars, dir, marker, envVars>>

\* ownerNonceMatches after the write: a claim holds at once, a take settles.
ReadBack(p) ==
  /\ pc[p] = "readBack"
  /\ \/ owner = p /\ ~taking[p] /\ HoldSession(p)
     \/ /\ owner = p /\ taking[p]
        /\ Goto(p, "takeSettle")
        /\ UNCHANGED <<outcome, tries, busy>>
     \/ owner # p /\ FreshOwnerLost(p) /\ UNCHANGED busy
  /\ UNCHANGED <<seen, taking, jobVars, up, sig, diskVars, envVars>>

\* The re-read after TAKE_SETTLE_MS: held, or one attempt spent.
TakeSettled(p) ==
  /\ pc[p] = "takeSettle"
  /\ SettleMayEnd(p)
  /\ \/ owner = p /\ HoldSession(p)
     \/ owner # p /\ Retry(p) /\ UNCHANGED busy
  /\ UNCHANGED <<seen, taking, jobVars, up, sig, diskVars, envVars>>

-----------------------------------------------------------------------------
(***************************************************************************)
(* acquireContendedLock, contendForLock and the preempt matrix.            *)
(***************************************************************************)

\* What follows the read of an owner, `missing` once it has settled: a break
\* or an unreadable owner takes with lastSeen = null, our own pid takes, any
\* other owner is contended for.
Judge(p) ==
  /\ seen' = [seen EXCEPT ![p] = IF break[p] \/ owner \in {None, Junk}
                                   THEN None ELSE owner]
  /\ Goto(p, CASE seen'[p] = None -> "unlink"
               [] seen'[p] = p -> "fresh"
               [] OTHER -> "contend")

ReadOwner(p) ==
  /\ pc[p] = "read"
  /\ \/ owner = None /\ Goto(p, "settle100") /\ UNCHANGED seen
     \/ owner # None /\ Judge(p)
  /\ UNCHANGED <<outcome, tries, taking, jobVars, holdVars, diskVars, envVars>>

\* settleMissingOwner: two more reads; only a corpse stays missing.
SettleMissingOwner(p) ==
  /\ SettleMayEnd(p)
  /\ \/ /\ pc[p] = "settle100" /\ owner = None
        /\ Goto(p, "settle500")
        /\ UNCHANGED seen
     \/ /\ pc[p] = "settle500" \/ (pc[p] = "settle100" /\ owner # None)
        /\ Judge(p)
  /\ UNCHANGED <<outcome, tries, taking, jobVars, holdVars, diskVars, envVars>>

\* Mutant of ContendForLock: UNIFORM_KILL set to true.
ContendUniformKill(p) ==
  /\ pc[p] = "contend"
  /\ \/ owner # seen[p] /\ Retry(p)
     \/ /\ owner = seen[p]
        /\ Goto(p, IF Alive(seen[p]) THEN "markWrite" ELSE "fresh")
        /\ UNCHANGED <<outcome, tries>>
  /\ UNCHANGED <<seen, taking, jobVars, holdVars, diskVars, envVars>>

\* Mutant of ContendForLock: a dead owner is retried, never taken.
ContendNeverStale(p) ==
  /\ pc[p] = "contend" /\ ~Alive(seen[p])
  /\ Retry(p)
  /\ UNCHANGED <<seen, taking, jobVars, holdVars, diskVars, envVars>>

\* contendForLock from its re-read to the leg of the matrix: an owner that
\* moved on costs the attempt, a dead one is taken, a live watch is poked by a
\* one-shot and joined by a second watch, anything else is superseded.
ContendForLock(p) ==
  /\ pc[p] = "contend"
  /\ \/ owner # seen[p] /\ Retry(p)
     \/ /\ owner = seen[p]
        /\ LET spared == kind[seen[p]] = "watch" /\ kind[p] # "clean" IN
           Goto(p, CASE ~Alive(seen[p]) -> "fresh"
                     [] Alive(seen[p]) /\ ~spared -> "markWrite"
                     [] Alive(seen[p]) /\ spared /\ kind[p] = "one-shot" -> "poke"
                     [] OTHER -> "attached")
        /\ UNCHANGED <<outcome, tries>>
  /\ UNCHANGED <<seen, taking, jobVars, holdVars, diskVars, envVars>>

\* The watch listens to SIGUSR2 from the return of acquireSyncSession until
\* stop() or a failed baseline removes the listener, just before the release.
HearsPoke(w) == Holding(w) \/ pc[w] = "drain"
                  \/ (pc[w] \in Releasing /\ outcome[w] \notin {"done", "failed"})

\* Mutant of PokeWatchHolder: ESRCH is not read as stale.
PokeCoversAnyway(p) ==
  /\ pc[p] = "poke"
  /\ Exit(p, "covered")
  /\ UNCHANGED <<seen, tries, taking, jobVars, holdVars, diskVars, envVars>>

\* pokeWatchHolder: SIGUSR2, then exit 0 covered.  A watch that listens takes
\* the poke (WatchLoop says what it does with it), one that does not dies of
\* it; ESRCH reads as stale.
PokeWatchHolder(p) ==
  /\ pc[p] = "poke"
  /\ LET w == seen[p] IN
     \/ /\ ~Alive(w)
        /\ Goto(p, "fresh")
        /\ UNCHANGED outcome
     \/ Alive(w) /\ HearsPoke(w) /\ Exit(p, "covered")
     \/ /\ Alive(w) /\ ~HearsPoke(w)
        /\ pc' = [pc EXCEPT ![p] = "exit", ![w] = "exit"]
        /\ outcome' = [outcome EXCEPT ![p] = "covered", ![w] = "poked"]
  /\ UNCHANGED <<seen, tries, taking, jobVars, holdVars, diskVars, envVars>>

\* killHolder: the marker, tmp and rename; any failure is a retry.
WriteMarkerTmp(p) ==
  /\ pc[p] = "markWrite"
  /\ \/ /\ dir
        /\ tmps' = tmps \cup {<<p, "marker">>}
        /\ Goto(p, "markRename")
        /\ UNCHANGED <<outcome, tries>>
     \/ ~dir /\ Retry(p) /\ UNCHANGED tmps
  /\ UNCHANGED <<seen, taking, jobVars, holdVars, dir, owner, marker, envVars>>

RenameMarker(p) ==
  /\ pc[p] = "markRename"
  /\ \/ /\ <<p, "marker">> \in tmps
        /\ tmps' = tmps \ {<<p, "marker">>}
        /\ marker' = p
        /\ Goto(p, "term")
        /\ UNCHANGED <<outcome, tries>>
     \/ /\ <<p, "marker">> \notin tmps
        /\ Retry(p)
        /\ UNCHANGED <<marker, tmps>>
  /\ UNCHANGED <<seen, taking, jobVars, holdVars, dir, owner, envVars>>

\* Who acts on a signal sent to t: an attached client forwards it.
Receiver(t) == IF pc[t] = "attached" THEN seen[t] ELSE t

\* A process with no listener for s dies of it at once.  The listeners of
\* holdSession are on while it holds; the CLI's, for SIGINT and SIGTERM only,
\* while a watch is up.
DiesOf(t, s) == /\ Alive(t)
                /\ ~Holding(t)
                /\ ~(s # "HUP" /\ up[t] /\ pc[t] \in Releasing \cup {"drain"})

\* Signal s reaches t, while the sender p (if any) moves on to label l.
Deliver(p, l, t, s) ==
  /\ pc' = [q \in Procs |-> IF q = p THEN l
                            ELSE IF q = t /\ DiesOf(t, s) THEN "exit" ELSE pc[q]]
  /\ outcome' = [q \in Procs |-> IF q = t /\ DiesOf(t, s) THEN "signalled" ELSE outcome[q]]
  /\ sig' = [q \in Procs |-> IF q = t /\ Holding(t) THEN sig[q] \cup {s} ELSE sig[q]]

\* killHolder: SIGTERM; ESRCH means dead.
SendTerm(p) ==
  /\ pc[p] = "term"
  /\ \/ Alive(seen[p]) /\ Deliver(p, "wait", Receiver(seen[p]), "TERM")
     \/ ~Alive(seen[p]) /\ Goto(p, "fresh") /\ UNCHANGED <<outcome, sig>>
  /\ UNCHANGED <<seen, tries, taking, jobVars, busy, up, diskVars, envVars>>

\* Mutant of AwaitExit: the victim is taken for dead once it is signalled.
AwaitNothing(p) ==
  /\ pc[p] = "wait"
  /\ Goto(p, "fresh")
  /\ UNCHANGED <<outcome, seen, tries, taking, jobVars, holdVars, diskVars, envVars>>

\* waitForProcessExit: dead, or KILL_GRACE_MS passed.  A holder may outlast
\* the grace: its handler waits for a blocked event loop.
AwaitExit(p) ==
  /\ pc[p] = "wait"
  /\ Goto(p, IF Alive(seen[p]) THEN "kill" ELSE "fresh")
  /\ UNCHANGED <<outcome, seen, tries, taking, jobVars, holdVars, diskVars, envVars>>

\* SIGKILL, the backstop.
SendKill(p) ==
  /\ pc[p] = "kill"
  /\ \/ /\ Alive(seen[p])
        /\ pc' = [pc EXCEPT ![p] = "fresh", ![seen[p]] = "exit"]
        /\ outcome' = [outcome EXCEPT ![seen[p]] = "killed"]
     \/ ~Alive(seen[p]) /\ Goto(p, "fresh") /\ UNCHANGED outcome
  /\ UNCHANGED <<seen, tries, taking, jobVars, holdVars, diskVars, envVars>>

-----------------------------------------------------------------------------
(***************************************************************************)
(* forceTake: fresh read, rm, mkdir, owner file, settle.                   *)
(***************************************************************************)
\* Mutant of FreshRead: forceTake does not look whether the lock moved on.
TakeBlind(p) ==
  /\ pc[p] = "fresh"
  /\ Goto(p, "unlink")
  /\ UNCHANGED <<outcome, tries, seen, taking, jobVars, holdVars, diskVars, envVars>>

FreshRead(p) ==
  /\ pc[p] = "fresh"
  /\ \/ owner \in {seen[p], None, Junk} /\ Goto(p, "unlink") /\ UNCHANGED <<outcome, tries>>
     \/ owner \notin {seen[p], None, Junk} /\ Retry(p)
  /\ UNCHANGED <<seen, taking, jobVars, holdVars, diskVars, envVars>>

\* rm -r, first half: every entry of the directory.  (The unlinks of one rm
\* are one step.)
EmptyDir == owner' = None /\ marker' = None /\ tmps' = {}

TakeUnlink(p) ==
  /\ pc[p] = "unlink"
  /\ EmptyDir
  /\ Goto(p, "rmdir")
  /\ UNCHANGED <<outcome, seen, tries, taking, jobVars, holdVars, dir, envVars>>

DirIsEmpty == owner = None /\ marker = None /\ tmps = {}

\* rm -r, second half: an entry that landed meanwhile fails the rmdir with
\* ENOTEMPTY, and the acquire with it.
TakeRmdir(p) ==
  /\ pc[p] = "rmdir"
  /\ \/ DirIsEmpty /\ dir' = FALSE /\ Goto(p, "remkdir") /\ UNCHANGED outcome
     \/ ~DirIsEmpty /\ Exit(p, "failed") /\ UNCHANGED dir
  /\ UNCHANGED <<seen, tries, taking, jobVars, holdVars, owner, marker, tmps, envVars>>

TakeMkdir(p) ==
  /\ pc[p] = "remkdir"
  /\ \/ /\ ~dir
        /\ dir' = TRUE
        /\ taking' = [taking EXCEPT ![p] = TRUE]
        /\ Goto(p, "write")
        /\ UNCHANGED <<outcome, tries>>
     \/ dir /\ Retry(p) /\ UNCHANGED <<dir, taking>>
  /\ UNCHANGED <<seen, jobVars, holdVars, owner, marker, tmps, envVars>>

-----------------------------------------------------------------------------
(***************************************************************************)
(* What a holder does: its work, its signals, its release.                 *)
(***************************************************************************)

\* The release starts; why is what the process leaves with.
StartRelease(p, why) ==
  /\ Goto(p, "relRead")
  /\ outcome' = [outcome EXCEPT ![p] = why]
  /\ busy' = [busy EXCEPT ![p] = @ /\ why = "drain"]

\* sync() or runCleanCommand ends, well or with an error: the finally
\* releases the session either way.
FinishWork(p) ==
  /\ pc[p] = "held" /\ kind[p] # "watch"
  /\ StartRelease(p, "done")
  /\ UNCHANGED <<seen, tries, taking, jobVars, up, sig, diskVars, envVars>>

\* Mutant of FinishBaseline: a failed baseline throws without releasing.
FailBaselineHolding(p) ==
  /\ pc[p] = "held" /\ kind[p] = "watch" /\ ~up[p]
  /\ \/ /\ up' = [up EXCEPT ![p] = TRUE]
        /\ busy' = [busy EXCEPT ![p] = FALSE]
        /\ UNCHANGED <<pc, outcome>>
     \/ Exit(p, "failed") /\ UNCHANGED <<up, busy>>
  /\ UNCHANGED <<seen, tries, taking, jobVars, sig, diskVars, envVars>>

\* watchSync: the baseline ends, the subscriptions and attachShutdown are on;
\* a failed baseline releases and throws.
FinishBaseline(p) ==
  /\ pc[p] = "held" /\ kind[p] = "watch" /\ ~up[p]
  /\ \/ /\ up' = [up EXCEPT ![p] = TRUE]
        /\ busy' = [busy EXCEPT ![p] = FALSE]
        /\ UNCHANGED <<pc, outcome>>
     \/ StartRelease(p, "failed") /\ UNCHANGED up
  /\ UNCHANGED <<seen, tries, taking, jobVars, sig, diskVars, envVars>>

\* One resync of a resident watch, after a poke or an edit.
StartResync(p) ==
  /\ pc[p] = "held" /\ up[p] /\ ~busy[p]
  /\ busy' = [busy EXCEPT ![p] = TRUE]
  /\ UNCHANGED <<procVars, jobVars, up, sig, diskVars, envVars>>

EndResync(p) ==
  /\ pc[p] \in {"held", "stop", "drain"} /\ up[p] /\ busy[p]
  /\ busy' = [busy EXCEPT ![p] = FALSE]
  /\ UNCHANGED <<procVars, jobVars, up, sig, diskVars, envVars>>

\* onSigterm: a marker of someone else means superseded; without one a watch
\* leaves the signal to the CLI's shutdown (none before it is up), and any
\* other holder releases and dies of the re-raised signal.
OnSigterm(p) ==
  /\ Holding(p) /\ "TERM" \in sig[p]
  /\ sig' = [sig EXCEPT ![p] = @ \ {"TERM"}]
  /\ \/ /\ marker \notin {None, p}
        /\ StartRelease(p, "superseded")
     \/ /\ marker \in {None, p} /\ kind[p] = "watch"
        /\ IF up[p] THEN Goto(p, "stop") ELSE UNCHANGED pc
        /\ UNCHANGED <<outcome, busy>>
     \/ /\ marker \in {None, p} /\ kind[p] # "watch"
        /\ StartRelease(p, "terminated")
  /\ UNCHANGED <<seen, tries, taking, jobVars, up, diskVars, envVars>>

\* makeReraiseHandler, on SIGINT or SIGHUP: release first; then the CLI's
\* shutdown of a watch that is up drains the pass in flight if the signal is
\* SIGINT, for which it listens; anything else dies of the signal.
OnInterrupt(p) ==
  /\ Holding(p)
  /\ \E s \in sig[p] \ {"TERM"} :
        StartRelease(p, IF up[p] /\ s = "INT" THEN "drain" ELSE "interrupted")
  /\ sig' = [sig EXCEPT ![p] = {}]
  /\ UNCHANGED <<seen, tries, taking, jobVars, up, diskVars, envVars>>

\* stop(): the scheduler is cancelled, the pass in flight drains, the
\* session is released.
StopWatch(p) ==
  /\ pc[p] = "stop" /\ ~busy[p]
  /\ StartRelease(p, "done")
  /\ UNCHANGED <<seen, tries, taking, jobVars, up, sig, diskVars, envVars>>

\* The same after SIGINT: the release of stop() finds nothing held.
DrainWatch(p) ==
  /\ pc[p] = "drain" /\ ~busy[p]
  /\ Exit(p, "done")
  /\ UNCHANGED <<seen, tries, taking, jobVars, holdVars, diskVars, envVars>>

\* What follows releaseSession: the shutdown of a watch interrupted, the
\* pending tasty build of a one-shot, the end of the process.
AfterRelease(p) ==
  \/ outcome[p] = "drain" /\ Goto(p, "drain") /\ UNCHANGED outcome
  \/ outcome[p] = "done" /\ kind[p] # "watch" /\ Goto(p, "tail") /\ UNCHANGED outcome
  \/ /\ outcome[p] # "drain" /\ (outcome[p] = "done" => kind[p] = "watch")
     /\ Exit(p, outcome[p])

\* releaseSession: read the owner, and only if it is ours remove the
\* directory; an entry that landed meanwhile leaves it behind.
ReleaseRead(p) ==
  /\ pc[p] = "relRead"
  /\ sig' = [sig EXCEPT ![p] = {}]
  /\ \/ owner = p /\ Goto(p, "relUnlink") /\ UNCHANGED outcome
     \/ owner # p /\ AfterRelease(p)
  /\ UNCHANGED <<seen, tries, taking, jobVars, busy, up, diskVars, envVars>>

ReleaseUnlink(p) ==
  /\ pc[p] = "relUnlink"
  /\ EmptyDir
  /\ Goto(p, "relRmdir")
  /\ UNCHANGED <<outcome, seen, tries, taking, jobVars, holdVars, dir, envVars>>

\* Mutant of ReleaseRmdir: the directory goes while files land in it.
ReleaseRmdirBlind(p) ==
  /\ pc[p] = "relRmdir"
  /\ dir' = FALSE
  /\ AfterRelease(p)
  /\ UNCHANGED <<seen, tries, taking, jobVars, holdVars, owner, marker, tmps, envVars>>

ReleaseRmdir(p) ==
  /\ pc[p] = "relRmdir"
  /\ dir' = (dir /\ ~DirIsEmpty)
  /\ AfterRelease(p)
  /\ UNCHANGED <<seen, tries, taking, jobVars, holdVars, owner, marker, tmps, envVars>>

\* flushReferenceBuild: the background build drains with no lock held.
FinishTail(p) ==
  /\ pc[p] = "tail"
  /\ Exit(p, "done")
  /\ UNCHANGED <<seen, tries, taking, jobVars, holdVars, diskVars, envVars>>

\* Mutant of Detach: the client polls the lock instead of the pid.
DetachOnRelease(p) ==
  /\ pc[p] = "attached"
  /\ \/ owner # seen[p] /\ Exit(p, "covered")
     \/ owner = seen[p] /\ UNCHANGED <<pc, outcome>>
  /\ UNCHANGED <<seen, tries, taking, jobVars, holdVars, diskVars, envVars>>

\* attachToWatchSession: the client leaves when the owner is gone.
Detach(p) ==
  /\ pc[p] = "attached" /\ ~Alive(seen[p])
  /\ Exit(p, "covered")
  /\ UNCHANGED <<seen, tries, taking, jobVars, holdVars, diskVars, envVars>>

-----------------------------------------------------------------------------
(***************************************************************************)
(* The environment: crashes, and signals from a terminal or a supervisor.  *)
(***************************************************************************)
Crash(p) ==
  /\ Alive(p) /\ crashes < MaxCrashes
  /\ crashes' = crashes + 1
  /\ Exit(p, "crashed")
  /\ UNCHANGED <<seen, tries, taking, jobVars, holdVars, diskVars, userSignals>>

UserSignal(p, s) ==
  /\ Alive(p) /\ userSignals < MaxUserSignals
  /\ userSignals' = userSignals + 1
  /\ Deliver(None, "idle", Receiver(p), s)
  /\ UNCHANGED <<seen, tries, taking, jobVars, busy, up, diskVars, crashes>>

Step(p) ==
  \/ TryClaimDir(p) \/ WriteOwnerTmp(p) \/ RenameOwner(p) \/ ReadBack(p)
  \/ ReadOwner(p) \/ SettleMissingOwner(p) \/ ContendForLock(p)
  \/ PokeWatchHolder(p) \/ WriteMarkerTmp(p) \/ RenameMarker(p)
  \/ SendTerm(p) \/ AwaitExit(p) \/ SendKill(p)
  \/ FreshRead(p) \/ TakeUnlink(p) \/ TakeRmdir(p) \/ TakeMkdir(p) \/ TakeSettled(p)
  \/ FinishWork(p) \/ FinishBaseline(p) \/ EndResync(p)
  \/ OnSigterm(p) \/ OnInterrupt(p) \/ StopWatch(p) \/ DrainWatch(p)
  \/ ReleaseRead(p) \/ ReleaseUnlink(p) \/ ReleaseRmdir(p)
  \/ FinishTail(p) \/ Detach(p)

Environment(p) ==
  \/ Launch(p)
  \/ StartResync(p)
  \/ Crash(p)
  \/ \E s \in UserSignals : UserSignal(p, s)

\* Nothing is left to do once every process has left, or only waits for a
\* user: this is not a deadlock of the program.
Rest == /\ \A p \in Procs : pc[p] = "exit"
        /\ UNCHANGED vars

Next == (\E p \in Procs : Step(p) \/ Environment(p)) \/ Rest

Spec == Init /\ [][Next]_vars

\* Every process is scheduled, timers fire, a sync and a wipe come to an end;
\* a signal delivered to a holder is handled even if it keeps resyncing.
Fairness == \A p \in Procs :
              /\ WF_vars(Step(p))
              /\ WF_vars(OnSigterm(p)) /\ WF_vars(OnInterrupt(p))

FairSpec == Spec /\ Fairness

-----------------------------------------------------------------------------
(***************************************************************************)
(* Properties.                                                             *)
(***************************************************************************)

\* Types of all variables; a lock directory that does not exist holds no file.
TypeOK ==
  /\ pc \in [Procs -> PCs]
  /\ outcome \in [Procs -> Outcomes]
  /\ kind \in [Procs -> Kinds]
  /\ break \in [Procs -> BOOLEAN]
  /\ taking \in [Procs -> BOOLEAN]
  /\ seen \in [Procs -> Procs \cup {Ghost, None}]
  /\ tries \in [Procs -> 0 .. MaxAttempts]
  /\ busy \in [Procs -> BOOLEAN]
  /\ up \in [Procs -> BOOLEAN]
  /\ sig \in [Procs -> SUBSET Signals]
  /\ dir \in BOOLEAN
  /\ owner \in Procs \cup {Ghost, Junk, None}
  /\ marker \in Procs \cup {None}
  /\ tmps \subseteq Procs \X {"owner", "marker"}
  /\ crashes \in 0 .. MaxCrashes /\ userSignals \in 0 .. MaxUserSignals
  /\ ~dir => DirIsEmpty

\* --break-lock is the forced takeover: the victim keeps running (preemptLiveHolder).
NobodyBreaks == \A p \in Procs : ~break[p]

\* One sync holds the folder at a time (header of session.ts): two processes
\* are never both told that the lock is theirs.
OneHolder == NobodyBreaks => \A p, q \in Procs : Holding(p) /\ Holding(q) => p = q

\* What a holder believes is what the disk says, from acquire to the removal
\* that its release decides on: nobody took its directory behind its back, so
\* "release removes only our own lock" (releaseSession) is true when it acts.
HolderOwnsLock ==
  NobodyBreaks => \A p \in Procs : Holding(p) \/ pc[p] = "relUnlink" => owner = p

\* Two syncs, or a sync and a wipe, never write the folder at the same time.
OneWriter == NobodyBreaks => \A p, q \in Procs : Writing(p) /\ Writing(q) => p = q

\* The only writer that can meet another one is a watch that an interrupt made
\* release the lock while its pass was in flight (makeReraiseHandler, stop).
OneWriterButInterrupted ==
  NobodyBreaks => \A p, q \in Procs : Writing(p) /\ Writing(q) /\ p # q =>
                    \E w \in {p, q} : up[w] /\ pc[w] \in Releasing \cup {"drain"}

\* When everybody has left through a release (or without ever owning the
\* lock), no lock directory is left behind, whatever marker or temporary file
\* a newcomer was dropping into it while the holder removed it.
NoLockLeftBehind ==
  (\A p \in Procs : pc[p] = "exit" /\ outcome[p] \notin {"signalled", "poked", "killed", "crashed"})
    => ~dir

\* Contention settles long before MAX_ACQUIRE_ATTEMPTS: nobody gives up with
\* "lock contention did not settle" (acquireSyncSession).
ContentionSettles == NobodyBreaks => \A p \in Procs : outcome[p] # "unsettled"

\* A sync newcomer never sets out to supersede a watch (preemptLiveHolder: "a
\* resident watch OWNS the project"), though the owner it read may have moved
\* on by the time it signals; only `ref clean` does.
SyncSparesWatch ==
  \A p \in Procs : pc[p] \in {"markWrite", "markRename", "term", "wait", "kill"}
                     => \/ seen[p] \in Procs /\ kind[seen[p]] # "watch"
                        \/ kind[p] = "clean"

\* Whatever interleaves with the marker and the signals, a watch leaves as
\* superseded (exit 75) or is killed only when somebody runs `ref clean`.
WatchYieldsOnlyToClean ==
  \A w \in Procs : kind[w] = "watch" /\ outcome[w] \in {"superseded", "killed"}
                     => \E p \in Procs : kind[p] = "clean"

\* A watch is never killed by a poke (pokeWatchHolder and the comment of
\* preemptLiveHolder: a watch that holds the lock rebuilds on SIGUSR2).
PokeNeverKills == \A w \in Procs : outcome[w] # "poked"

\* An invocation gets the lock, is covered or attached, or leaves: it never
\* waits for ever, whoever dies, releases or ignores it meanwhile.
AcquireSettles ==
  \A p \in Procs : pc[p] = "mkdir" ~> (Holding(p) \/ pc[p] \in {"attached", "exit"})

\* An attached client leaves with its owner (attachToWatchSession).
ClientsLeave ==
  \A p \in Procs : (pc[p] = "attached" /\ ~Alive(seen[p])) ~> pc[p] = "exit"

\* No invocation hangs, on its way to the lock or on its owner (acquireSyncSession).
InvocationsSettle == AcquireSettles /\ ClientsLeave

-----------------------------------------------------------------------------
(***************************************************************************)
(* The lock implements FolderLock.                                         *)
(***************************************************************************)
Phase(p) ==
  CASE pc[p] = "idle" -> "out"
    [] Holding(p) -> "holding"
    [] pc[p] \in Releasing \cup {"drain", "tail"} -> "leaving"
    [] pc[p] = "attached" \/ outcome[p] = "covered" -> "covered"
    [] pc[p] = "exit" /\ outcome[p] # "covered" -> "gone"
    [] OTHER -> "waiting"

Folder == INSTANCE FolderLock WITH phase <- [p \in Procs |-> Phase(p)]

\* Every step of the code is a step of FolderLock, or none: the lock goes from
\* one holder to the next only through a release or a death.
ImplementsFolderLock == Folder!Spec
=============================================================================
