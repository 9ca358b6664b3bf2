--------------------------- MODULE McpModelState ---------------------------
(***************************************************************************)
(* The model that an MCP server serves of a project: McpProjectModelState  *)
(* with its deferred, the tool calls that wait on it, the child processes  *)
(* that build .reference-ui/mcp/model.json, and the syncs that delete it.  *)
(* Several servers (one per editor) may work on the project: they share    *)
(* the file and nothing else.                                              *)
(*                                                                         *)
(* A step is what JavaScript runs between two awaits.  A promise that is   *)
(* settled answers everyone who waits on it in the same step, since only   *)
(* microtasks run in between.  The contents of a model are the version of  *)
(* the sources that its child read.                                        *)
(***************************************************************************)
EXTENDS Integers

CONSTANTS Servers, Callers,
          Home,       \* the server that a caller talks to
          None,       \* null, and a file that is not there
          Torn,       \* a file that does not parse
          Pending,    \* a promise that is not settled
          MaxEdits,   \* edits of the project's sources
          Warms,      \* slots for calls of warmStart that are under way
          Teams,      \* the sets of servers that may run together
          MaxReloads  \* calls of reload(), for each team

ASSUME McpAssumption ==
  /\ Teams \subseteq SUBSET Servers
  /\ Home \in [Callers -> Servers] /\ \A c \in Callers, T \in Teams : Home[c] \in T
  /\ MaxEdits \in Nat /\ MaxReloads \in [Teams -> Nat]
  /\ 0 \notin Warms
  /\ None # Torn /\ None # Pending /\ None \notin Nat /\ Pending \notin Nat
  /\ \A x \in {None, Torn} : x \notin [ver : Nat, by : Servers, straddles : BOOLEAN]

VARIABLES
  status, artifact, error, promise, \* the fields of each server's model state
  task,     \* the builds under way, and the reading of a cached model
  caller,   \* the tool calls
  src,      \* the version of the sources
  synced,   \* the version at the last sync
  file,     \* model.json
  up,       \* the servers that run
  reloads

stateVars == <<status, artifact, error, promise>>
diskVars  == <<src, synced, file>>
runVars   == <<up, reloads>>
vars == <<stateVars, task, caller, diskVars, runVars>>

Versions == 0..MaxEdits

\* What a server has under way: its calls of warmStart, which are two at a time
\* after a reload, and the background refresh, the task 0: isRefreshing is that
\* it is there.
Tasks == {0} \cup Warms

\* Where a task is: reading the cached model, or with its child, which starts,
\* generates the model, opens the file (mkdir and an open that truncates) and
\* writes it; "lost" when a sync has removed the file that it has open.
Stages == {"none", "cache", "child", "generated", "open", "lost", "written"}

\* What a build is: its stage, the version that its child read, and whether a
\* sync came while its child ran.
At(stage) == [stage |-> stage, ver |-> 0, straddles |-> FALSE]
NoBuild == At("none")

\* A whole model.json: its version, the server whose child wrote it, and
\* whether a sync came between that child's start and its write.
Models == [ver : Versions, by : Servers, straddles : BOOLEAN]

Idle == [at |-> "idle", failed |-> FALSE, told |-> "nothing"]

\* The types; and a promise is settled when the status says so, and only then.
TypeOK ==
  /\ status \in [Servers -> {"idle", "warming", "ready", "error"}]
  /\ artifact \in [Servers -> Versions \cup {None}]
  /\ error \in [Servers -> BOOLEAN]
  /\ promise \in [Servers -> Versions \cup {None, Pending}]
  /\ task \in [Servers -> [Tasks -> [stage : Stages, ver : Versions, straddles : BOOLEAN]]]
  /\ caller \in [Callers ->
       [at : {"idle", "waiting", "orphan", "told", "late"},
        failed : BOOLEAN, told : {"nothing", "model", "error", "loading"}]]
  /\ src \in Versions /\ synced \in 0..src
  /\ file \in Models \cup {None, Torn}
  /\ up \in Teams /\ reloads \in 0..MaxReloads[up]
  /\ \A s \in Servers : promise[s] = Pending <=> status[s] \in {"idle", "warming"}
  /\ \A s \in Servers : status[s] = "ready" => artifact[s] # None

Init ==
  /\ status = [s \in Servers |-> "idle"]
  /\ artifact = [s \in Servers |-> None]
  /\ error = [s \in Servers |-> FALSE]
  /\ promise = [s \in Servers |-> Pending]
  /\ task = [s \in Servers |-> [t \in Tasks |-> NoBuild]]
  /\ caller = [c \in Callers |-> Idle]
  /\ src = 0 /\ synced = 0
  /\ file \in {None, Torn} \cup {[ver |-> 0, by |-> s, straddles |-> FALSE] : s \in Servers}
  /\ up \in Teams /\ reloads = 0

-----------------------------------------------------------------------------
\* What executeWithProject answers when waitForReady gave v and the state holds
\* an error or not.
Word(v, err) == IF v # None THEN "model" ELSE IF err THEN "error" ELSE "loading"

Told(c, at, word) == [c EXCEPT !.at = at, !.told = word]

\* The callers who wait for s, each changed by Change.
Waiters(s, Change(_)) ==
  [c \in Callers |-> IF Home[c] = s /\ caller[c].at = "waiting" THEN Change(caller[c])
                                                              ELSE caller[c]]

\* resolve(v) of the deferred of s, with the error err then in the state.
Resolve(s, v, err) ==
  /\ promise' = [promise EXCEPT ![s] = IF @ = Pending THEN v ELSE @]
  /\ caller' = Waiters(s, LAMBDA c : [at |-> "told", told |-> Word(v, err),
                                      failed |-> c.failed \/ err])

SetReady(s, v) ==
  /\ artifact' = [artifact EXCEPT ![s] = v]
  /\ error' = [error EXCEPT ![s] = FALSE]
  /\ status' = [status EXCEPT ![s] = "ready"]
  /\ Resolve(s, v, FALSE)

SetError(s) ==
  /\ error' = [error EXCEPT ![s] = TRUE]
  /\ status' = [status EXCEPT ![s] = "error"]
  /\ Resolve(s, None, TRUE)
  /\ UNCHANGED artifact

\* Mutant of BuildFails: the error is recorded, as buildArtifactInChild does, and
\* warmStart does not catch it.
BuildFailsUncaught(s, t) ==
  /\ task' = [task EXCEPT ![s][t] = NoBuild]
  /\ error' = [error EXCEPT ![s] = TRUE]
  /\ caller' = Waiters(s, LAMBDA c : [c EXCEPT !.failed = TRUE])
  /\ UNCHANGED <<status, artifact, promise>>

\* A build of s fails: the exit of its child, or what is read back.
BuildFails(s, t) ==
  /\ task' = [task EXCEPT ![s][t] = NoBuild]
  /\ IF t # 0 THEN SetError(s)
     ELSE /\ error' = [error EXCEPT ![s] = TRUE]
          /\ caller' = Waiters(s, LAMBDA c : [c EXCEPT !.failed = TRUE])
          /\ UNCHANGED <<status, artifact, promise>>

\* warmStart beyond its early returns, up to its first await.
BeginWarm(s) ==
  LET free == {w \in Warms : task[s][w] = NoBuild}
  IN  /\ free # {}
      /\ status' = [status EXCEPT ![s] = "warming"]
      /\ task' = [task EXCEPT ![s][CHOOSE w \in free : TRUE] = At(IF file = None THEN "child" ELSE "cache")]

\* A retry waits on a new promise.
ResetAfterError(s) ==
  promise' = [promise EXCEPT ![s] = IF status[s] = "error" THEN Pending ELSE @]

\* Mutant of WarmStart: a second call does not join the first.
WarmStartAgain(s) ==
  /\ status[s] # "ready"
  /\ BeginWarm(s) /\ ResetAfterError(s)
  /\ UNCHANGED <<artifact, error, caller, diskVars, runVars>>

\* initialize() and select_project warm the model, and ignore how it ends.
WarmStart(s) ==
  /\ status[s] \in {"idle", "error"}
  /\ BeginWarm(s) /\ ResetAfterError(s)
  /\ UNCHANGED <<artifact, error, caller, diskVars, runVars>>

\* Mutant of Ask: what failed once is not tried again.
AskOnce(c) ==
  LET s == Home[c]
      asking == [Idle EXCEPT !.at = "waiting"]
  IN
  /\ caller[c] = Idle
  /\ IF artifact[s] = None /\ status[s] = "idle"
     THEN BeginWarm(s) ELSE UNCHANGED <<status, task>>
  /\ caller' = [caller EXCEPT ![c] =
       CASE artifact[s] # None   -> Told(asking, "told", "model")
         [] promise[s] = Pending -> asking
         [] OTHER                -> Told(asking, "told", Word(promise[s], error[s]))]
  /\ UNCHANGED <<artifact, error, promise, diskVars, runVars>>

\* A tool call: waitForReady, which starts a warm-up unless one is under way.
Ask(c) ==
  LET s == Home[c]
      asking == [Idle EXCEPT !.at = "waiting"]
  IN
  /\ caller[c] = Idle
  /\ \/ /\ artifact[s] # None
        /\ caller' = [caller EXCEPT ![c] = Told(asking, "told", "model")]
        /\ UNCHANGED <<status, promise, task>>
     \/ /\ artifact[s] = None
        /\ IF status[s] \in {"idle", "error"}
           THEN BeginWarm(s) /\ ResetAfterError(s)
           ELSE UNCHANGED <<status, promise, task>>
        /\ caller' = [caller EXCEPT ![c] =
             IF promise'[s] = Pending THEN asking
             ELSE Told(asking, "told", Word(promise'[s], error[s]))]
  /\ UNCHANGED <<artifact, error, diskVars, runVars>>

\* The timer of waitForReady wins the race.
Timeout(c) ==
  /\ caller[c].at \in {"waiting", "orphan"}
  /\ caller' = [caller EXCEPT ![c] = Told(@, "late", Word(None, error[Home[c]]))]
  /\ UNCHANGED <<stateVars, task, diskVars, runVars>>

\* The agent has its answer, and may ask again.
Done(c) ==
  /\ caller[c].at \in {"told", "late"}
  /\ caller' = [caller EXCEPT ![c] = Idle]
  /\ UNCHANGED <<stateVars, task, diskVars, runVars>>

\* Mutant of Reload: the deferred is not reset.
ReloadKeepsPromise(s) ==
  /\ reloads < MaxReloads[up]
  /\ reloads' = reloads + 1
  /\ artifact' = [artifact EXCEPT ![s] = None]
  /\ error' = [error EXCEPT ![s] = FALSE]
  /\ BeginWarm(s)
  /\ UNCHANGED <<promise, caller, diskVars, up>>

\* reload(): everything is forgotten, the promise too; who waits on the old one
\* waits for its timer.
Reload(s) ==
  /\ reloads < MaxReloads[up]
  /\ reloads' = reloads + 1
  /\ artifact' = [artifact EXCEPT ![s] = None]
  /\ error' = [error EXCEPT ![s] = FALSE]
  /\ promise' = [promise EXCEPT ![s] = Pending]
  /\ caller' = Waiters(s, LAMBDA c : [c EXCEPT !.at = "orphan"])
  /\ BeginWarm(s)
  /\ UNCHANGED <<diskVars, up>>

-----------------------------------------------------------------------------
\* Mutant of ReadCache: a cached model that does not parse is waited for, not built.
ReadCacheOnly(s, w) ==
  /\ task[s][w].stage = "cache" /\ file \in Models
  /\ SetReady(s, file.ver)
  /\ task' = [task EXCEPT ![s][w] = NoBuild, ![s][0] = IF @ = NoBuild THEN At("child") ELSE @]
  /\ UNCHANGED <<diskVars, runVars>>

\* The cached model is read: it is served while a child refreshes it, or does
\* not parse, or has gone, and is built.
ReadCache(s, w) ==
  /\ task[s][w].stage = "cache"
  /\ \/ /\ file \in Models
        /\ SetReady(s, file.ver)
        /\ task' = [task EXCEPT ![s][w] = NoBuild,
                                ![s][0] = IF @ = NoBuild THEN At("child") ELSE @]
     \/ /\ file \notin Models
        /\ task' = [task EXCEPT ![s][w] = At("child")]
        /\ UNCHANGED <<stateVars, caller>>
  /\ UNCHANGED <<diskVars, runVars>>

\* The child reads the project.
ChildReads(s, t) ==
  /\ task[s][t].stage = "child"
  /\ task' = [task EXCEPT ![s][t].stage = "generated", ![s][t].ver = src]
  /\ UNCHANGED <<stateVars, caller, diskVars, runVars>>

ChildOpens(s, t) ==
  /\ task[s][t].stage = "generated"
  /\ task' = [task EXCEPT ![s][t].stage = "open"]
  /\ file' = Torn
  /\ UNCHANGED <<stateVars, caller, src, synced, runVars>>

\* Over what another child has written since, the shorter of two models leaves
\* the tail of the longer one.
ChildWrites(s, t) ==
  LET me == task[s][t] IN
  /\ me.stage \in {"open", "lost"}
  /\ task' = [task EXCEPT ![s][t] = At("written")]
  /\ IF me.stage = "lost" THEN UNCHANGED file
     ELSE \/ file' = [ver |-> me.ver, by |-> s, straddles |-> me.straddles]
          \/ file # Torn /\ file' = Torn
  /\ UNCHANGED <<stateVars, caller, src, synced, runVars>>

\* The child exits with an error, at any point; or it has done its work, but its
\* exit is seen before its output, and counts as a failure.
ChildFails(s, t) ==
  /\ task[s][t].stage \in {"child", "generated", "open", "lost", "written"}
  /\ BuildFails(s, t)
  /\ UNCHANGED <<diskVars, runVars>>

\* The child has exited well, and its model is read back, which may by now be
\* another child's, torn or gone.
ReadBack(s, t) ==
  /\ task[s][t].stage = "written"
  /\ \/ /\ file \in Models
        /\ SetReady(s, file.ver)
        /\ task' = [task EXCEPT ![s][t] = NoBuild]
     \/ /\ file \notin Models
        /\ BuildFails(s, t)
  /\ UNCHANGED <<diskVars, runVars>>

-----------------------------------------------------------------------------
Edit == /\ src < MaxEdits
        /\ src' = src + 1
        /\ UNCHANGED <<stateVars, task, caller, synced, file, runVars>>

\* Mutant of Sync: the commit preserves the MCP server's directory.
SyncPreserves ==
  /\ synced' = src
  /\ UNCHANGED <<stateVars, task, caller, src, file, runVars>>

\* A sync publishes the sources as they are.  Its stale pass removes model.json,
\* which no stage holds; a child that has it open writes to a file without name.
Sync ==
  /\ synced' = src
  /\ file' = None
  /\ task' = [s \in Servers |-> [t \in Tasks |->
       CASE task[s][t].stage = "generated" -> [task[s][t] EXCEPT !.straddles = TRUE]
         [] task[s][t].stage = "open"      -> [task[s][t] EXCEPT !.stage = "lost"]
         [] OTHER                          -> task[s][t]]]
  /\ UNCHANGED <<stateVars, caller, src, runVars>>

\* What ends by itself: reads of files, and children that do not hang.
Work(s, t) == \/ t # 0 /\ ReadCache(s, t)
              \/ ChildReads(s, t) \/ ChildOpens(s, t) \/ ChildWrites(s, t)
              \/ ReadBack(s, t)

Next ==
  \/ \E s \in up :
       \/ WarmStart(s) \/ Reload(s)
       \/ \E t \in Tasks : Work(s, t) \/ ChildFails(s, t)
  \/ \E c \in Callers : Ask(c) \/ Timeout(c) \/ Done(c)
  \/ Edit \/ Sync

Spec == Init /\ [][Next]_vars

\* Something that a server has under way goes on.  The timers are not fair: what
\* holds, holds without them.
FairSpec == Spec /\ \A s \in Servers : WF_vars(\E t \in Tasks : Work(s, t))

-----------------------------------------------------------------------------
\* Whoever waits on the promise waits on one that is not settled, and that a call
\* of warmStart under way will settle (waitForReady, warmStart, setError).
WaitersWoken ==
  \A c \in Callers : caller[c].at = "waiting" =>
     /\ promise[Home[c]] = Pending
     /\ \E w \in Warms : task[Home[c]][w] # NoBuild

\* An error that a tool reports before its timer fires is of a build that failed
\* while it waited, never one that an earlier call has left in the state
\* (executeWithProject reads state.error after its await).
ErrorIsNews ==
  \A c \in Callers : caller[c].at = "told" /\ caller[c].told = "error" => caller[c].failed

\* A server that is not reloaded replaces the model that it serves by an older
\* one only if it read back the file of another server's child.
ModelNeverAges ==
  [][\A s \in Servers :
       artifact[s] # None /\ artifact'[s] # None /\ artifact'[s] # artifact[s] =>
         artifact'[s] > artifact[s] \/ file.by # s \/ reloads > 0]_vars

\* A cached model from before the last sync is there only if its child had read
\* the project when the sync removed the cache, and wrote it afterwards.
CacheFollowsSync == file \notin {None, Torn} /\ file.ver < synced => file.straddles

\* A tool call that waits is answered without its timer, unless reload() leaves
\* it behind: no build ends without waking its waiters.
AnsweredWithoutTimer ==
  \A c \in Callers : caller[c].at = "waiting" ~> caller[c].at # "waiting"
=============================================================================
