----------------------------- MODULE StagedCommit -----------------------------
(***************************************************************************)
(* The generated folder of a project: sync() assembles a stage nested in   *)
(* the folder (sync/index.ts), commitStagedDir moves it live file by file  *)
(* (sync/commit.ts), and the background tasty writer that a finished sync  *)
(* schedules publishes types/tasty by a directory rename while the next    *)
(* sync may already be running (reference/bridge, tasty/js/build.ts).      *)
(*                                                                         *)
(* The folder is a tree: a path is a sequence of names, a node is nothing, *)
(* a directory or the contents of a file.  SyncSession keeps the syncs     *)
(* apart, so they run one after the other here, in one process; what a     *)
(* compile generates is any output of Outputs.  The commit is synchronous  *)
(* code: its steps are apart because the process may die between them, and *)
(* because the thread pool may land what the writer has submitted.         *)
(***************************************************************************)
EXTENDS Naturals, Sequences, FiniteSets, SequencesExt

CONSTANTS
  Paths,        \* every path of the folder, below its root <<>>
  Contents, Nothing, Directory,
  Trees,        \* the folders a project may start with
  Outputs,      \* what a compile may generate: files and their contents
  Preserved,    \* preserve: the paths a commit leaves alone
  Tasty,        \* types/tasty, one of them
  Tmps,         \* the names mkdtemp may give the writer, beside Tasty
  Manifest, Chunks,  \* the files of a tasty build, and the one that indexes them
  Built,        \* what the writer puts into them
  MaxSyncs,     \* bound on the syncs
  MaxCrashes    \* bound on the crashes

Parent(p) == Front(p)
Under(p, root) == IsPrefix(root, p)
IsPreserved(p) == \E root \in Preserved : Under(p, root)
Ancestors(p) == {q \in Paths : IsStrictPrefix(q, p)}
Node == {Nothing, Directory} \cup Contents

IsFile(t, p) == t[p] \in Contents
Entries(t, d) == {p \in Paths : t[p] # Nothing /\ Parent(p) = d}
Without(t, root) == [p \in Paths |-> IF Under(p, root) THEN Nothing ELSE t[p]]
WithDirs(t, dirs) == [p \in Paths |-> IF p \in dirs THEN Directory ELSE t[p]]
WellFormed(t) == \A p \in Paths : t[p] # Nothing => \A q \in Ancestors(p) : t[q] = Directory

ASSUME CommitAssumption ==
  /\ Paths \subseteq Seq(UNION {{p[i] : i \in DOMAIN p} : p \in Paths})
  /\ \A p \in Paths : p # <<>> /\ \A n \in 1 .. Len(p) : SubSeq(p, 1, n) \in Paths
  /\ {Nothing, Directory} \cap Contents = {} /\ Nothing # Directory
  /\ Trees \subseteq {t \in [Paths -> Node] : WellFormed(t)}
  \* no output stages a preserved path, or a file where one has to be a directory
  /\ \A out \in Outputs : \A p \in DOMAIN out :
       /\ p \in Paths /\ out[p] \in Contents /\ ~IsPreserved(p)
       /\ \A q \in Preserved \cup Tmps \cup DOMAIN out : ~IsStrictPrefix(p, q)
       /\ \A t \in Tmps : ~Under(p, t)
  /\ Preserved \subseteq Paths /\ Tasty \in Preserved
  \* the folder of Tasty is not the root, and has the temp dirs too
  /\ Parent(Tasty) # <<>> /\ Tmps # {}
  /\ \A t \in Tmps : t \in Paths /\ Parent(t) = Parent(Tasty) /\ ~IsPreserved(t)
  /\ \A t \in Tmps : \A p \in Paths : Under(p, Tasty) =>
       t \o SubSeq(p, Len(Tasty) + 1, Len(p)) \in Paths
  /\ \A t \in Tmps \cup {Tasty} : \A c \in Chunks : Append(t, c) \in Paths
  /\ Manifest \in Chunks /\ Built \in Contents
  /\ MaxSyncs \in Nat /\ MaxCrashes \in Nat

VARIABLES
  live,      \* the folder, without the stage
  stage,     \* the files of the stage dir
  want,      \* what the running, or last, sync generates
  prior,     \* the folder when it began
  pc,        \* where it is
  outcome,   \* how the last sync ended
  todo,      \* staged files the commit has still to look at
  staged,    \* stagedRel: the files the commit collected
  at,        \* the file between its rm and its rename, <<>> if none
  walk,      \* directories removeStaleFiles has still to list
  victims,   \* files it has listed for removal
  wstep,     \* where the tasty writer is
  wtmp,      \* its temp dir
  wleft,     \* the chunks it has still to write
  cached,    \* the tasty session holds a build: later syncs skip it
  swept,     \* a stale pass has removed a file of the build in progress
  landed,    \* what the writer has landed during the running commit
  syncs, crashes

syncVars   == <<stage, want, prior, pc, outcome, syncs>>
commitVars == <<todo, staged, at>>
staleVars  == <<walk, victims>>
writerVars == <<wstep, wtmp, wleft, cached, swept, landed>>
vars == <<live, syncVars, commitVars, staleVars, writerVars, crashes>>

Empty == [p \in {} |-> Built]

Init ==
  /\ live \in Trees
  /\ stage = Empty /\ want = Empty /\ prior = live
  /\ pc = "idle" /\ outcome = "none"
  /\ todo = {} /\ staged = {} /\ at = <<>>
  /\ walk = {} /\ victims = {}
  /\ wstep = "idle" /\ wtmp = Tasty /\ wleft = {} /\ cached = FALSE /\ swept = FALSE
  /\ landed = "nothing"
  /\ syncs = 0 /\ crashes = 0

-----------------------------------------------------------------------------
(***************************************************************************)
(* sync(): the stage                                                       *)
(***************************************************************************)

\* Mutant of Begin: a stage that a killed run stranded is kept.
BeginOnStranded ==
  /\ pc = "idle" /\ syncs < MaxSyncs
  /\ pc' = "assemble" /\ syncs' = syncs + 1 /\ outcome' = "none"
  /\ want' \in Outputs /\ prior' = live
  /\ UNCHANGED <<live, stage, todo, staged, at, staleVars, writerVars, crashes>>

\* The session is acquired; a stage that a killed run stranded drops.
Begin ==
  /\ pc = "idle" /\ syncs < MaxSyncs
  /\ pc' = "assemble" /\ syncs' = syncs + 1 /\ outcome' = "none"
  /\ stage' = Empty
  /\ want' \in Outputs /\ prior' = live
  /\ UNCHANGED <<live, todo, staged, at, staleVars, writerVars, crashes>>

\* assembleSystem and compile-request.json write the stage.
AssembleFile(p) ==
  /\ pc = "assemble" /\ p \in DOMAIN want
  /\ p \in DOMAIN stage => stage[p] # want[p]
  /\ stage' = [q \in DOMAIN stage \cup {p} |-> IF q = p THEN want[p] ELSE stage[q]]
  /\ UNCHANGED <<live, want, prior, pc, outcome, syncs, commitVars, staleVars, writerVars, crashes>>

\* Fragments, compile, diagnostics or assembly fail: the stage dies with the run.
FailSync ==
  /\ pc = "assemble"
  /\ pc' = "idle" /\ outcome' = "failed"
  /\ stage' = Empty
  /\ UNCHANGED <<live, want, prior, syncs, commitVars, staleVars, writerVars, crashes>>

-----------------------------------------------------------------------------
(***************************************************************************)
(* commitStagedDir                                                         *)
(***************************************************************************)

Staged == \A p \in DOMAIN want : p \in DOMAIN stage /\ stage[p] = want[p]

\* Mutant of CollectStage: the stale files delete first.
CollectStageSweeping ==
  /\ pc = "assemble" /\ Staged
  /\ pc' = "commit"
  /\ todo' = DOMAIN stage /\ staged' = DOMAIN stage
  /\ live' = [p \in Paths |-> IF IsFile(live, p) /\ p \notin DOMAIN stage /\ ~IsPreserved(p)
                              THEN Nothing ELSE live[p]]
  /\ UNCHANGED <<stage, want, prior, outcome, syncs, at, staleVars, writerVars, crashes>>

CollectStage ==
  /\ pc = "assemble" /\ Staged
  /\ pc' = "commit"
  /\ todo' = DOMAIN stage /\ staged' = DOMAIN stage
  /\ UNCHANGED <<live, stage, want, prior, outcome, syncs, at, staleVars, writerVars, crashes>>

\* commitOneFile, in whatever order the stage lists them.
NextFile(p) == pc = "commit" /\ at = <<>> /\ p \in todo
Reachable(p) == \A q \in Ancestors(p) : ~IsFile(live, q)

\* Identical bytes stay untouched.
CommitSkip(p) ==
  /\ NextFile(p)
  /\ Reachable(p) /\ live[p] = stage[p]
  /\ todo' = todo \ {p}
  /\ UNCHANGED <<live, syncVars, staged, at, staleVars, writerVars, crashes>>

\* Mutant of CommitClear: the entry goes, what a directory holds stays.
CommitClearEntry(p) ==
  /\ NextFile(p)
  /\ Reachable(p) /\ live[p] \notin {Nothing, stage[p]}
  /\ live' = [live EXCEPT ![p] = Nothing]
  /\ at' = p
  /\ UNCHANGED <<syncVars, todo, staged, staleVars, writerVars, crashes>>

\* Anything else there goes first, a directory with all it holds, ...
CommitClear(p) ==
  /\ NextFile(p)
  /\ Reachable(p) /\ live[p] \notin {Nothing, stage[p]}
  /\ live' = Without(live, p)
  /\ at' = p
  /\ UNCHANGED <<syncVars, todo, staged, staleVars, writerVars, crashes>>

\* ... then the staged file is renamed into its directory.
CommitRename(p) ==
  /\ pc = "commit" /\ p \in todo
  /\ at = p \/ (at = <<>> /\ live[p] = Nothing)
  /\ Reachable(p)
  /\ live' = [WithDirs(live, Ancestors(p)) EXCEPT ![p] = stage[p]]
  /\ stage' = [q \in DOMAIN stage \ {p} |-> stage[q]]
  /\ todo' = todo \ {p} /\ at' = <<>>
  /\ UNCHANGED <<want, prior, pc, outcome, syncs, staged, staleVars, writerVars, crashes>>

\* mkdirSync throws where an ancestor is a file: the sync fails half committed.
CommitThrows(p) ==
  /\ NextFile(p)
  /\ ~Reachable(p)
  /\ pc' = "idle" /\ outcome' = "threw"
  /\ stage' = Empty /\ todo' = {} /\ landed' = "nothing"
  /\ UNCHANGED <<live, want, prior, syncs, staged, at, staleVars,
                 wstep, wtmp, wleft, cached, swept, crashes>>

BeginStale ==
  /\ pc = "commit" /\ at = <<>> /\ todo = {}
  /\ pc' = "stale" /\ walk' = {<<>>}
  /\ UNCHANGED <<live, stage, want, prior, outcome, syncs, commitVars, victims, writerVars, crashes>>

\* removeStaleFiles reads a directory, and descends into the ones in it.
ListDir(d) ==
  /\ pc = "stale" /\ d \in walk
  /\ walk' = (walk \ {d}) \cup {p \in Entries(live, d) : live[p] = Directory}
  /\ victims' = victims \cup
       {p \in Entries(live, d) : IsFile(live, p) /\ p \notin staged /\ ~IsPreserved(p)}
  /\ UNCHANGED <<live, syncVars, commitVars, writerVars, crashes>>

RemoveStale(p) ==
  /\ pc = "stale" /\ p \in victims
  /\ live' = Without(live, p)
  /\ victims' = victims \ {p}
  /\ swept' = (swept \/ (live[p] # Nothing /\ wstep \in {"write", "swap"} /\ Under(p, wtmp)))
  /\ UNCHANGED <<syncVars, commitVars, walk, wstep, wtmp, wleft, cached, landed, crashes>>

\* pruneEmptyDirs: not the preserved paths, nor their ancestors and whatever
\* else is in those.
PruneSkipped(d) ==
  \E q \in Ancestors(d) \cup {d} : IsPreserved(q) \/ \E r \in Preserved : IsStrictPrefix(q, r)

PruneEmptyDirs ==
  /\ pc = "stale" /\ walk = {} /\ victims = {}
  /\ pc' = "drop"
  /\ live' = [d \in Paths |->
       IF live[d] = Directory /\ ~PruneSkipped(d)
          /\ \A p \in Paths : IsFile(live, p) => ~Under(p, d)
       THEN Nothing ELSE live[d]]
  /\ UNCHANGED <<stage, want, prior, outcome, syncs, commitVars, staleVars, writerVars, crashes>>

\* The emptied stage drops and the tasty phase is scheduled: unless one is
\* pending, or has landed and its manifest is still there.
Finish ==
  /\ pc = "drop"
  /\ pc' = "idle" /\ outcome' = "ok"
  /\ stage' = Empty
  /\ wstep' = IF wstep = "idle" /\ (cached => live[Append(Tasty, Manifest)] = Nothing)
              THEN "scheduled" ELSE wstep
  /\ landed' = "nothing"
  /\ UNCHANGED <<live, want, prior, syncs, commitVars, staleVars, wtmp, wleft, cached, swept, crashes>>

-----------------------------------------------------------------------------
(***************************************************************************)
(* The tasty writer: writeEmittedArtifacts, then api.ready().              *)
(***************************************************************************)

\* While commitStagedDir runs no callback of the writer does: what it has
\* submitted lands, that is one operation, or the writes of some chunks.
Committing == pc \in {"commit", "stale", "drop"}

Lands(operation) ==
  /\ Committing => landed = "nothing" \/ (landed = "chunks" /\ operation = "chunks")
  /\ landed' = IF Committing THEN operation ELSE "nothing"

\* mkdir of the parent and mkdtemp.  Nothing prunes what is beside Tasty, so
\* the temp dir stays until the writer renames or removes it.
MakeTmp(t) ==
  /\ wstep = "scheduled" /\ live[t] = Nothing
  /\ Lands("mkdtemp")
  /\ live' = WithDirs(live, Ancestors(t) \cup {t})
  /\ wstep' = "write" /\ wtmp' = t /\ wleft' = Chunks /\ swept' = FALSE
  /\ UNCHANGED <<syncVars, commitVars, staleVars, cached, crashes>>

WriteChunk(c) ==
  /\ wstep = "write" /\ c \in wleft
  /\ Lands("chunks")
  /\ live' = [live EXCEPT ![Append(wtmp, c)] = Built]
  /\ wleft' = wleft \ {c}
  /\ UNCHANGED <<syncVars, commitVars, staleVars, wstep, wtmp, cached, swept, crashes>>

\* A write fails, or the rename (Tasty is gone then): the temp dir is removed.
FailWriter ==
  /\ wstep \in {"write", "swap"}
  /\ Lands("rm")
  /\ live' = Without(live, wtmp)
  /\ wstep' = "failed"
  /\ UNCHANGED <<syncVars, commitVars, staleVars, wtmp, wleft, cached, swept, crashes>>

\* The pending mark is cleared, also when the scan or the mkdtemp has failed.
GiveUp ==
  /\ wstep \in {"scheduled", "failed"} /\ ~Committing
  /\ wstep' = "idle"
  /\ UNCHANGED <<live, syncVars, commitVars, staleVars, wtmp, wleft, cached, swept, landed, crashes>>

\* Mutant of RemoveTasty: the writes are not awaited.
RemoveTastyEarly ==
  /\ wstep = "write"
  /\ Lands("rm")
  /\ live' = Without(live, Tasty)
  /\ wstep' = "swap"
  /\ UNCHANGED <<syncVars, commitVars, staleVars, wtmp, wleft, cached, swept, crashes>>

RemoveTasty ==
  /\ wstep = "write" /\ wleft = {}
  /\ Lands("rm")
  /\ live' = Without(live, Tasty)
  /\ wstep' = "swap"
  /\ UNCHANGED <<syncVars, commitVars, staleVars, wtmp, wleft, cached, swept, crashes>>

RenameTmp ==
  /\ wstep = "swap"
  /\ Lands("rename")
  /\ live' = [p \in Paths |->
       IF Under(p, wtmp) THEN Nothing
       ELSE IF Under(p, Tasty) THEN live[wtmp \o SubSeq(p, Len(Tasty) + 1, Len(p))]
       ELSE live[p]]
  /\ wstep' = "ready"
  /\ UNCHANGED <<syncVars, commitVars, staleVars, wtmp, wleft, cached, swept, crashes>>

\* api.ready() reads the manifest: a build without one has failed.
TastyReady ==
  /\ wstep = "ready" /\ ~Committing
  /\ wstep' = "idle"
  /\ cached' = (cached \/ live[Append(Tasty, Manifest)] # Nothing)
  /\ UNCHANGED <<live, syncVars, commitVars, staleVars, wtmp, wleft, swept, landed, crashes>>

-----------------------------------------------------------------------------
\* The process dies, with its writer.  What it left on disk stays.
Crash ==
  /\ crashes < MaxCrashes /\ (pc # "idle" \/ wstep # "idle")
  /\ crashes' = crashes + 1
  /\ pc' = "idle" /\ outcome' = IF pc # "idle" THEN "crashed" ELSE outcome
  /\ todo' = {} /\ at' = <<>> /\ walk' = {} /\ victims' = {}
  /\ wstep' = "idle" /\ cached' = FALSE /\ landed' = "nothing"
  /\ UNCHANGED <<live, stage, want, prior, syncs, staged, wtmp, wleft, swept>>

CommitOneFile == \E p \in Paths : CommitSkip(p) \/ CommitClear(p) \/ CommitRename(p) \/ CommitThrows(p)
RemoveStaleFiles == \E d \in Paths \cup {<<>>} : ListDir(d) \/ RemoveStale(d)
TastyWriter ==
  \/ \E t \in Tmps : MakeTmp(t)
  \/ \E c \in Chunks : WriteChunk(c)
  \/ FailWriter \/ GiveUp \/ RemoveTasty \/ RenameTmp \/ TastyReady

Next ==
  \/ Begin \/ FailSync \/ CollectStage
  \/ \E p \in Paths : AssembleFile(p)
  \/ CommitOneFile
  \/ BeginStale \/ RemoveStaleFiles \/ PruneEmptyDirs \/ Finish
  \/ TastyWriter
  \/ Crash

Spec == Init /\ [][Next]_vars

-----------------------------------------------------------------------------
\* Types, and a folder that is a tree whatever removes and renames meet.
TypeOK ==
  /\ live \in [Paths -> Node] /\ WellFormed(live)
  /\ DOMAIN stage \subseteq Paths /\ \A p \in DOMAIN stage : stage[p] \in Contents
  /\ want \in Outputs \cup {Empty} /\ prior \in [Paths -> Node]
  /\ pc \in {"idle", "assemble", "commit", "stale", "drop"}
  /\ outcome \in {"none", "ok", "failed", "threw", "crashed"}
  /\ todo \subseteq staged /\ staged \subseteq Paths
  /\ at \in todo \cup {<<>>}
  /\ walk \subseteq Paths \cup {<<>>} /\ victims \subseteq Paths
  /\ wstep \in {"idle", "scheduled", "write", "swap", "ready", "failed"}
  /\ wtmp \in Tmps \cup {Tasty} /\ wleft \subseteq Chunks
  /\ cached \in BOOLEAN /\ swept \in BOOLEAN
  /\ landed \in {"nothing", "mkdtemp", "chunks", "rm", "rename"}
  /\ ~Committing => landed = "nothing"
  /\ syncs \in 0 .. MaxSyncs /\ crashes \in 0 .. MaxCrashes

\* A path whose fate the commit decides: not preserved, not the writer's.
Ours(p) == ~IsPreserved(p) /\ p \notin UNION {Ancestors(q) : q \in Preserved}
           /\ \A t \in Tmps : ~Under(p, t)

\* After a sync that succeeded the folder is exactly what it generated: every
\* file, no other file, and no empty directory but beside the preserved ones.
\* Whatever an earlier sync, killed or failed half way, left in the folder or in
\* the stage.
MirrorsOutput ==
  outcome = "ok" =>
    \A p \in Paths : Ours(p) =>
      IF p \in DOMAIN want THEN live[p] = want[p]
      ELSE IF \E q \in DOMAIN want : p \in Ancestors(q) THEN live[p] = Directory
      ELSE live[p] = Nothing \/ (PruneSkipped(p) /\ live[p] = Directory)

\* "A failed sync keeps the last-good outputs", as long as the commit has
\* not begun.
FailedKeepsLastGood ==
  outcome = "failed" => \A p \in Paths : Ours(p) => live[p] = prior[p]

\* Until it is over a sync leaves an old file as it was, except the one between its
\* rm and its rename, those whose new version has landed, those in whose directory's
\* place a file comes, and, when every staged file has landed, those that are stale
\* ("Stale entries delete last").
OldFilesStay ==
  pc # "idle" => \A p \in Paths : Ours(p) /\ IsFile(prior, p) /\ live[p] # prior[p] =>
    \/ at # <<>> /\ Under(p, at)
    \/ p \in DOMAIN want /\ live[p] = want[p]
    \/ \E q \in DOMAIN want : p # q /\ Under(p, q)
    \/ p \notin DOMAIN want /\ pc # "assemble" /\ todo = {}

TastyWhole == \A c \in Chunks : live[Append(Tasty, c)] = Built

\* A build that the session caches, so that no later sync repeats it, is
\* complete on disk, if no stale pass met it.
TastyLands == cached /\ wstep = "idle" /\ ~swept => TastyWhole

\* "The background tasty writer survives every sync": the same, also when the
\* next sync's stale pass meets the writer's temp dir.
TastySurvives == cached /\ wstep = "idle" => TastyWhole
=============================================================================
