# Reference UI: a verification model

TLA+ models of the parts of this repository whose correctness hangs on the order
of things: the lock behind `ref sync`, the resident watcher, the publication of the
generated folder, the model that an MCP server serves, the parallel phase of the
native compiler, the toasts of the component library and the exits of its elements. TLC
checks small instances, TLAPS proves what it can for every value of the constants. `PROJECT.json` is the index: the components, the
runs, the mutants that show that each property can fail, the map from definitions
to source lines, the findings, the hazards and the theorems.

    tlc -workers 2 -config MCSyncPair.cfg MCSyncPair      # a run
    tlapm WatchLoopProofs.tla                             # the proofs of a module

Paths below are relative to `src/packages/`.

## 1. The system and its parts

Reference UI is a design-system compiler. `ref sync` (package `reference-neo`)
reads the user's configuration and style fragments, hands them to a native
compiler (`reference-rs`), and publishes the generated folder `.reference-ui/`,
which the user's bundler and the MCP server read. `ref sync --watch` keeps doing
so; `ref clean` wipes the folder.

| part | state | operations | talks to |
|---|---|---|---|
| **Sync session lock** `reference-neo/src/sync/session.ts`, `session-owner.ts` | `.sync.lock/` with `owner.json`, `preempt.json`, temporary files; in memory `heldSessions` and signal handlers | acquire, contend, poke, supersede, take, attach, release, handle SIGINT/SIGTERM/SIGHUP | every CLI process of the project, by disk and signals |
| **Watch driver** `reference-neo/src/lib/watch`, `cli/watch.ts` | scheduler flags and timer, matcher, roots, subscriptions, poke target | baseline, resync, event, watcher error, poke, refresh of the scope, stop | the lock, `sync()`, the watcher backend |
| **Staged commit** `reference-neo/src/sync/index.ts`, `commit.ts`, `clean.ts` | the live folder and the nested stage | assemble, commit file by file, remove stale, prune, fail, wipe | the lock; the tasty writer, by disk |
| **Tasty writer** `reference-neo/src/reference/bridge`, `reference-rs/modules/tasty/js/build.ts` | pending mark, cached build, temp dir, `types/tasty` | schedule, emit, swap, ready | later syncs, by disk |
| Symlinked packages `lib/symlink`, `packager/links.ts` | links in `node_modules/@reference-ui` | replace a link | after the commit |
| Collection and configuration `collect`, `config` | last loaded configuration per project | load, bundle, evaluate | watch driver, `sync()` |
| Assembly `system`, `packager`, `primitives` | none | generate | the stage |
| Native bridge `native` | retention token of a scan | attach, drop, release | the compiler |
| Atomic compiler, parallel phase `reference-rs/modules/atomic/src/phase_*.rs`, `lanes.rs`, `resolve_pool.rs` | lanes, slots, channels, single-flight flag | three rendezvous rounds, abort, commit; pooled resolution | the caller thread |
| Other native modules | none between calls | analyses | the bridge |
| **MCP model state** `reference-mcp/src/server/model-state.ts`, `deferred.ts`, `child-process` | artifact, error, status, deferred, refresh flag; `model.json` | warmStart, waitForReady, reload, background refresh; generate, write | a child process; the tools; a sync's stale pass and other servers, by disk |
| MCP projects and transport `server/project-*.ts`, `tools.ts`, `http.ts` | registry file, per-project cache | upsert, activate, invalidate | other servers, by disk |
| Overlays `reference-lib/src/components/Overlay` | scroll locks and inert marks with reference counts, the stack | open, close, dismiss | the document |
| **Toasts** `reference-lib/src/components/Toast`, the host in `ReferenceLibrary`, the end of an exit in `Presence` | the store's records with their generations; the host's wrappers with a clock each | show, update, dismiss, dismissAll, subscribe; expire, pause, resume, end of exit | any code of the page, React's renders |
| **Presence** `reference-lib/src/components/Presence`, used by Overlay's parts and Collapsible | the state of each Presence with its refs, the coordinator's registered and finished parts | commit, layout effect, end of effects, fallback timer, removal | parents and children by context, the parts of an Overlay by its coordinator |
| Announcer, tooltips | stores with timers and tokens | announce, open, close | the document |
| Documentation, icons, build pipeline, test matrix | - | - | - |

What makes each modelled part correct, and what is hard about it:

* **Lock.** One holder, one writer; a resident watch is never torn down by a sync;
  nobody waits or retries for ever; nothing is left behind. Hard because the lock
  is a directory (mkdir is atomic, owner file and removal are not), because peers
  die at any point, because an owner that was read may be gone when it is
  signalled, and because signal handlers depend on the phase the victim is in.
* **Watch driver.** No seen edit is lost, no backlog builds up, the scope follows
  the configuration, stop is final. Hard because timers, subscriptions, pokes,
  errors and stop interleave with a pass at each of its awaits.
* **Commit.** The folder equals the output after a sync; before that, readers find
  complete old or new files; a killed or failed sync costs nothing. Hard because of
  crashes between any two file operations.
* **Tasty writer.** It publishes a whole build, once. Hard because it outlives the
  lock under which it was scheduled and shares the folder with the next sync.
* **MCP model state.** Whoever waits for the model is woken by the build he waits for;
  an error that he is told is that build's; the model he is given is not older than need
  be. Hard because one deferred serves every call, because two calls of `warmStart` and a
  background refresh may be under way at once, because the file is written in place by
  children of several servers, and because each sync deletes it.
* **Toasts.** The screen shows what the store says; a toast is closed by its own clock
  and no other, its callback is told once, and it leaves in the end. Hard because the
  store changes at once and the screen when React renders, because clocks call back by
  an id that may by then mean another toast, because callbacks may throw or show the
  toast again in the middle of an operation, and because the host comes and goes.
* **Presence.** What is on the page follows the flags once every exit has ended; an exit
  ends, and not before what is nested in it and beside it in an Overlay. Hard because
  layout effects of one commit run from the inside out and read the states of the last
  render, because the same exit may be ended by an event, a child, a sibling, a timer or a
  removal, and because any of them may be interrupted half way.
* **Parallel phase.** The result is that of the serial compile, or an error and
  nothing. Hard because a lane may panic anywhere, with a half-filled slot locked,
  because the lanes read what the coordinator makes of the slots between the rounds,
  and because everyone blocks on a channel whose other end may die.

## 2. The modules

| module | models | lines of state |
|---|---|---|
| `FolderLock` | abstract: what the lock promises | who is out, waiting, holding, leaving, covered, gone |
| `SyncSession` | the lock protocol of `session.ts`, with the holder's side of the CLI | a program counter per process, the lock directory, pending signals |
| `WatchLoop` | `watchSync`, the scheduler, the scope refresh | the session's phase, the pass's stage, flags, sets of roots |
| `StagedCommit` | stage, commit, stale pass, tasty writer | the folder as a tree, the stage, where sync and writer are |
| `PhaseRendezvous` | `phase_*.rs`: lanes, coordinator, slots | where each lane and the coordinator are, the channels, the slots, what was merged and committed |
| `McpModelState` | `McpProjectModelState`, its children, `model.json` | the fields of each server's state, its builds, its callers, the file |
| `ToastQueue` | `toastRuntime.ts`, `ToastSystem.tsx` | each id's record and wrapper, the host and its limit, what React has yet to render |
| `PresenceExit` | `Presence.tsx`: `usePresence`, `usePresenceCoordinator` | for each Presence its state, its refs and its effects; the coordinators; what is left of the present turn |
| `MCSyncPair`, `MCSyncTrio`, `MCWatch`, `MCStagedCommit`, `MCPhase`, `MCMcp`, `MCToast`, `MCPresence` | instances for TLC | |
| `FolderLockProofs`, `SyncSessionProofs`, `WatchLoopProofs`, `StagedCommitProofs`, `PhaseRendezvousProofs`, `McpModelProofs`, `ToastProofs`, `PresenceProofs` | theorems | |

`SyncSession` composes with `FolderLock` by refinement (`Folder == INSTANCE
FolderLock WITH phase <- ...`). `WatchLoop` and `StagedCommit` take over where
`SyncSession` has `busy`: what a holder does while it holds. In the other
direction they use what `SyncSession` shows: syncs of a project run one after the
other. `FolderLock` also says what `--break-lock` may do: take the lock of a live
holder, after which the exclusion is no longer promised; `SyncSession` implements it
with and without such an invocation. `McpModelState` takes from `StagedCommit` that a
sync removes what it neither stages nor preserves, which is `.reference-ui/mcp` too.
`ToastQueue` has the end of an exit as one step; a toast's Presence has nothing nested in
it and shares no coordinator, so what `PresenceExit` shows of such a Presence
(`QuietPage`, `ExitsEnd`) is what that step and its fairness take for granted.

In the component modules, an operator whose comment begins *Mutant of* is not part of
the specification: it is a plausible bug in the definition that follows it, and
`PROJECT.json` names the property that fails when it takes that definition's place.

### SyncSession

A process is one CLI invocation of a kind (`one-shot`, `watch`, `clean`) with or
without `--break-lock`. Labels follow the code: `mkdir`, `write`, `rename`,
`readBack` (tryClaimDir, writeFreshOwner); `read`, `settle100`, `settle500`,
`contend` (acquireContendedLock, settleMissingOwner, contendForLock); `poke`,
`markWrite`, `markRename`, `term`, `wait`, `kill` (preempt matrix); `fresh`,
`unlink`, `rmdir`, `remkdir`, `takeSettle` (forceTake); `held`, `stop`, `drain`,
`relRead`, `relUnlink`, `relRmdir`, `tail`, `attached`. Every await, and every
system call in a synchronous section, is one step.

* A recursive removal is two steps: the entries, then the directory, which fails
  when an entry has landed meanwhile. That is where a newcomer's marker or
  temporary file meets a release.
* A signal meets the listeners its receiver has at that moment: a process without
  one dies, a holder handles it by `onSigterm` or `makeReraiseHandler`, a watch
  that is up also has the CLI's, for SIGINT and SIGTERM. On SIGHUP, for which the CLI has
  none, a live watch releases its lock and dies. An attached client forwards.
* `Prompt` is the timing assumption of the code's own settles: a file operation
  that a live peer has begun lands before a settle of at least 50 ms is over.
  With `Prompt = FALSE` a settle says nothing and two processes can both hold the
  lock, so every run assumes it, and so do the theorems about who holds the lock; the
  others do without (section 5).
* Dead owners left on disk are the model value `Ghost`, unreadable ones `Junk`.
* Not modelled: Windows (no SIGUSR2), the reuse of a pid by the operating system,
  EPERM on a signal, a resync that is still loading its configuration when SIGINT
  releases the lock and then acquires one of its own.

### WatchLoop

The project is a set of roots; `conf` is what the configuration on disk includes,
`stale` the roots edited since a pass last read them, `unseen` those whose edit
nobody was subscribed to see (or whose event the matcher or the backend dropped).
A step is what JavaScript runs between two awaits. A pass goes through `load`
(configuration), `scan` (sources), `publish`, `refresh` (refreshTriggerScope, one
subscribe or unsubscribe at a time, each of which may fail) and `report`. The
scheduler's `syncing`, `queued`, `cancelled` and `timer` are the variables of
`createResyncScheduler`. `torn` records that a refresh failed half way or met the
loop that subscribes the initial roots, the two cases in which the code makes no
repair; `leaked` are subscriptions that the map has lost, also those of an unsubscribe
that fails after its entry is deleted. `reconf` says that the configuration was edited
between `load` and `scan`: such a pass has not read it.

### StagedCommit

The folder maps each path to nothing, a directory or the contents of a file; the
stage maps staged files to contents. `commitStagedDir` is synchronous: its steps
are separate because the process may die between them and because the thread pool
may land an operation that the tasty writer has submitted, but no callback of the
writer runs. That is `Lands`: during one commit one submitted operation, or writes
of chunks, may land. Outputs never stage a preserved path nor a file where another
staged file needs a directory, nor under a name that mkdtemp may give; the tasty dir is
not at the root of the folder (`CommitAssumption`). The prune goes around the folders
of preserved paths and all that is in them, so an empty directory beside `types/tasty`
stays: that is the one thing that `MirrorsOutput` leaves open. The writer may fail at its
scan or `mkdtemp` (`GiveUp`), in a write or in the rename (`FailWriter`, then `GiveUp`).

### PhaseRendezvous

A lane runs through the rounds `record`, `refs`, `walk`; in each it does the files of
its shard one by one (`RecordFile`, `StoreRefs`, `WalkFile`), reports and waits for a
verdict (`LaneGate::rendezvous`), or reports and ends (`finish`). The coordinator is at
`spawn`, `await` (lane by lane, `next`), `publish`, `graph`, `resolve`, `join`,
`settle`. A channel of reports is a count, one of verdicts a sequence; a channel whose
sender is gone is the state of the lane (`Gone`) or `hungUp`, and what was sent before
is still received, as with `std::sync::mpsc`.

* A source streams or is retained, styles or not (a streamed one has nothing to walk),
  and may be `broken`: the parser panics on it, which is a result, not a panic of the
  lane. The contents of a file are not modelled.
* A slot is the `SlotState` of its `OwnedFile`; `Locked` is `lock()` with
  `mark_poisoned`, `Merged` is `ensure_mergeable` after it. Every lock that the code
  takes is a step or part of one, so each slot is read in the state it has then.
* `LanePanics` may strike at any point of a round, in `record` also with the slot's
  lock held; `CoordinatorPanics` in any work of the coordinator. Both draw on
  `MaxPanics`. A broadcast is one step, since each lane receives on a channel of its
  own; so is each pass of the coordinator over the slots, which no lane can observe:
  that is `CoordinatorAlone`, which is proved.
* `refs` and `values` record which slots hold what a later round needs, so that a walk
  knows whether it was given resolved imports (`whole`) or not (`blind`).
* Not modelled: the choice of the number of lanes and the single-flight flag
  (`lanes.rs`), the pooled resolution that follows the phase (`resolve_pool.rs`), the
  diagnostics that publish leaves in the sinks of a compile that then fails.

### McpModelState

A server is one `McpProjectModelState`; its fields are `status`, `artifact`, `error` and
the deferred (`promise`, `Pending` until it is settled). What it has under way is
`task[s]`: calls of `warmStart` in the slots `Warms`, and the background refresh, task
0, which is there while `isRefreshing`. `WarmStart`, `Ask` (waitForReady), `Timeout`,
`Reload` and `ReadCache` are the code between two awaits; the microtasks that follow a
settled promise belong to the step that settles it, so `Resolve` answers everyone who
waits on it. A caller that `reload()` leaves on the old promise is an `orphan`.

* The child of a build runs through `ChildReads` (it generates the model of the sources
  that it finds), `ChildOpens` (mkdir and the truncating open of `writeFile`),
  `ChildWrites`, and `ReadBack` in the server, which may find another child's file, a
  torn one or none. `ChildFails` is an error at any point, and the exit that is seen
  before the last of the child's output.
* A model is the version of the sources that its child read. `by` and `straddles`
  remember whose child wrote it and whether a sync came between its read and its
  write; no action looks at them.
* Servers share the file and nothing else. `Sync` takes the file away because the stale
  pass removes what is neither staged nor preserved; a child that has it open then
  writes to a file without a name.
* Not modelled: restarts of a server, the prefetch of the atlas, and the registry file,
  whose read, modify and rename may lose another server's entry until it is written
  again.

### ToastQueue

`toast` is the store: for each id the record in `store.toasts`, whose order is `place`,
with the generation that `show` gives it when it does not replace an open one. `screen`
is the host: for each id the wrapper that React has mounted, with its clock. A change of
the store calls the subscriber, which makes the screen `dirty`; `Flush` is React's
render, the commit and all effects of that commit in one step. What React has not yet
rendered goes on running: that is why `Expires`, `Pause` and `ExitEnds` look at the
wrapper, and what they do to the store is guarded by the id or by the generation, as in
the code.

* A callback (`onDismiss`, `onAutoClose`) is quiet, shows its toast again, or throws.
  An update by id of an open toast, which is also how a promise's toast changes, keeps
  the generation; its callback is any, so it keeps the old one or brings a new one. `kept`
  are the toasts that their own callback has kept open.
* `dismiss` marks the record in place, and a wrapper that renders by itself, because of a
  pause, then begins to leave. `record` says whether the wrapper still holds the record of
  the store, or one that `show` has replaced there, by then `marked` or not: a toast that
  its callback shows again in `dismiss` may play an exit before the next render, and be
  removed by it, or be back with that render, and with its clock.
* `dismissAll` loops over the records and notifies once at the end. If a callback throws
  half way, those before it are marked and nobody is told: `silent`, until some other
  change has React render; they have been told of an end, and `cheated` remembers them.
* Time has no amount: a clock that runs may expire, and a pause finds it with time left
  (`held`) or with none (`due`). `Held` are the wrappers that are paused when they mount.
* Not modelled: how much time is left. The code starts the clock of a toast anew when it
  is pushed out by a smaller limit and comes back, since nothing writes the rest of the
  time to the record, where `Toast.md:214-218` speaks of preserving it; the model, whose
  clocks have no amount, does not tell the two apart. Nor are the positions (a change of
  position mounts the wrapper anew), the history list, several documents, the geometry of
  swipes, `duration: 0`, and a callback that dismisses its own toast, which recurses
  without end.

### PresenceExit

A page is a set of Presences, for each of which `shape` has the flag that it is driven by,
the Presences around it, the Overlay whose coordinator its context finds, and the exits
that its style may give it: `animated`, `still` (no finite effect), `instant` (it is not
displayed). An Overlay is named by its flag, because `usePresenceCoordinator` is called
with the same `isOpen` as the Presences of its parts.

* A turn of JavaScript is a sequence of steps. `Commit` renders new flags and leaves the
  layout effects `todo`; `LayoutEffect` runs one, from the inside out; each `finishExit`
  that it calls is a step, and runs before the next effect; `Render` shows the states that
  were set. A report or an unregistration that makes an Overlay complete queues
  `NotifyAllComplete` (`notices`), the microtask that looks at it again and releases the
  parts; nothing else does, so that parts left among the finished of an earlier exit release
  nobody before the next report. The page's next move waits for `Quiet`.
* `state` is what was last rendered, which is also what `stateRef` holds, and `want` what
  was last set. `live` says that `exitIdRef` is ahead of `firedExitIdRef`. `effects` goes
  from `running` to `ended` to `over`, the last when the fallback timer has fired as well.
* `told` and `returned` collect, for one turn, whose `onExitComplete` was called and who
  was found present again; only properties look at them.
* What a Presence contains is rendered while its state is not `unmounted`, so a nested
  one is `absent` otherwise, and is born with its flag. `Remove` takes a component away
  for good. Who goes in a render or a removal with something nested in it, its own effects
  over, is told of its exit after all: the cleanup of what is nested releases it
  (`EndsWithNested`).
* Not modelled: how computed styles, animations and tweens decide between the three kinds
  of exit, the fill mode that holds the last frame, refs and portals, StrictMode's double
  effects, and the error for a child that shows no node.

## 3. The runs

| run | question | outcome |
|---|---|---|
| `session_pair` | two invocations, every kind, `--break-lock` or not, every leftover lock, one crash, one user signal, under a fair scheduler | 6 invariants, the refinement of `FolderLock` and a liveness property hold; 0.7 million states, 2 min |
| `session_trio` | three one-shots on a fresh project | **two hold the lock at once** |
| `session_poke` | may a poke kill a watch? | **yes**, before its listener is installed |
| `session_interrupt` | may two processes write the folder? | **yes**, after SIGINT to a watch in a resync |
| `watch` | two roots, two edits, a poke, an error, every failure | 5 invariants, 1 liveness property hold; 0.3 million states, 34 s |
| `watch_scope` | does the scope follow the configuration whenever no refresh fails? | **no**, when a pass meets the initial subscriptions |
| `commit` | two syncs of any output over any folder, one crash, the writer in the background | 4 invariants hold; 1.1 million states, 77 s |
| `phase` | four sources in three lanes, two panics | 5 invariants, 1 liveness property hold; 0.2 million states, 15 s |
| `mcp` | two tool calls of one server, alone with one reload or beside a second server; one edit, syncs at any moment | 4 invariants, 1 action property, 1 liveness property hold; 0.6 million states, 85 s |
| `toast` | two toasts on a screen for one or two, four calls, every callback | 3 invariants, 1 action property, 1 liveness property hold; 0.6 million states, 2.5 min |
| `presence` | seven pages of up to three Presences, four commits or removals | 2 invariants, 2 action properties, 1 liveness property hold; 23 thousand states, 4 s |
| `commit_tasty` | does a tasty build survive every sync? | **no**, when a stale pass meets its temp dir |

The five violations are statements of the code's own comments and documents that its
code does not keep; `PROJECT.json` quotes each one and tells the counterexample. For each of
them the passing run has the strongest form that does hold: `HolderOwnsLock` for two
processes (of which `OneHolder` is a consequence), `OneWriterButInterrupted`,
`ScopeFollowsConfig` (with `torn = {}`), `TastyLands` (with `~swept`), and the refinement, in which a
word to a watch that does not listen may be its end.

Of three more statements the passing runs check only the form that holds. `commit.ts:2-4`
speaks of "no missing-file window", and `commitOneFile` removes a file before it renames
the new one over it: `OldFilesStay` says that it is one file at a time. `Presence.md:63-65`
lets a parent remain until every registered nested exit has finished, and one that has no
effect of its own does not (`Presence.tsx:312`): `ParentHolds` is about those that have,
and of what is nested, about what is not taken away in the same step.
`Presence.md:27-28` says that `onExitComplete` never fires on an interrupted exit, and it
does when parent and nested Presence come back in one commit, for the nested one's layout
effect releases the parent before the parent's own has cancelled its exit: the second
case of `ToldWhenGone`.

`ExitsEnd` holds of the pages that `Sound` describes, and of no others: TLC finds a page
that stays as it is as soon as a condition of `Sound` is dropped.

* A Collapsible in the Content of a Dialog registers with the Dialog's coordinator
  (`Presence.tsx:331-333`). When the Dialog closes, Content reports and waits for a report
  of the Collapsible, which does not exit.
* Content has ended its own effects while a popover nested in it still leaves; when that
  has left, `onDescendantExitComplete` calls `finishExit` and not `reportPartFinished`
  (`Presence.tsx:511-519`), so that a Backdrop that has reported stays.
* A part that is not displayed, or leaves at once, does not report either
  (`Presence.tsx:224-227`).

In each of them the fallback timer fires and reports once more, which changes nothing.

Bounds and why they are enough:

* *Two processes* meet in every pair of kinds and of labels. The third adds the
  one thing a pair cannot show, a taker between two owners: `session_trio`. For what
  does hold of any number of processes there are theorems.
* *At most one of the two breaks the lock*: with two, nothing is promised.
* *One crash and one user signal* reach each label of each process. Together with
  a leftover lock the pair sees two generations of dead owners.
* `MaxAttempts` is 4 where the code has 25: a pair never needs a fourth attempt, which
  theorem `Settles` shows for any bound above two, so the bound never bites.
* *Two roots, two edits*: an edit before and one after the scan of a pass, an edit
  of the configuration and one of a source. The theorems have no bound.
* *Two syncs, one crash*: a sync after a sync, after a failed one, after a killed
  one. The folder has a plain file, a directory that may also be a file, a file in
  it, `types/tasty` with a manifest and a chunk, and a stale file or an empty directory
  beside it. The theorems have no bound.

* *Four sources, three lanes, two panics*: the first lane has two files of any kind, so
  that it meets both orders of a round; the other two have one styling file each, and
  are there for the order in which lanes report and die. Two panics are two lanes, or a
  lane and the coordinator. The theorems have no bound.
* *Two callers of one server, two slots for `warmStart`*: a call that joins a build, one
  that finds the outcome of an earlier one, and the second `warmStart` that only
  `reload()` starts beside a first. *One edit*: a model is old or new. The second server
  is there for its child, which may write the file at any moment. The theorems have no
  bound.
* *Two toasts, limits one and two, four calls*: a toast in front of another and one that
  waits for its place; a show, an end, a show of the same id and an end again. One
  duration that ends and `Never` are enough for a duration that changes. The theorems
  have no bound.

* *Pages of two or three Presences*: each way in which two can be related (around each
  other, parts of one Overlay, around another Overlay's part, in one flag) and a chain of
  three. *Four commits or removals*: closed, opened in the middle, closed again, and one
  more while effects of the second exit are still to end. The theorems have no bound, on
  the page, its nesting or the commits.

Deadlock is checked for the lock (`Rest` is the only way to stop). The watcher and
the commit stop when their bounds are used up and the phase when `run()` returns, so
`CHECK_DEADLOCK FALSE` there; for the phase `Returns` says that it stops nowhere else.
A server never stops: a caller may always ask again. The toasts stop when the calls are
used up and every clock is done, so `CHECK_DEADLOCK FALSE` there; `ToastsLeave` says
that none is left behind. A page stops when the commits are used up and nothing is left to
end; `ExitsEnd` says what cannot be left.

## 4. Fairness

* `SyncSession!FairSpec`: weak fairness of each process's own steps, which is that
  the operating system schedules it, timers fire, a sync and a wipe end; and of
  the handling of a delivered signal, because a watch that keeps resyncing does
  not postpone it for ever. Launches, resyncs, crashes and user signals are not
  fair. With it `InvocationsSettle` holds, which is `AcquireSettles`
  and `ClientsLeave`.
* `WatchLoop!FairSpec`: weak fairness of the program's own progress, of the timer
  and of the delivery of each event. Failures, edits, pokes, errors and stop are
  not fair.
* `PhaseRendezvous!FairSpec`: weak fairness of the coordinator and of each lane: the
  operating system runs every thread, parses and walks end. Panics are not fair.
* `McpModelState!FairSpec`: weak fairness of each server's work, reads of files and
  children that do not hang. The timers of `waitForReady` are not fair, since
  `AnsweredWithoutTimer` is about what happens without them; neither are failures,
  edits, syncs, reloads and calls.

* `ToastQueue!FairSpec`: weak fairness of React's render, of the end of an exit (Presence
  has a timer for an animation that never reports its end) and of resuming (nobody keeps
  the pointer on a toast for ever); strong fairness of each clock, since a clock that is
  paused keeps what it has run and so expires however often it is paused. Calls of the
  program, changes of the limit and of the host are not fair. That pauses end is so for
  the toaster's default `expand={false}`: with `expand` a stack is always expanded
  (`ToastSystem.tsx:732`), which pauses every toast in it (`ToastSystem.tsx:327-328`).
  Then no clock runs at all, and `ToastsLeave` says nothing; the other properties of the
  module need no fairness.

* `PresenceExit!FairSpec`: weak fairness of what follows a commit (React ends its turn)
  and of the end of each exit's effects: they are finite, that is how the code chooses
  them, and events, the promise of the animation and the timer of five seconds tell of it.
  Commits, removals and the timer of an exit that is held for others are not fair.

## 5. What is proved

All for every value of the constants, by `tlapm`, with no unproved step.

* `FolderLockProofs`: `Exclusion`, the abstract lock has one holder unless someone
  broke it. Inductive invariant: typing and `Exclusive`.
* `SyncSessionProofs`, in five parts.
  * *Any number of processes, with or without `Prompt`*: `TypeCorrect`; `SparesWatch`
    (`SyncSparesWatch`); `KilledByClean`, a watch dies of SIGKILL only if someone runs `ref
    clean`. Invariant: `TypeOK /\ SyncSparesWatch /\ WatchKilledByClean`. All steps but
    `ContendForLock` and `SendKill` are *calm* (nobody starts a chase, nobody is killed), so
    there is one lemma for calm steps and two cases.
  * *The disk*: `LeavesNoLock` (`NoLockLeftBehind`), also for any number and without
    `Prompt`, broken locks included. The property speaks of the end only. The invariant
    `DiskInv` names for each thing on disk who answers for it: for an owner file its writer,
    which is between `readBack` and the end of its release (`OwnerAnswers`), for a temporary
    file who is about to rename it, for a marker its writer or an owner, whose release will
    sweep it; and for an empty directory somebody on the way to fill or to remove it
    (`DirAnswered`). Who is answered for by a process that was cut off is exempt, and the
    property has no such process.
  * *Markers*: `WatchYieldsInACrowd`, for any number: a watch leaves as superseded or
    killed only where somebody cleans, or two more have met beside it, one of which is a
    sync that is no watch and may be chased. The invariant adds what a process leaves with
    (`Words`) and for whom a marker was written (`MarkerOfChase`). With two processes it is
    `WatchYields` (`WatchYieldsOnlyToClean`).
  * *Two processes that are `Prompt`*: `OwnsLock` (`HolderOwnsLock`), `WritersMeetOnInterrupt`
    (`OneWriterButInterrupted`) and `Refinement` (`ImplementsFolderLock`). The hypothesis
    `Two` says that `Procs` has two elements, `a` and `b`, of any kinds; crashes, signals and
    attempts are unbounded. Three do not exclude each other, which is the counterexample of
    `session_trio`, and without `Prompt` two do not. The invariant `Meets(p, q)` says what
    one of two may do while the other is where it is: who removed a directory that is gone
    (`GoneByOne`), that q keeps its hands off what p holds (`KeepsLock`) or is about to
    claim (`ClaimsAlone`), and that an owner that has been read stays the owner until it
    lets go (`Tracks`). Without `Prompt`, `ClaimsAlone` is lost: a newcomer that has waited removes a
    directory that its owner is still filling. The refinement is
    a step simulation, one case per action; most steps are stutters of `FolderLock`, and
    the ones that are not are a start, an acquire, a release, a death, a cover and a broken
    lock.
  * *Attempts*: `Settles` (`ContentionSettles`), for two that are `Prompt` and may try at
    least three times; the code has 25. The invariant `Turns(p, q)` counts: p loses one turn
    to q on its way to the lock, a second to q on its way out, and none to anybody else.

  Assumption: `SessionAssumption`.
* `WatchLoopProofs`: `InvHolds` and from it `TypeCorrect`, `FreshAtRest`,
  `PassesLocked`, `BacklogBounded`, `ScopeFollows`, `StopIsFinal`: all five invariants
  of the run `watch`, and `PassUnderLock`. None is inductive alone. `Control` ties the
  session's phase to the scheduler's flags. `Fresh` says, for each stage of a pass,
  that what the pass will not have read is covered by an undelivered event, by the
  timer or by the queue mark. `Backlog` counts what a pending request can still
  add. `Scope` says how map, roots and the roots still to add fit together while no
  refresh was torn. `Settled` is the case before the first resync. Assumption:
  `WatchAssumption`.
* `StagedCommitProofs`: `InvHolds` and from it `TypeCorrect`, `SyncMirrorsOutput`,
  `FailureCostsNothing`, `OldFilesLast`, `CachedBuildIsWhole`: the four invariants of the
  run `commit` and `FailedKeepsLastGood`, for any tree of paths, any preserved ones, any outputs, and any number of
  syncs and crashes. The first part is about paths (the order of prefixes, the way down
  from a directory to what is in it, where a rename takes a path to), the second about
  what each operation makes of a tree. `MirrorsOutput` speaks of the end of a sync only;
  the invariant says what each stage hands to the next: `Assembled`, `Committed` (a file
  of the output is still to do, or live), `Listed` (a file that is not of the output is
  listed, or below a directory that is still to be listed; and what is listed is no
  directory by the time it is removed, whatever the writer lands), `Mirrored`, and for the
  writer `Roofed` and `Writing`. Assumption: `CommitAssumption`.
* `PhaseRendezvousProofs`: `InvHolds` and from it `TypeCorrect`, `WorksAlone`,
  `MergesWhole`, `WalksResolved`, `CommitsAllOrNothing`, `BlamesFirstDead`: the five
  invariants of the run `phase` and `CoordinatorAlone`, for any number of sources, lanes and panics. The
  invariant has two halves. `Protocol` says, for each place of the coordinator, what
  each lane can be doing and what is on its channels: lanes before `next` have
  reported and wait, those from `next` on still owe the report or are dead, and after
  an abort all are on their way out. `Data` says what the slots hold by then: a file
  is done or is still in some lane's `todo`, a poisoned slot belongs to a dead lane,
  refs and values are complete once their round is over. Neither the abort nor the
  merge could be justified by one half alone. Assumption: `PhaseAssumption`.

* `McpModelProofs`: `InvHolds` and from it `TypeCorrect`, `WaitersAreWoken`,
  `ErrorsAreNews`, `CacheFollows`, and `NeverAges` (`ModelNeverAges`): all four invariants
  of the run `mcp` and its action property, for any number
  of servers, callers, edits and reloads. The invariant adds to them `Marked`: whatever
  a child has read is at least as new as the last sync or its build carries the mark
  `straddles`, from which alone the file's own claim follows. `NeverAges` is about one
  step, and rests on an invariant of its own (`Ordered`): a server that was not reloaded has
  one build at a time and its refresh after it (`OneBuild`), and what it will write, or
  wrote, is no older than what it serves (`Ahead`). Assumption: `McpAssumption`.
* `ToastProofs`: `InvHolds` and from it `TypeCorrect`, `ScreenIsStore` (`ScreenFollows`),
  `ToldOfTheEnd` (`ToldOnce`) and `ClosedByItsOwnClock` (`OwnClock`), for any number of
  ids, calls, durations and limits. `ScreenFollows` is not inductive: that a wrapper shows
  the present generation after a render does not say what it may do before the next one.
  The invariant adds that a wrapper is never ahead of its record (`NotAhead`), that an
  exit that is played is not that of an open toast of the same life (`LeavesOnce`), that a
  clock that has run out is that of a toast that is closed or kept by its callback
  (`ClockRuns`), and that the wrapper of an open toast is up to date unless React has yet
  to render (`UpToDate`). A step renders the store or works on it: lemma `Steps` says of
  the latter what life each record and wrapper may have gone through, so that the
  invariant is proved per kind of life and not per action. `OwnClock` excepts the time
  between a change and React's next render, when a timer that is about to be cleared may
  still close, by its id, what has just been shown. Assumption: `ToastAssumption`.

* `PresenceProofs`: `Typed`, `QuietIsRight` (`QuietPage`), `SlowerPart` (`SlowerPartHolds`) and
  `ParentLast` (`ParentHolds`): every invariant and action property of the run `presence`, for
  any page, however deep its nesting, and any number of commits. The properties speak of the
  end of a turn, or of the step in which someone is told; the invariants say what holds
  between two steps of a turn. `Whole` is the types, and that who is on the page has
  everything around it on the page. `Stages` says where each Presence can be before its
  layout effect (`Awake`) and after it (`Asleep`); `Awaits`, that a parent waits for exactly
  those that have asked to be suspended; `Goodbyes`, who may have been told and return
  after all. For the two action properties `HoldInv` adds that whoever is counted among the
  finished parts of a closed Overlay has played this exit, and that an open Overlay has
  nobody finished (`Counted`), and what a
  `finishExit` that is under way may rely on (`Alone`, `Together`). A render is one lemma
  for all of this (`AfterWhole`, `AfterPage`, `AfterHold`), used by `Render` and `Remove`.
  Assumption: `PresenceAssumption`, of which the proofs use that a page is finite, that no
  flag has the name `NoOverlay`, and that `around` is a strict order.

What is listed under `theorems` so states every invariant and every action property that a
passing run checks, and the refinement.

Only model-checked: all liveness (`InvocationsSettle`, `TriggersServed`, `Returns`,
`AnsweredWithoutTimer`, `ToastsLeave`, `ExitsEnd`), which is beyond this prover; and the
five violations, which are counterexamples.

## 6. What is not modelled, and the plan

In this order:

1. `linkGeneratedPackages` after the commit, the wipe of `ref clean` with its retries and
   `removeDirIfEmpty`, in `StagedCommit`; and what a commit that throws half way leaves.
2. The single-flight guard of `lanes.rs` and the placement of pooled results by
   `resolve_pool.rs`, beside `PhaseRendezvous`; and an abstract `SerialCompile` that
   commits source by source, implemented by the phase.
3. The composition of `WatchLoop` and the tasty writer with `SyncSession`: a pass
   that acquires for itself after SIGINT, two writers of two processes, the wipe of
   `ref clean` and `removeDirIfEmpty` against a newcomer's claim.
4. `OverlayIsolation` (reference counts, the stack, outside presses that are judged a
   click later), over `PresenceExit`; the announcer and the tooltips; for the toasts,
   clocks with an amount of time left.
5. Proofs: what three processes keep of `HolderOwnsLock` while none of them takes a dead
   owner's lock; the abstract `SerialCompile` of item 2 as a refinement.

Not planned: the sequential compiler and the analyses (their subject is data, not
order), text generation, formatting, documentation, icons, build tooling.
`PROJECT.json` lists every component with its reason, and under `hazards` what in
this code is hard to test, with the property that watches it or why there is none.
