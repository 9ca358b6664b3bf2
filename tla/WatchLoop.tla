------------------------------ MODULE WatchLoop ------------------------------
(***************************************************************************)
(* The resident watcher behind `ref sync --watch` (lib/watch/index.ts):    *)
(* one baseline sync, then a resync for every edit that a subscription     *)
(* sees, every SIGUSR2 poke and every watcher error, debounced by a timer  *)
(* and serialized by the scheduler, until stop().                          *)
(*                                                                         *)
(* The project is a set of watch roots.  The configuration on disk names   *)
(* the roots of its include globs; CfgRoot, the directory of the           *)
(* configuration file, is always one of them (it is a dependency file).    *)
(* JavaScript runs one callback at a time, so a step is what happens       *)
(* between two awaits.  What a pass builds is StagedCommit's; here it only *)
(* matters which edits it has read.                                        *)
(***************************************************************************)
EXTENDS Naturals, FiniteSets

CONSTANTS
  Roots, CfgRoot,
  MaxEdits,    \* bound on the edits of the project
  MaxPokes,    \* bound on the SIGUSR2 pokes
  MaxErrors    \* bound on the errors of the watcher backend

ASSUME WatchAssumption ==
  /\ CfgRoot \in Roots
  /\ MaxEdits \in Nat /\ MaxPokes \in Nat /\ MaxErrors \in Nat

VARIABLES
  \* the project and the watcher backend
  conf,      \* the roots the configuration on disk includes
  reconf,    \* the configuration was edited since a pass last loaded it
  stale,     \* roots edited since a pass last read them
  unseen,    \* stale roots whose last edit nobody was there to see
  events,    \* roots with an event the backend has not delivered yet
  \* watchSync
  phase,     \* how far the session is
  locked,    \* the sync session is held
  early,     \* pokeRequested: a poke came during the baseline
  toSub,     \* roots the initial loop has still to subscribe
  \* the trigger scope
  loaded,    \* getLastLoadedUserConfig: the roots of the last loaded config
  match,     \* state.isMatch
  roots,     \* scope.currentRoots
  subs,      \* keys of scope.subscriptions
  toAdd,     \* roots the running refresh has still to subscribe
  leaked,    \* subscriptions that the map has lost
  torn,      \* what a refresh ran into so far: "failed" half way, "met" the
             \* initial subscription loop
  \* the scheduler
  stage,     \* where the running pass is
  syncing, queued, cancelled, timer,
  ok,        \* the last pass succeeded
  cooling,   \* less than ERROR_RESYNC_COOLDOWN_MS since the last error resync
  \* counters
  extra,     \* passes begun since the last trigger
  edits, pokes, errors

projectVars == <<conf, reconf, stale, unseen, events>>
sessionVars == <<phase, locked, early, toSub>>
scopeVars   == <<loaded, match, roots, subs, toAdd, leaked, torn>>
schedVars   == <<stage, syncing, queued, cancelled, timer, ok, extra>>
countVars   == <<cooling, edits, pokes, errors>>
vars == <<projectVars, sessionVars, scopeVars, schedVars, countVars>>

Confs  == {c \cup {CfgRoot} : c \in SUBSET Roots}
Phases == {"start", "locking", "baseline", "subscribing", "live", "stopping",
           "stopped", "failed"}
Stages == {"none", "load", "scan", "publish", "refresh", "report", "done"}

Init ==
  /\ conf \in Confs /\ reconf = TRUE
  /\ stale = Roots /\ unseen = Roots /\ events = {}
  /\ phase = "start" /\ locked = FALSE /\ early = FALSE /\ toSub = {}
  /\ loaded = {} /\ match = {} /\ roots = {} /\ subs = {} /\ toAdd = {}
  /\ leaked = {} /\ torn = {}
  /\ stage = "none" /\ syncing = FALSE /\ queued = FALSE
  /\ cancelled = FALSE /\ timer = FALSE /\ ok = FALSE /\ extra = 0
  /\ cooling = FALSE /\ edits = 0 /\ pokes = 0 /\ errors = 0

-----------------------------------------------------------------------------
(***************************************************************************)
(* createResyncScheduler                                                   *)
(***************************************************************************)

\* Mutant of Request: a request behind a running pass is forgotten.
RequestForgets(n) ==
  \/ /\ cancelled \/ syncing
     /\ extra' = n
     /\ UNCHANGED <<stage, syncing, queued>>
  \/ /\ ~cancelled /\ ~syncing
     /\ syncing' = TRUE /\ stage' = "load" /\ extra' = n + 1
     /\ UNCHANGED queued

\* request(): a pass now, or one more behind the pass in flight, none once
\* cancelled.  n passes have begun since the last trigger.
Request(n) ==
  \/ cancelled /\ extra' = n /\ UNCHANGED <<stage, syncing, queued>>
  \/ /\ ~cancelled /\ syncing
     /\ queued' = TRUE /\ extra' = n
     /\ UNCHANGED <<stage, syncing>>
  \/ /\ ~cancelled /\ ~syncing
     /\ syncing' = TRUE /\ stage' = "load" /\ extra' = n + 1
     /\ UNCHANGED queued

\* schedule(): the trailing edge of RESYNC_SETTLE_MS requests.
TimerFires ==
  /\ timer
  /\ timer' = FALSE
  /\ Request(extra)
  /\ UNCHANGED <<projectVars, sessionVars, scopeVars, countVars, cancelled, ok>>

\* Mutant of FinishPass: the queue mark outlives the pass it asks for.
FinishPassQueued ==
  /\ stage = "done"
  /\ \/ /\ queued /\ ~cancelled
        /\ stage' = "load" /\ extra' = extra + 1
        /\ UNCHANGED <<queued, syncing>>
     \/ /\ ~queued \/ cancelled
        /\ stage' = "none" /\ syncing' = FALSE
        /\ UNCHANGED <<queued, extra>>
  /\ UNCHANGED <<projectVars, sessionVars, scopeVars, countVars, cancelled, timer, ok>>

\* drain(): once more if something was queued meanwhile, else at rest.
FinishPass ==
  /\ stage = "done"
  /\ \/ /\ queued /\ ~cancelled
        /\ queued' = FALSE /\ stage' = "load" /\ extra' = extra + 1
        /\ UNCHANGED syncing
     \/ /\ ~queued \/ cancelled
        /\ stage' = "none" /\ syncing' = FALSE
        /\ UNCHANGED <<queued, extra>>
  /\ UNCHANGED <<projectVars, sessionVars, scopeVars, countVars, cancelled, timer, ok>>

-----------------------------------------------------------------------------
(***************************************************************************)
(* watchSync: configuration, lock, baseline, subscriptions.                *)
(***************************************************************************)

\* The scope comes from this load, made before the lock is waited for.
LoadScope ==
  /\ phase = "start"
  /\ phase' = "locking"
  /\ loaded' = conf /\ match' = conf /\ roots' = conf
  /\ UNCHANGED <<projectVars, schedVars, countVars, locked, early, toSub, subs, toAdd, leaked, torn>>

AcquireSession ==
  /\ phase = "locking"
  /\ phase' = "baseline" /\ locked' = TRUE
  /\ stage' = "load"
  /\ UNCHANGED <<projectVars, scopeVars, countVars, early, toSub, syncing, queued,
                 cancelled, timer, ok, extra>>

\* subscribe() of the next initial root; a failure ends the session (the CLI
\* exits, and a pass that a poke began ends with it).
SubscribeInitial(r) ==
  /\ phase = "subscribing" /\ r \in toSub
  /\ toSub' = toSub \ {r}
  /\ subs' = subs \cup {r}
  /\ leaked' = leaked \cup ({r} \cap subs)
  /\ UNCHANGED <<projectVars, schedVars, countVars, phase, locked, early, loaded,
                 match, roots, toAdd, torn>>

FailSession ==
  /\ phase' = "failed" /\ locked' = FALSE
  /\ stage' = "none" /\ syncing' = FALSE /\ timer' = FALSE
  /\ subs' = {} /\ leaked' = {} /\ events' = {}

SubscribeFails ==
  /\ phase = "subscribing" /\ toSub # {}
  /\ FailSession
  /\ UNCHANGED <<conf, reconf, stale, unseen, early, toSub, loaded, match, roots, toAdd, torn,
                 queued, cancelled, ok, extra, countVars>>

\* Mutant of GoLive: the poke of the baseline is forgotten.
GoLiveDeaf ==
  /\ phase = "subscribing" /\ toSub = {}
  /\ phase' = "live"
  /\ UNCHANGED <<projectVars, scopeVars, countVars, locked, early, toSub, schedVars>>

\* All subscribed: a poke recorded during the baseline is requested now.
GoLive ==
  /\ phase = "subscribing" /\ toSub = {}
  /\ phase' = "live"
  /\ \/ early /\ Request(0)
     \/ ~early /\ UNCHANGED <<stage, syncing, queued, extra>>
  /\ UNCHANGED <<projectVars, scopeVars, countVars, locked, early, toSub,
                 cancelled, timer, ok>>

-----------------------------------------------------------------------------
(***************************************************************************)
(* A pass: stampedSync, then refreshTriggerScope and onResync.             *)
(***************************************************************************)

\* loadUserConfig and the re-entrant acquireSyncSession.
LoadConfig ==
  /\ stage = "load"
  /\ loaded' = conf /\ reconf' = FALSE
  /\ stage' = "scan"
  /\ UNCHANGED <<conf, stale, unseen, events, sessionVars, countVars, match, roots, subs, toAdd, leaked, torn,
                 syncing, queued, cancelled, timer, ok, extra>>

\* What the running pass reads: the sources of the included roots, and the
\* configuration unless it was edited behind the load.
Read == IF reconf THEN loaded \ {CfgRoot} ELSE loaded

\* prepareFragments and the compile, with the configuration loaded before.
ScanSources ==
  /\ stage = "scan"
  /\ stale' = stale \ Read /\ unseen' = unseen \ Read
  /\ stage' = "publish"
  /\ UNCHANGED <<conf, reconf, events, sessionVars, scopeVars, countVars, syncing, queued,
                 cancelled, timer, ok, extra>>

\* The baseline is published: the poke target goes live, the initial roots
\* are subscribed.
PublishBaseline ==
  /\ phase = "baseline" /\ stage = "publish"
  /\ phase' = "subscribing" /\ toSub' = roots
  /\ stage' = "none" /\ ok' = TRUE
  /\ UNCHANGED <<projectVars, scopeVars, countVars, locked, early, syncing, queued,
                 cancelled, timer, extra>>

\* Mutant of PublishResync: the matcher and the roots to add are not derived
\* from the config that the pass loaded.
PublishResyncOnly ==
  /\ phase # "baseline" /\ stage = "publish"
  /\ ok' = TRUE
  /\ stage' = "done"
  /\ UNCHANGED <<projectVars, sessionVars, scopeVars, countVars, syncing, queued,
                 cancelled, timer, extra>>

\* A resync is published.  Unless stop() came meanwhile, the trigger scope is
\* rebuilt from the load this pass made: the matcher at once, then the roots.
PublishResync ==
  /\ phase # "baseline" /\ stage = "publish"
  /\ ok' = TRUE
  /\ \/ /\ phase # "stopping"
        /\ match' = loaded /\ toAdd' = loaded \ roots
        /\ stage' = "refresh"
        /\ torn' = torn \cup (IF phase = "subscribing" THEN {"met"} ELSE {})
     \/ phase = "stopping" /\ stage' = "done" /\ UNCHANGED <<match, toAdd, torn>>
  /\ UNCHANGED <<projectVars, sessionVars, countVars, loaded, roots, subs, leaked,
                 syncing, queued, cancelled, timer, extra>>

\* A pass that throws, anywhere: the baseline ends the session, a resync
\* reports through onError and leaves the scope as it was.
FailPass ==
  /\ stage \in {"load", "scan", "publish"}
  /\ ok' = FALSE
  /\ \/ /\ phase = "baseline"
        /\ FailSession
     \/ /\ phase # "baseline"
        /\ stage' = "done"
        /\ UNCHANGED <<phase, locked, syncing, timer, subs, leaked, events>>
  /\ UNCHANGED <<conf, reconf, stale, unseen, early, toSub, loaded, match, roots, toAdd, torn,
                 queued, cancelled, extra, countVars>>

\* refreshTriggerScope: first the roots that vanished, ...
UnsubscribeRoot(r) ==
  /\ stage = "refresh" /\ r \in (roots \ loaded) \cap subs
  /\ subs' = subs \ {r}
  /\ events' = events \ ({r} \ leaked)
  /\ UNCHANGED <<conf, reconf, stale, unseen, sessionVars, schedVars, countVars, loaded, match,
                 roots, toAdd, leaked, torn>>

\* ... then those that appeared; an entry of the map is overwritten, ...
SubscribeRoot(r) ==
  /\ stage = "refresh" /\ (roots \ loaded) \cap subs = {} /\ r \in toAdd
  /\ toAdd' = toAdd \ {r}
  /\ subs' = subs \cup {r}
  /\ leaked' = leaked \cup ({r} \cap subs)
  /\ UNCHANGED <<projectVars, sessionVars, schedVars, countVars, loaded, match, roots, torn>>

\* ... and currentRoots last, so a failure before leaves the old ones.  The
\* map drops a root before its unsubscribe is awaited: one that fails leaves a
\* live subscription that nothing knows of.
RefreshFails ==
  /\ stage = "refresh"
  /\ \/ \E r \in (roots \ loaded) \cap subs :
          subs' = subs \ {r} /\ leaked' = leaked \cup {r}
     \/ (roots \ loaded) \cap subs = {} /\ toAdd # {} /\ UNCHANGED <<subs, leaked>>
  /\ torn' = torn \cup {"failed"}
  /\ toAdd' = {}
  /\ stage' = "done"
  /\ UNCHANGED <<projectVars, sessionVars, countVars, loaded, match, roots, syncing, queued, cancelled, timer, ok, extra>>

FinishRefresh ==
  /\ stage = "refresh" /\ (roots \ loaded) \cap subs = {} /\ toAdd = {}
  /\ roots' = loaded
  /\ stage' = "report"
  /\ UNCHANGED <<projectVars, sessionVars, countVars, loaded, match, subs, toAdd, leaked,
                 torn, syncing, queued, cancelled, timer, ok, extra>>

\* onResync drains the folded landing and prints, or throws.
Report ==
  /\ stage = "report"
  /\ stage' = "done"
  /\ UNCHANGED <<projectVars, sessionVars, countVars, scopeVars, syncing, queued,
                 cancelled, timer, ok, extra>>

-----------------------------------------------------------------------------
(***************************************************************************)
(* The backend, the poke, stop().                                          *)
(***************************************************************************)

\* Mutant of DeliverEvent: schedule() does not look at cancelled.
DeliverUncancelled(r) ==
  /\ r \in events
  /\ events' = events \ {r}
  /\ \/ /\ r \in match
        /\ timer' = TRUE /\ extra' = 0
        /\ UNCHANGED unseen
     \/ /\ r \notin match
        /\ unseen' = unseen \cup ({r} \cap stale)
        /\ UNCHANGED <<timer, extra>>
  /\ UNCHANGED <<conf, reconf, stale, sessionVars, scopeVars, countVars, stage, syncing, queued,
                 cancelled, ok>>

\* createParcelHandler: a matched event arms the timer, any other is dropped.
DeliverEvent(r) ==
  /\ r \in events
  /\ events' = events \ {r}
  /\ \/ /\ r \in match
        /\ timer' = ~cancelled /\ extra' = 0
        /\ UNCHANGED unseen
     \/ /\ r \notin match
        /\ unseen' = unseen \cup ({r} \cap stale)
        /\ UNCHANGED <<timer, extra>>
  /\ UNCHANGED <<conf, reconf, stale, sessionVars, scopeVars, countVars, stage, syncing, queued,
                 cancelled, ok>>

\* createWatcherErrorHandler: dropped events stay quiet ...
DropEvents ==
  /\ errors < MaxErrors /\ events # {}
  /\ errors' = errors + 1
  /\ unseen' = unseen \cup (events \cap stale)
  /\ events' = {}
  /\ UNCHANGED <<conf, reconf, stale, sessionVars, scopeVars, schedVars, cooling, edits, pokes>>

\* ... any other error resyncs, once per cooldown.
WatcherError ==
  /\ errors < MaxErrors /\ subs # {}
  /\ errors' = errors + 1
  /\ \/ ~cooling /\ cooling' = TRUE /\ Request(0)
     \/ cooling /\ UNCHANGED <<cooling, stage, syncing, queued, extra>>
  /\ UNCHANGED <<projectVars, sessionVars, scopeVars, cancelled, timer, ok, edits, pokes>>

CooldownEnds ==
  /\ cooling
  /\ cooling' = FALSE
  /\ UNCHANGED <<projectVars, sessionVars, scopeVars, schedVars, edits, pokes, errors>>

\* SIGUSR2: recorded during the baseline, requested from then on.
Poke ==
  /\ phase \in {"baseline", "subscribing", "live", "stopping"} /\ pokes < MaxPokes
  /\ pokes' = pokes + 1
  /\ \/ phase = "baseline" /\ early' = TRUE /\ UNCHANGED <<stage, syncing, queued, extra>>
     \/ phase # "baseline" /\ Request(0) /\ UNCHANGED early
  /\ UNCHANGED <<projectVars, scopeVars, phase, locked, toSub, cancelled, timer, ok,
                 cooling, edits, errors>>

\* An edit of a source file, or (at CfgRoot) of the configuration.
Edit(r, c) ==
  /\ phase \notin {"stopped", "failed"} /\ edits < MaxEdits
  /\ edits' = edits + 1
  /\ r # CfgRoot => c = conf
  /\ conf' = c /\ reconf' = (reconf \/ r = CfgRoot)
  /\ stale' = stale \cup {r}
  /\ events' = events \cup ({r} \cap (subs \cup leaked))
  /\ unseen' = IF r \in subs \cup leaked THEN unseen \ {r} ELSE unseen \cup {r}
  /\ UNCHANGED <<sessionVars, scopeVars, schedVars, cooling, pokes, errors>>

\* stop(): the scheduler is cancelled and its timer cleared ...
Stop ==
  /\ phase = "live"
  /\ phase' = "stopping"
  /\ cancelled' = TRUE /\ timer' = FALSE
  /\ UNCHANGED <<projectVars, scopeVars, countVars, locked, early, toSub, stage, syncing,
                 queued, ok, extra>>

\* Mutant of FinishStop: settle() does not await the pass in flight.
FinishStopEarly ==
  /\ phase = "stopping"
  /\ phase' = "stopped" /\ locked' = FALSE
  /\ subs' = {}
  /\ events' = events \cap leaked
  /\ UNCHANGED <<conf, reconf, stale, unseen, early, toSub, schedVars, countVars, loaded, match,
                 roots, toAdd, leaked, torn>>

\* ... the pass in flight drains, every subscription of the map closes, and
\* the session is released.
FinishStop ==
  /\ phase = "stopping" /\ ~syncing
  /\ phase' = "stopped" /\ locked' = FALSE
  /\ subs' = {}
  /\ events' = events \cap leaked
  /\ UNCHANGED <<conf, reconf, stale, unseen, early, toSub, schedVars, countVars, loaded, match,
                 roots, toAdd, leaked, torn>>

\* What the program does by itself.
Progress ==
  \/ LoadScope \/ AcquireSession \/ GoLive
  \/ \E r \in Roots : SubscribeInitial(r) \/ UnsubscribeRoot(r) \/ SubscribeRoot(r)
  \/ LoadConfig \/ ScanSources \/ PublishBaseline \/ PublishResync
  \/ FinishRefresh \/ Report \/ FinishPass
  \/ FinishStop

Backend == TimerFires \/ \E r \in Roots : DeliverEvent(r)

Environment ==
  \/ FailPass \/ RefreshFails \/ SubscribeFails
  \/ DropEvents \/ WatcherError \/ CooldownEnds
  \/ Poke \/ Stop
  \/ \E r \in Roots : \E c \in Confs : Edit(r, c)

Next == Progress \/ Backend \/ Environment

Spec == Init /\ [][Next]_vars

\* The event loop runs: awaits settle, timers fire, events are delivered.
FairSpec == /\ Spec
            /\ WF_vars(Progress)
            /\ WF_vars(TimerFires)
            /\ \A r \in Roots : WF_vars(DeliverEvent(r))

-----------------------------------------------------------------------------
\* The types, and what the scheduler's flags say of each other: a cancelled
\* scheduler has no timer, and nothing is queued behind a pass that is over.
TypeOK ==
  /\ conf \in Confs /\ reconf \in BOOLEAN
  /\ stale \subseteq Roots /\ unseen \subseteq stale /\ events \subseteq Roots
  /\ phase \in Phases /\ locked \in BOOLEAN /\ early \in BOOLEAN /\ toSub \subseteq Roots
  /\ loaded \subseteq Roots /\ match \subseteq Roots /\ roots \subseteq Roots
  /\ subs \subseteq Roots /\ toAdd \subseteq Roots
  /\ leaked \subseteq Roots /\ torn \subseteq {"failed", "met"}
  /\ stage \in Stages /\ syncing \in BOOLEAN /\ queued \in BOOLEAN
  /\ cancelled \in BOOLEAN /\ timer \in BOOLEAN /\ ok \in BOOLEAN /\ extra \in Nat
  /\ (timer => ~cancelled) /\ (queued => syncing \/ cancelled \/ phase = "failed")
  /\ cooling \in BOOLEAN
  /\ edits \in 0 .. MaxEdits /\ pokes \in 0 .. MaxPokes /\ errors \in 0 .. MaxErrors

\* Nothing is going on, and nothing is on its way.
AtRest == phase = "live" /\ ~syncing /\ ~timer /\ events = {}

\* "Resync on every matched add/change/unlink": when the watcher comes to rest
\* after a pass that succeeded, every edit that a subscription saw has been
\* read by a pass that began after it, however the edits, the timer, the pokes
\* and the passes interleaved.
RestIsFresh == AtRest /\ ok => stale \cap match \subseteq unseen

\* The trigger scope is that of the configuration the last pass has loaded:
\* nothing subscribed that is not watched, nothing watched unsubscribed.
InScope == match = loaded /\ roots = loaded /\ subs = loaded

\* "The matcher, dependency files, and parcel subscriptions follow the same
\* loaded config the compile used": at rest after a resync that succeeded,
\* unless some refresh failed half way or met the initial subscriptions.
ScopeFollowsConfig == AtRest /\ ok /\ extra > 0 /\ torn = {} => InScope

\* The same without the exception for a pass that a poke or a watcher error
\* starts while the initial roots are still being subscribed.
ScopeFollowsUnlessFailed == AtRest /\ ok /\ extra > 0 /\ "failed" \notin torn => InScope

\* The session holds the sync lock for its life: every pass runs under it.
PassUnderLock == stage # "none" => locked

\* When stop() resolves the session is over: no pass, no timer that could
\* start one, no lock, and, unless a refresh was torn, no subscription.
StoppedIsQuiet == phase = "stopped" =>
                    /\ stage = "none" /\ ~timer /\ ~locked
                    /\ torn = {} => leaked = {}

\* "A burst behind a slow sync costs one extra pass, never a backlog": however
\* long the burst, at most two passes begin after its last trigger.
NoBacklog == extra <= 2

\* A poke during the baseline queues instead of racing it: a pass follows,
\* unless the session fails or is stopped first.
EarlyPokeServed ==
  (phase = "baseline" /\ early) ~>
    ((phase # "baseline" /\ stage = "load") \/ phase \in {"failed", "stopping"})

\* An edit that is seen is read by a later pass, unless that pass fails, the
\* configuration no longer includes it, or the session ends.
SeenEditsLand ==
  \A r \in Roots :
    (phase = "live" /\ r \in stale \ unseen) ~>
       (r \notin stale \ unseen \/ ~ok \/ r \notin match \/ phase # "live")

\* Whatever asked for a pass, a poke or an edit, gets one (createResyncScheduler).
TriggersServed == EarlyPokeServed /\ SeenEditsLand
=============================================================================
