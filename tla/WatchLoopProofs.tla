--------------------------- MODULE WatchLoopProofs ---------------------------
(***************************************************************************)
(* Facts about the resident watcher for any set of watch roots and any     *)
(* number of edits, pokes and watcher errors.                              *)
(***************************************************************************)
EXTENDS WatchLoop, TLAPS

Before == phase \in {"start", "locking", "baseline"}
Subscribed == phase \in {"subscribing", "live"}

\* Edits somebody saw and no pass has read since.
Owed == stale \ unseen

\* What is owed in S is still to be delivered, or a request will follow.
Covered(S) == timer \/ queued \/ Owed \cap S \subseteq events

\* How the session, the scheduler and the pass in flight go together.
Control ==
  /\ Before => /\ subs = {} /\ leaked = {} /\ events = {} /\ Owed = {}
               /\ ~timer /\ ~syncing /\ ~queued
  /\ phase \in {"start", "locking"} => stage = "none"
  /\ phase = "baseline" => stage \in {"load", "scan", "publish"}
  /\ phase \in {"subscribing", "live", "stopping"} => (syncing <=> stage # "none")
  /\ phase \in {"stopped", "failed"} => stage = "none" /\ ~syncing /\ ~timer /\ subs = {}
  /\ phase = "failed" => events = {}
  /\ cancelled <=> phase \in {"stopping", "stopped"}
  /\ locked <=> phase \in {"baseline", "subscribing", "live", "stopping"}

\* Where a pass is, what it will not have read is covered.
Fresh ==
  Subscribed =>
    /\ stage = "scan" /\ reconf => Covered({CfgRoot})
    /\ stage = "publish" => Covered(loaded)
    /\ stage \in {"refresh", "report", "done"} /\ ok => match = loaded /\ Covered(loaded)
    /\ stage = "none" /\ ok => Covered(match)

\* How many passes a request that is on its way can still add.
Backlog ==
  /\ extra <= 2
  /\ timer \/ queued => extra <= 1
  /\ timer /\ queued => extra = 0

\* As long as no refresh was torn, a root is subscribed once: the map, the roots
\* and what the loops have still to add fit together.
Scope ==
  torn = {} =>
    /\ leaked = {}
    /\ phase = "subscribing" => /\ subs \cup toSub = roots /\ subs \cap toSub = {}
                               /\ stage # "refresh"
    /\ phase \in {"live", "stopping"} /\ stage # "refresh" => subs = roots
    /\ stage = "refresh" => /\ toAdd \cap subs = {} /\ loaded \subseteq subs \cup toAdd
                           /\ subs \subseteq roots \cup loaded /\ toAdd \subseteq loaded
    /\ Subscribed /\ stage \in {"report", "done"} /\ ok => roots = loaded

\* Before the first resync only the configuration of the start counts.
Settled ==
  /\ Before => extra = 0
  /\ Subscribed /\ stage = "none" /\ ok /\ extra > 0
       => match = loaded /\ (torn = {} => roots = loaded)

Inv == TypeOK /\ Control /\ Fresh /\ Backlog /\ Scope /\ Settled

\* A configuration names watch roots only.
LEMMA ConfsAreRoots == Confs \subseteq SUBSET Roots
  BY WatchAssumption DEF WatchAssumption, Confs

\* The invariant holds before the session begins.
LEMMA InvInit == Init => Inv
<1> SUFFICES ASSUME Init PROVE Inv
  OBVIOUS
<1>1. TypeOK
  <2>1. /\ extra \in Nat /\ edits \in 0 .. MaxEdits
        /\ pokes \in 0 .. MaxPokes /\ errors \in 0 .. MaxErrors
    BY WatchAssumption DEF WatchAssumption, Init
  <2>2. conf \in Confs /\ phase \in Phases /\ stage \in Stages
    BY DEF Init, Phases, Stages
  <2>q. QED
    BY <2>1, <2>2 DEF Init, TypeOK
<1>2. Control
  BY DEF Init, Control, Before, Owed
<1>3. Fresh
  BY DEF Init, Fresh, Subscribed
<1>4. Backlog /\ Scope /\ Settled
  BY DEF Init, Backlog, Scope, Settled, Subscribed
<1>q. QED
  BY <1>1, <1>2, <1>3, <1>4 DEF Inv

\* Every action keeps the types; a pass that ends or a stop() that cancels
\* needs Control for what the flags say of each other.
LEMMA TypeStep == TypeOK /\ Control /\ [Next]_vars => TypeOK'
<1> SUFFICES ASSUME TypeOK, Control, [Next]_vars PROVE TypeOK'
  OBVIOUS
<1> USE WatchAssumption, ConfsAreRoots DEF WatchAssumption, TypeOK, Control, Before, Phases, Stages,
        projectVars, sessionVars, scopeVars, schedVars, countVars
<1>1. CASE LoadScope
  BY <1>1 DEF LoadScope
<1>2. CASE AcquireSession
  BY <1>2 DEF AcquireSession
<1>3. CASE GoLive
  <2>1. extra' \in Nat /\ stage' \in Stages
    BY <1>3 DEF GoLive, Request
  <2>2. syncing' \in BOOLEAN /\ queued' \in BOOLEAN
    BY <1>3 DEF GoLive, Request
  <2>3. queued' => syncing' \/ cancelled' \/ phase' = "failed"
    BY <1>3 DEF GoLive, Request
  <2>q. QED
    BY <1>3, <2>1, <2>2, <2>3 DEF GoLive
<1>4. CASE LoadConfig
  BY <1>4 DEF LoadConfig
<1>5. CASE ScanSources
  BY <1>5 DEF ScanSources, Read
<1>6. CASE PublishBaseline
  BY <1>6 DEF PublishBaseline
<1>7. CASE PublishResync
  BY <1>7 DEF PublishResync
<1>8. CASE FinishRefresh
  BY <1>8 DEF FinishRefresh
<1>9. CASE Report
  BY <1>9 DEF Report
<1>10. CASE FinishPass
  <2>1. extra' \in Nat /\ stage' \in Stages
    BY <1>10 DEF FinishPass
  <2>2. syncing' \in BOOLEAN /\ queued' \in BOOLEAN
    BY <1>10 DEF FinishPass
  <2>3. queued' => syncing' \/ cancelled' \/ phase' = "failed"
    BY <1>10 DEF FinishPass
  <2>q. QED
    BY <1>10, <2>1, <2>2, <2>3 DEF FinishPass
<1>11. CASE FinishStop
  BY <1>11 DEF FinishStop
<1>12. CASE TimerFires
  <2>1. extra' \in Nat /\ stage' \in Stages
    BY <1>12 DEF TimerFires, Request
  <2>2. syncing' \in BOOLEAN /\ queued' \in BOOLEAN
    BY <1>12 DEF TimerFires, Request
  <2>3. queued' => syncing' \/ cancelled' \/ phase' = "failed"
    <3>1. (queued' = queued /\ syncing' = syncing) \/ syncing'
      BY <1>12 DEF TimerFires, Request
    <3>2. cancelled' = cancelled /\ phase' = phase
      BY <1>12 DEF TimerFires
    <3>q. QED
      BY <3>1, <3>2
  <2>q. QED
    BY <1>12, <2>1, <2>2, <2>3 DEF TimerFires
<1>13. CASE FailPass
  <2>1. CASE phase = "baseline"
    BY <1>13, <2>1 DEF FailPass, FailSession
  <2>2. CASE phase # "baseline"
    <3>1. ok' = FALSE /\ stage' = "done"
      BY <1>13, <2>2 DEF FailPass
    <3>2. UNCHANGED <<conf, reconf, stale, unseen, events, phase, locked, early, toSub, loaded, match, roots,
                      subs, toAdd, leaked, torn, syncing, queued, cancelled, timer, extra,
                      countVars>>
      BY <1>13, <2>2 DEF FailPass
    <3>q. QED
      BY <3>1, <3>2
  <2>q. QED
    BY <2>1, <2>2
<1>14. CASE RefreshFails
  BY <1>14 DEF RefreshFails
<1>15. CASE SubscribeFails
  BY <1>15 DEF SubscribeFails, FailSession
<1>16. CASE DropEvents
  BY <1>16 DEF DropEvents
<1>17. CASE WatcherError
  <2>1. extra' \in Nat /\ stage' \in Stages
    BY <1>17 DEF WatcherError, Request
  <2>2. syncing' \in BOOLEAN /\ queued' \in BOOLEAN
    BY <1>17 DEF WatcherError, Request
  <2>3. queued' => syncing' \/ cancelled' \/ phase' = "failed"
    <3>1. (queued' = queued /\ syncing' = syncing) \/ syncing'
      BY <1>17 DEF WatcherError, Request
    <3>2. cancelled' = cancelled /\ phase' = phase
      BY <1>17 DEF WatcherError
    <3>q. QED
      BY <3>1, <3>2
  <2>4. cooling' \in BOOLEAN /\ early' \in BOOLEAN
    BY <1>17 DEF WatcherError
  <2>5. UNCHANGED <<projectVars, scopeVars, phase, locked, toSub, cancelled, timer, ok, edits>>
    BY <1>17 DEF WatcherError
  <2>6. errors' \in 0 .. MaxErrors /\ pokes' \in 0 .. MaxPokes
    BY <1>17 DEF WatcherError
  <2>q. QED
    BY <2>1, <2>2, <2>3, <2>4, <2>5, <2>6
<1>18. CASE CooldownEnds
  BY <1>18 DEF CooldownEnds
<1>19. CASE Poke
  <2>1. extra' \in Nat /\ stage' \in Stages
    BY <1>19 DEF Poke, Request
  <2>2. syncing' \in BOOLEAN /\ queued' \in BOOLEAN
    BY <1>19 DEF Poke, Request
  <2>3. queued' => syncing' \/ cancelled' \/ phase' = "failed"
    <3>1. (queued' = queued /\ syncing' = syncing) \/ syncing'
      BY <1>19 DEF Poke, Request
    <3>2. cancelled' = cancelled /\ phase' = phase
      BY <1>19 DEF Poke
    <3>q. QED
      BY <3>1, <3>2
  <2>4. cooling' \in BOOLEAN /\ early' \in BOOLEAN
    BY <1>19 DEF Poke
  <2>5. UNCHANGED <<projectVars, scopeVars, phase, locked, toSub, cancelled, timer, ok, edits>>
    BY <1>19 DEF Poke
  <2>6. errors' \in 0 .. MaxErrors /\ pokes' \in 0 .. MaxPokes
    BY <1>19 DEF Poke
  <2>q. QED
    BY <2>1, <2>2, <2>3, <2>4, <2>5, <2>6
<1>20. CASE Stop
  BY <1>20 DEF Stop
<1>21. ASSUME NEW r \in Roots, SubscribeInitial(r) PROVE TypeOK'
  BY <1>21 DEF SubscribeInitial
<1>22. ASSUME NEW r \in Roots, UnsubscribeRoot(r) PROVE TypeOK'
  BY <1>22 DEF UnsubscribeRoot
<1>23. ASSUME NEW r \in Roots, SubscribeRoot(r) PROVE TypeOK'
  BY <1>23 DEF SubscribeRoot
<1>24. ASSUME NEW r \in Roots, DeliverEvent(r) PROVE TypeOK'
  BY <1>24 DEF DeliverEvent
<1>25. ASSUME NEW r \in Roots, NEW c \in Confs, Edit(r, c) PROVE TypeOK'
  BY <1>25 DEF Edit
<1>26. CASE UNCHANGED vars
  BY <1>26 DEF vars
<1>q. QED
  BY <1>1, <1>2, <1>3, <1>4, <1>5, <1>6, <1>7, <1>8, <1>9, <1>10, <1>11, <1>12, <1>13, <1>14, <1>15, <1>16, <1>17, <1>18, <1>19, <1>20, <1>21, <1>22, <1>23, <1>24, <1>25, <1>26 DEF Next, Progress, Backend, Environment

\* Every action keeps the phase, the stage and the scheduler in step.
LEMMA ControlStep == TypeOK /\ Control /\ [Next]_vars => Control'
<1> SUFFICES ASSUME TypeOK, Control, [Next]_vars PROVE Control'
  OBVIOUS
<1> USE DEF TypeOK, Control, Before, Owed, Stages, Phases,
        projectVars, sessionVars, scopeVars, schedVars, countVars
<1>1. CASE LoadScope
  BY <1>1 DEF LoadScope
<1>2. CASE AcquireSession
  BY <1>2 DEF AcquireSession
<1>3. CASE GoLive
  BY <1>3 DEF GoLive, Request
<1>4. CASE LoadConfig
  BY <1>4 DEF LoadConfig
<1>5. CASE ScanSources
  BY <1>5 DEF ScanSources, Read
<1>6. CASE PublishBaseline
  BY <1>6 DEF PublishBaseline
<1>7. CASE PublishResync
  BY <1>7 DEF PublishResync
<1>8. CASE FinishRefresh
  BY <1>8 DEF FinishRefresh
<1>9. CASE Report
  BY <1>9 DEF Report
<1>10. CASE FinishPass
  BY <1>10 DEF FinishPass
<1>11. CASE FinishStop
  BY <1>11 DEF FinishStop
<1>12. CASE TimerFires
  BY <1>12 DEF TimerFires, Request
<1>13. CASE FailPass
  BY <1>13 DEF FailPass, FailSession
<1>14. CASE RefreshFails
  BY <1>14 DEF RefreshFails
<1>15. CASE SubscribeFails
  BY <1>15 DEF SubscribeFails, FailSession
<1>16. CASE DropEvents
  BY <1>16 DEF DropEvents
<1>17. CASE WatcherError
  BY <1>17 DEF WatcherError, Request
<1>18. CASE CooldownEnds
  BY <1>18 DEF CooldownEnds
<1>19. CASE Poke
  BY <1>19 DEF Poke, Request
<1>20. CASE Stop
  BY <1>20 DEF Stop
<1>21. ASSUME NEW r \in Roots, SubscribeInitial(r) PROVE Control'
  BY <1>21 DEF SubscribeInitial
<1>22. ASSUME NEW r \in Roots, UnsubscribeRoot(r) PROVE Control'
  BY <1>22 DEF UnsubscribeRoot
<1>23. ASSUME NEW r \in Roots, SubscribeRoot(r) PROVE Control'
  BY <1>23 DEF SubscribeRoot
<1>24. ASSUME NEW r \in Roots, DeliverEvent(r) PROVE Control'
  BY <1>24 DEF DeliverEvent
<1>25. ASSUME NEW r \in Roots, NEW c \in Confs, Edit(r, c) PROVE Control'
  BY <1>25 DEF Edit
<1>26. CASE UNCHANGED vars
  BY <1>26 DEF vars
<1>q. QED
  BY <1>1, <1>2, <1>3, <1>4, <1>5, <1>6, <1>7, <1>8, <1>9, <1>10, <1>11, <1>12, <1>13, <1>14, <1>15, <1>16, <1>17, <1>18, <1>19, <1>20, <1>21, <1>22, <1>23, <1>24, <1>25, <1>26 DEF Next, Progress, Backend, Environment

\* Every action leaves each stale root unseen, on its way to the handler, or
\* owed by the timer, the queue or the pass that has not scanned yet.
LEMMA FreshStep == Inv /\ [Next]_vars => Fresh'
<1> SUFFICES ASSUME Inv, [Next]_vars PROVE Fresh'
  OBVIOUS
<1> USE DEF Inv, TypeOK, Control, Fresh, Before, Subscribed, Owed, Covered, Stages,
        projectVars, sessionVars, scopeVars, schedVars, countVars
<1>1. CASE LoadScope
  BY <1>1 DEF LoadScope
<1>2. CASE AcquireSession
  BY <1>2 DEF AcquireSession
<1>3. CASE GoLive
  BY <1>3 DEF GoLive, Request
<1>4. CASE LoadConfig
  BY <1>4 DEF LoadConfig
<1>5. CASE ScanSources
  BY <1>5 DEF ScanSources, Read
<1>6. CASE PublishBaseline
  BY <1>6 DEF PublishBaseline
<1>7. CASE PublishResync
  BY <1>7 DEF PublishResync
<1>8. CASE FinishRefresh
  BY <1>8 DEF FinishRefresh
<1>9. CASE Report
  BY <1>9 DEF Report
<1>10. CASE FinishPass
  BY <1>10 DEF FinishPass
<1>11. CASE FinishStop
  BY <1>11 DEF FinishStop
<1>12. CASE TimerFires
  BY <1>12 DEF TimerFires, Request
<1>13. CASE FailPass
  BY <1>13 DEF FailPass, FailSession
<1>14. CASE RefreshFails
  BY <1>14 DEF RefreshFails
<1>15. CASE SubscribeFails
  BY <1>15 DEF SubscribeFails, FailSession
<1>16. CASE DropEvents
  BY <1>16 DEF DropEvents
<1>17. CASE WatcherError
  BY <1>17 DEF WatcherError, Request
<1>18. CASE CooldownEnds
  BY <1>18 DEF CooldownEnds
<1>19. CASE Poke
  BY <1>19 DEF Poke, Request
<1>20. CASE Stop
  BY <1>20 DEF Stop
<1>21. ASSUME NEW r \in Roots, SubscribeInitial(r) PROVE Fresh'
  BY <1>21 DEF SubscribeInitial
<1>22. ASSUME NEW r \in Roots, UnsubscribeRoot(r) PROVE Fresh'
  BY <1>22 DEF UnsubscribeRoot
<1>23. ASSUME NEW r \in Roots, SubscribeRoot(r) PROVE Fresh'
  BY <1>23 DEF SubscribeRoot
<1>24. ASSUME NEW r \in Roots, DeliverEvent(r) PROVE Fresh'
  BY <1>24 DEF DeliverEvent
<1>25. ASSUME NEW r \in Roots, NEW c \in Confs, Edit(r, c) PROVE Fresh'
  BY <1>25 DEF Edit
<1>26. CASE UNCHANGED vars
  BY <1>26 DEF vars
<1>q. QED
  BY <1>1, <1>2, <1>3, <1>4, <1>5, <1>6, <1>7, <1>8, <1>9, <1>10, <1>11, <1>12, <1>13, <1>14, <1>15, <1>16, <1>17, <1>18, <1>19, <1>20, <1>21, <1>22, <1>23, <1>24, <1>25, <1>26 DEF Next, Progress, Backend, Environment

\* Every action keeps the count of passes since the last trigger in step with
\* what the scheduler may still begin.
LEMMA BacklogStep == Inv /\ [Next]_vars => Backlog'
<1> SUFFICES ASSUME Inv, [Next]_vars PROVE Backlog'
  OBVIOUS
<1> USE DEF Inv, TypeOK, Control, Backlog, Before,
        projectVars, sessionVars, scopeVars, schedVars, countVars
<1>1. CASE LoadScope
  BY <1>1 DEF LoadScope
<1>2. CASE AcquireSession
  BY <1>2 DEF AcquireSession
<1>3. CASE GoLive
  BY <1>3 DEF GoLive, Request
<1>4. CASE LoadConfig
  BY <1>4 DEF LoadConfig
<1>5. CASE ScanSources
  BY <1>5 DEF ScanSources, Read
<1>6. CASE PublishBaseline
  BY <1>6 DEF PublishBaseline
<1>7. CASE PublishResync
  BY <1>7 DEF PublishResync
<1>8. CASE FinishRefresh
  BY <1>8 DEF FinishRefresh
<1>9. CASE Report
  BY <1>9 DEF Report
<1>10. CASE FinishPass
  BY <1>10 DEF FinishPass
<1>11. CASE FinishStop
  BY <1>11 DEF FinishStop
<1>12. CASE TimerFires
  BY <1>12 DEF TimerFires, Request
<1>13. CASE FailPass
  BY <1>13 DEF FailPass, FailSession
<1>14. CASE RefreshFails
  BY <1>14 DEF RefreshFails
<1>15. CASE SubscribeFails
  BY <1>15 DEF SubscribeFails, FailSession
<1>16. CASE DropEvents
  BY <1>16 DEF DropEvents
<1>17. CASE WatcherError
  BY <1>17 DEF WatcherError, Request
<1>18. CASE CooldownEnds
  BY <1>18 DEF CooldownEnds
<1>19. CASE Poke
  BY <1>19 DEF Poke, Request
<1>20. CASE Stop
  BY <1>20 DEF Stop
<1>21. ASSUME NEW r \in Roots, SubscribeInitial(r) PROVE Backlog'
  BY <1>21 DEF SubscribeInitial
<1>22. ASSUME NEW r \in Roots, UnsubscribeRoot(r) PROVE Backlog'
  BY <1>22 DEF UnsubscribeRoot
<1>23. ASSUME NEW r \in Roots, SubscribeRoot(r) PROVE Backlog'
  BY <1>23 DEF SubscribeRoot
<1>24. ASSUME NEW r \in Roots, DeliverEvent(r) PROVE Backlog'
  BY <1>24 DEF DeliverEvent
<1>25. ASSUME NEW r \in Roots, NEW c \in Confs, Edit(r, c) PROVE Backlog'
  BY <1>25 DEF Edit
<1>26. CASE UNCHANGED vars
  BY <1>26 DEF vars
<1>q. QED
  BY <1>1, <1>2, <1>3, <1>4, <1>5, <1>6, <1>7, <1>8, <1>9, <1>10, <1>11, <1>12, <1>13, <1>14, <1>15, <1>16, <1>17, <1>18, <1>19, <1>20, <1>21, <1>22, <1>23, <1>24, <1>25, <1>26 DEF Next, Progress, Backend, Environment

\* Every action keeps subscriptions, roots and the refresh in progress in step.
LEMMA ScopeStep == Inv /\ [Next]_vars => Scope'
<1> SUFFICES ASSUME Inv, [Next]_vars PROVE Scope'
  OBVIOUS
<1> USE DEF Inv, TypeOK, Control, Scope, Before, Subscribed, Stages,
        projectVars, sessionVars, scopeVars, schedVars, countVars
<1>1. CASE LoadScope
  BY <1>1 DEF LoadScope
<1>2. CASE AcquireSession
  BY <1>2 DEF AcquireSession
<1>3. CASE GoLive
  BY <1>3 DEF GoLive, Request
<1>4. CASE LoadConfig
  BY <1>4 DEF LoadConfig
<1>5. CASE ScanSources
  BY <1>5 DEF ScanSources, Read
<1>6. CASE PublishBaseline
  BY <1>6 DEF PublishBaseline
<1>7. CASE PublishResync
  <2>1. CASE phase = "stopping"
    BY <1>7, <2>1 DEF PublishResync
  <2>2. CASE phase = "subscribing"
    <3>1. "met" \in torn'
      BY <1>7, <2>2 DEF PublishResync
    <3>q. QED
      BY <3>1
  <2>3. CASE phase = "live"
    <3>1. torn' = torn
      BY <1>7, <2>3 DEF PublishResync
    <3>2. stage' = "refresh" /\ toAdd' = loaded \ roots
      BY <1>7, <2>3 DEF PublishResync
    <3>3. UNCHANGED <<sessionVars, loaded, roots, subs, leaked>>
      BY <1>7, <2>3 DEF PublishResync
    <3>q. QED
      BY <2>3, <3>1, <3>2, <3>3, <1>7 DEF PublishResync
  <2>4. phase \in {"live", "subscribing", "stopping"}
    BY <1>7 DEF PublishResync, Phases
  <2>q. QED
    BY <2>1, <2>2, <2>3, <2>4
<1>8. CASE FinishRefresh
  BY <1>8 DEF FinishRefresh
<1>9. CASE Report
  BY <1>9 DEF Report
<1>10. CASE FinishPass
  BY <1>10 DEF FinishPass
<1>11. CASE FinishStop
  BY <1>11 DEF FinishStop
<1>12. CASE TimerFires
  BY <1>12 DEF TimerFires, Request
<1>13. CASE FailPass
  BY <1>13 DEF FailPass, FailSession
<1>14. CASE RefreshFails
  BY <1>14 DEF RefreshFails
<1>15. CASE SubscribeFails
  BY <1>15 DEF SubscribeFails, FailSession
<1>16. CASE DropEvents
  BY <1>16 DEF DropEvents
<1>17. CASE WatcherError
  BY <1>17 DEF WatcherError, Request
<1>18. CASE CooldownEnds
  BY <1>18 DEF CooldownEnds
<1>19. CASE Poke
  BY <1>19 DEF Poke, Request
<1>20. CASE Stop
  BY <1>20 DEF Stop
<1>21. ASSUME NEW r \in Roots, SubscribeInitial(r) PROVE Scope'
  BY <1>21 DEF SubscribeInitial
<1>22. ASSUME NEW r \in Roots, UnsubscribeRoot(r) PROVE Scope'
  BY <1>22 DEF UnsubscribeRoot
<1>23. ASSUME NEW r \in Roots, SubscribeRoot(r) PROVE Scope'
  BY <1>23 DEF SubscribeRoot
<1>24. ASSUME NEW r \in Roots, DeliverEvent(r) PROVE Scope'
  BY <1>24 DEF DeliverEvent
<1>25. ASSUME NEW r \in Roots, NEW c \in Confs, Edit(r, c) PROVE Scope'
  BY <1>25 DEF Edit
<1>26. CASE UNCHANGED vars
  BY <1>26 DEF vars
<1>q. QED
  BY <1>1, <1>2, <1>3, <1>4, <1>5, <1>6, <1>7, <1>8, <1>9, <1>10, <1>11, <1>12, <1>13, <1>14, <1>15, <1>16, <1>17, <1>18, <1>19, <1>20, <1>21, <1>22, <1>23, <1>24, <1>25, <1>26 DEF Next, Progress, Backend, Environment

\* Every action keeps what a pass that succeeded has settled.
LEMMA SettledStep == Inv /\ [Next]_vars => Settled'
<1> SUFFICES ASSUME Inv, [Next]_vars PROVE Settled'
  OBVIOUS
<1> USE DEF Inv, TypeOK, Control, Fresh, Scope, Settled, Before, Subscribed, Stages,
        projectVars, sessionVars, scopeVars, schedVars, countVars
<1>1. CASE LoadScope
  BY <1>1 DEF LoadScope
<1>2. CASE AcquireSession
  BY <1>2 DEF AcquireSession
<1>3. CASE GoLive
  BY <1>3 DEF GoLive, Request
<1>4. CASE LoadConfig
  BY <1>4 DEF LoadConfig
<1>5. CASE ScanSources
  BY <1>5 DEF ScanSources, Read
<1>6. CASE PublishBaseline
  BY <1>6 DEF PublishBaseline
<1>7. CASE PublishResync
  BY <1>7 DEF PublishResync
<1>8. CASE FinishRefresh
  BY <1>8 DEF FinishRefresh
<1>9. CASE Report
  BY <1>9 DEF Report
<1>10. CASE FinishPass
  BY <1>10 DEF FinishPass
<1>11. CASE FinishStop
  BY <1>11 DEF FinishStop
<1>12. CASE TimerFires
  BY <1>12 DEF TimerFires, Request
<1>13. CASE FailPass
  BY <1>13 DEF FailPass, FailSession
<1>14. CASE RefreshFails
  BY <1>14 DEF RefreshFails
<1>15. CASE SubscribeFails
  BY <1>15 DEF SubscribeFails, FailSession
<1>16. CASE DropEvents
  BY <1>16 DEF DropEvents
<1>17. CASE WatcherError
  BY <1>17 DEF WatcherError, Request
<1>18. CASE CooldownEnds
  BY <1>18 DEF CooldownEnds
<1>19. CASE Poke
  BY <1>19 DEF Poke, Request
<1>20. CASE Stop
  BY <1>20 DEF Stop
<1>21. ASSUME NEW r \in Roots, SubscribeInitial(r) PROVE Settled'
  BY <1>21 DEF SubscribeInitial
<1>22. ASSUME NEW r \in Roots, UnsubscribeRoot(r) PROVE Settled'
  BY <1>22 DEF UnsubscribeRoot
<1>23. ASSUME NEW r \in Roots, SubscribeRoot(r) PROVE Settled'
  BY <1>23 DEF SubscribeRoot
<1>24. ASSUME NEW r \in Roots, DeliverEvent(r) PROVE Settled'
  BY <1>24 DEF DeliverEvent
<1>25. ASSUME NEW r \in Roots, NEW c \in Confs, Edit(r, c) PROVE Settled'
  BY <1>25 DEF Edit
<1>26. CASE UNCHANGED vars
  BY <1>26 DEF vars
<1>q. QED
  BY <1>1, <1>2, <1>3, <1>4, <1>5, <1>6, <1>7, <1>8, <1>9, <1>10, <1>11, <1>12, <1>13, <1>14, <1>15, <1>16, <1>17, <1>18, <1>19, <1>20, <1>21, <1>22, <1>23, <1>24, <1>25, <1>26 DEF Next, Progress, Backend, Environment

\* The inductive invariant of the watcher: every theorem below follows from it.
THEOREM InvHolds == Spec => []Inv
<1>1. Inv /\ [Next]_vars => Inv'
  BY TypeStep, ControlStep, FreshStep, BacklogStep, ScopeStep, SettledStep DEF Inv
<1>q. QED
  BY <1>1, InvInit, PTL DEF Spec

\* The types hold for ever: the scheduler never has a timer once cancelled, nor
\* a queue mark with no pass to honour it.
THEOREM TypeCorrect == Spec => []TypeOK
<1>1. Inv => TypeOK
  BY DEF Inv
<1>q. QED
  BY <1>1, InvHolds, PTL

\* However edits, timer, pokes, errors, failed passes and refreshes interleave:
\* a watcher at rest after a pass that succeeded owes no edit that a
\* subscription saw (watchSync, createResyncScheduler).
THEOREM FreshAtRest == Spec => []RestIsFresh
<1>1. Inv => RestIsFresh
  BY DEF Inv, TypeOK, Control, Fresh, Subscribed, Covered, Owed, RestIsFresh, AtRest
<1>q. QED
  BY <1>1, InvHolds, PTL

\* No pass runs once the session has released the lock, or before it has it.
THEOREM PassesLocked == Spec => []PassUnderLock
<1>1. Inv => PassUnderLock
  BY DEF Inv, TypeOK, Control, PassUnderLock, Phases
<1>q. QED
  BY <1>1, InvHolds, PTL

\* However long a burst lasts behind a slow pass, at most two passes begin after
\* its last trigger (createResyncScheduler).
THEOREM BacklogBounded == Spec => []NoBacklog
<1>1. Inv => NoBacklog
  BY DEF Inv, Backlog, NoBacklog
<1>q. QED
  BY <1>1, InvHolds, PTL

\* At rest after a resync, matcher, roots and subscriptions are those of the
\* configuration it loaded, unless a refresh was torn (refreshTriggerScope).
THEOREM ScopeFollows == Spec => []ScopeFollowsConfig
<1>1. Inv => ScopeFollowsConfig
  BY DEF Inv, TypeOK, Control, Scope, Settled, Subscribed, ScopeFollowsConfig, AtRest, InScope
<1>q. QED
  BY <1>1, InvHolds, PTL

\* Once stop() has resolved nothing is left: no pass, no timer, no lock, and no
\* subscription unless a refresh was torn.
THEOREM StopIsFinal == Spec => []StoppedIsQuiet
<1>1. Inv => StoppedIsQuiet
  BY DEF Inv, Control, Scope, StoppedIsQuiet
<1>q. QED
  BY <1>1, InvHolds, PTL
=============================================================================
