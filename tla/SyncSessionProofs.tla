-------------------------- MODULE SyncSessionProofs --------------------------
(***************************************************************************)
(* Facts about the session lock for any set of invocations, any leftover   *)
(* on disk and any bounds.                                                 *)
(***************************************************************************)
EXTENDS SyncSession, TLAPS

\* The types hold in every state, and a directory that is gone holds no file.
LEMMA TypeInit == Init => TypeOK
<1> SUFFICES ASSUME Init PROVE TypeOK
  OBVIOUS
<1>1. PICK left \in LeftBehind :
        /\ dir = (left # "nothing")
        /\ owner = CASE left = "deadOwner" -> Ghost
                     [] left = "tornOwner" -> Junk
                     [] OTHER -> None
  BY DEF Init
<1>2. owner \in {Ghost, Junk, None} /\ dir \in BOOLEAN
  BY <1>1
<1>3. ~dir => owner = None
  BY <1>1
<1>4. break \in [Procs -> BOOLEAN]
  <2>1. PICK b \in Breakers : break = [p \in Procs |-> p \in b]
    BY DEF Init
  <2>q. QED
    BY <2>1
<1>q. QED
  BY <1>2, <1>3, <1>4, SessionAssumption
     DEF Init, TypeOK, PCs, Outcomes, DirIsEmpty, SessionAssumption

\* Every action of the module keeps the types.
LEMMA TypeStep == TypeOK /\ [Next]_vars => TypeOK'
<1> SUFFICES ASSUME TypeOK, [Next]_vars PROVE TypeOK'
  OBVIOUS
<1>0. /\ Ghost \notin Procs /\ Junk \notin Procs /\ None \notin Procs
      /\ MaxUserSignals \in Nat /\ MaxCrashes \in Nat /\ MaxAttempts \in Nat \ {0}
      /\ UserSignals \subseteq Signals
  BY SessionAssumption DEF SessionAssumption
<1> USE <1>0
<1> USE DEF TypeOK, DirIsEmpty, PCs, Claiming, Reading, Matrix, Stealing, Releasing, Outcomes, procVars, jobVars, holdVars, diskVars, envVars
<1>1. ASSUME NEW p \in Procs, Launch(p) PROVE TypeOK'
  BY <1>1 DEF Launch, Goto
<1>2. ASSUME NEW p \in Procs, TryClaimDir(p) PROVE TypeOK'
  BY <1>2 DEF TryClaimDir, Goto
<1>3. ASSUME NEW p \in Procs, WriteOwnerTmp(p) PROVE TypeOK'
  BY <1>3 DEF WriteOwnerTmp, Goto, FreshOwnerLost, Retry, Exit
<1>4. ASSUME NEW p \in Procs, RenameOwner(p) PROVE TypeOK'
  BY <1>4 DEF RenameOwner, Goto, FreshOwnerLost, Retry, Exit
<1>5. ASSUME NEW p \in Procs, ReadBack(p) PROVE TypeOK'
  <2>1. CASE owner = p /\ ~taking[p] /\ HoldSession(p)
    BY <1>5, <2>1 DEF ReadBack, Goto, HoldSession
  <2>2. CASE owner = p /\ taking[p] /\ Goto(p, "takeSettle") /\ UNCHANGED <<outcome, tries, busy>>
    BY <1>5, <2>2 DEF ReadBack, Goto
  <2>3. CASE owner # p /\ FreshOwnerLost(p) /\ UNCHANGED busy
    BY <1>5, <2>3 DEF ReadBack, Goto, FreshOwnerLost, Retry, Exit
  <2>q. QED
    BY <1>5, <2>1, <2>2, <2>3 DEF ReadBack
<1>6. ASSUME NEW p \in Procs, ReadOwner(p) PROVE TypeOK'
  BY <1>6 DEF ReadOwner, Goto, Judge
<1>7. ASSUME NEW p \in Procs, SettleMissingOwner(p) PROVE TypeOK'
  BY <1>7 DEF SettleMissingOwner, Goto, Judge
<1>8. ASSUME NEW p \in Procs, ContendForLock(p) PROVE TypeOK'
  BY <1>8 DEF ContendForLock, Goto, Retry, Exit
<1>9. ASSUME NEW p \in Procs, PokeWatchHolder(p) PROVE TypeOK'
  BY <1>9 DEF PokeWatchHolder, Goto, Exit, Alive
<1>10. ASSUME NEW p \in Procs, WriteMarkerTmp(p) PROVE TypeOK'
  BY <1>10 DEF WriteMarkerTmp, Goto, Retry, Exit
<1>11. ASSUME NEW p \in Procs, RenameMarker(p) PROVE TypeOK'
  BY <1>11 DEF RenameMarker, Goto, Retry, Exit
<1>12. ASSUME NEW p \in Procs, SendTerm(p) PROVE TypeOK'
  <2>1. /\ pc' \in [Procs -> PCs] /\ outcome' \in [Procs -> Outcomes]
        /\ UNCHANGED <<seen, tries, taking, jobVars, busy, up, diskVars, envVars>>
    BY <1>12 DEF SendTerm, Goto, Deliver, Receiver
  <2>2. sig' \in [Procs -> SUBSET Signals]
    BY <1>12 DEF SendTerm, Deliver, Signals
  <2>q. QED
    BY <2>1, <2>2
<1>13. ASSUME NEW p \in Procs, AwaitExit(p) PROVE TypeOK'
  BY <1>13 DEF AwaitExit, Goto
<1>14. ASSUME NEW p \in Procs, SendKill(p) PROVE TypeOK'
  BY <1>14 DEF SendKill, Goto, Alive
<1>15. ASSUME NEW p \in Procs, FreshRead(p) PROVE TypeOK'
  BY <1>15 DEF FreshRead, Goto, Retry, Exit
<1>16. ASSUME NEW p \in Procs, TakeUnlink(p) PROVE TypeOK'
  BY <1>16 DEF TakeUnlink, Goto, EmptyDir
<1>17. ASSUME NEW p \in Procs, TakeRmdir(p) PROVE TypeOK'
  BY <1>17 DEF TakeRmdir, Goto, Exit
<1>18. ASSUME NEW p \in Procs, TakeMkdir(p) PROVE TypeOK'
  <2>1. CASE ~dir
    BY <1>18, <2>1 DEF TakeMkdir, Goto
  <2>2. CASE dir
    BY <1>18, <2>2 DEF TakeMkdir, Goto, Retry, Exit
  <2>q. QED
    BY <2>1, <2>2
<1>19. ASSUME NEW p \in Procs, TakeSettled(p) PROVE TypeOK'
  <2>1. CASE HoldSession(p)
    BY <1>19, <2>1 DEF TakeSettled, Goto, HoldSession
  <2>2. CASE Retry(p) /\ UNCHANGED busy
    BY <1>19, <2>2 DEF TakeSettled, Goto, Retry, Exit
  <2>q. QED
    BY <1>19, <2>1, <2>2 DEF TakeSettled
<1>20. ASSUME NEW p \in Procs, FinishWork(p) PROVE TypeOK'
  BY <1>20 DEF FinishWork, Goto, StartRelease
<1>21. ASSUME NEW p \in Procs, FinishBaseline(p) PROVE TypeOK'
  BY <1>21 DEF FinishBaseline, Goto, StartRelease
<1>22. ASSUME NEW p \in Procs, StartResync(p) PROVE TypeOK'
  BY <1>22 DEF StartResync
<1>23. ASSUME NEW p \in Procs, EndResync(p) PROVE TypeOK'
  BY <1>23 DEF EndResync
<1>24. ASSUME NEW p \in Procs, OnSigterm(p) PROVE TypeOK'
  <2>1. sig' \in [Procs -> SUBSET Signals]
    BY <1>24 DEF OnSigterm
  <2>2. /\ pc' \in [Procs -> PCs] /\ outcome' \in [Procs -> Outcomes]
        /\ busy' \in [Procs -> BOOLEAN]
    <3>1. CASE StartRelease(p, "superseded")
      BY <1>24, <3>1 DEF OnSigterm, Goto, StartRelease
    <3>2. CASE up[p] /\ Goto(p, "stop") /\ UNCHANGED <<outcome, busy>>
      BY <3>2 DEF Goto
    <3>3. CASE UNCHANGED <<pc, outcome, busy>>
      BY <3>3
    <3>4. CASE StartRelease(p, "terminated")
      BY <1>24, <3>4 DEF OnSigterm, Goto, StartRelease
    <3>q. QED
      BY <1>24, <3>1, <3>2, <3>3, <3>4 DEF OnSigterm
  <2>q. QED
    BY <1>24, <2>1, <2>2 DEF OnSigterm
<1>25. ASSUME NEW p \in Procs, OnInterrupt(p) PROVE TypeOK'
  BY <1>25 DEF OnInterrupt, Goto, StartRelease
<1>26. ASSUME NEW p \in Procs, StopWatch(p) PROVE TypeOK'
  BY <1>26 DEF StopWatch, Goto, StartRelease
<1>27. ASSUME NEW p \in Procs, DrainWatch(p) PROVE TypeOK'
  BY <1>27 DEF DrainWatch, Goto, Exit
<1>28. ASSUME NEW p \in Procs, ReleaseRead(p) PROVE TypeOK'
  BY <1>28 DEF ReleaseRead, Goto, Exit, AfterRelease
<1>29. ASSUME NEW p \in Procs, ReleaseUnlink(p) PROVE TypeOK'
  BY <1>29 DEF ReleaseUnlink, Goto, EmptyDir
<1>30. ASSUME NEW p \in Procs, ReleaseRmdir(p) PROVE TypeOK'
  BY <1>30 DEF ReleaseRmdir, Goto, Exit, AfterRelease
<1>31. ASSUME NEW p \in Procs, FinishTail(p) PROVE TypeOK'
  BY <1>31 DEF FinishTail, Goto, Exit
<1>32. ASSUME NEW p \in Procs, Detach(p) PROVE TypeOK'
  BY <1>32 DEF Detach, Goto, Exit
<1>33. ASSUME NEW p \in Procs, Crash(p) PROVE TypeOK'
  BY <1>33 DEF Crash, Exit, Goto, Alive
<1>34. ASSUME NEW p \in Procs, NEW s \in UserSignals, UserSignal(p, s) PROVE TypeOK'
  BY <1>34 DEF UserSignal, Deliver
<1>35. CASE UNCHANGED vars
  BY <1>35 DEF vars
<1>q. QED
  BY <1>1, <1>2, <1>3, <1>4, <1>5, <1>6, <1>7, <1>8, <1>9, <1>10, <1>11, <1>12, <1>13, <1>14, <1>15, <1>16, <1>17, <1>18, <1>19, <1>20, <1>21, <1>22, <1>23, <1>24, <1>25, <1>26, <1>27, <1>28, <1>29, <1>30, <1>31, <1>32, <1>33, <1>34, <1>35 DEF Next, Step, Environment, Rest

\* The types hold for ever, and a lock directory that is gone never holds a file.
THEOREM TypeCorrect == Spec => []TypeOK
<1>1. Init => TypeOK
  BY TypeInit
<1>2. TypeOK /\ [Next]_vars => TypeOK'
  BY TypeStep
<1>q. QED
  BY <1>1, <1>2, PTL DEF Spec
-----------------------------------------------------------------------------
(***************************************************************************)
(* Who supersedes whom.  A process on the kill leg of the matrix got there *)
(* from contendForLock, and keeps its target; so every other step is calm. *)
(***************************************************************************)
Chasing(p) == pc[p] \in {"markWrite", "markRename", "term", "wait", "kill"}

Calm == /\ kind' = kind
        /\ \A q \in Procs :
             /\ Chasing(q)' => Chasing(q) /\ seen'[q] = seen[q]
             /\ outcome'[q] = "killed" => outcome[q] = "killed"

\* A watch that SIGKILL ended was met by somebody's `ref clean`.
WatchKilledByClean ==
  \A w \in Procs : kind[w] = "watch" /\ outcome[w] = "killed"
                     => \E p \in Procs : kind[p] = "clean"

Inv == TypeOK /\ SyncSparesWatch /\ WatchKilledByClean

\* A calm step starts no chase and kills nobody, so it disturbs nothing.
LEMMA CalmKeeps == Inv /\ Calm => SyncSparesWatch' /\ WatchKilledByClean'
  BY DEF Inv, Calm, Chasing, SyncSparesWatch, WatchKilledByClean

\* Every step of a process but contendForLock and SIGKILL is calm.
LEMMA CalmSteps ==
  ASSUME TypeOK, NEW p \in Procs, Step(p) \/ Environment(p),
         ~ContendForLock(p), ~SendKill(p)
  PROVE  Calm
<1> USE DEF Calm, Chasing, TypeOK, Claiming, Reading, Matrix, Stealing, Releasing,
            procVars, jobVars, holdVars, diskVars, envVars
<1>1. CASE Launch(p)
  BY <1>1 DEF Launch, Goto
<1>2. CASE TryClaimDir(p)
  BY <1>2 DEF TryClaimDir, Goto
<1>3. CASE WriteOwnerTmp(p)
  BY <1>3 DEF WriteOwnerTmp, Goto, FreshOwnerLost, Retry, Exit
<1>4. CASE RenameOwner(p)
  BY <1>4 DEF RenameOwner, Goto, FreshOwnerLost, Retry, Exit
<1>5. CASE ReadBack(p)
  BY <1>5 DEF ReadBack, Goto, FreshOwnerLost, Retry, Exit, HoldSession
<1>6. CASE ReadOwner(p)
  BY <1>6 DEF ReadOwner, Goto, Judge
<1>7. CASE SettleMissingOwner(p)
  BY <1>7 DEF SettleMissingOwner, Goto, Judge
<1>8. CASE PokeWatchHolder(p)
  BY <1>8 DEF PokeWatchHolder, Goto, Exit, Alive
<1>9. CASE WriteMarkerTmp(p)
  BY <1>9 DEF WriteMarkerTmp, Goto, Retry, Exit
<1>10. CASE RenameMarker(p)
  BY <1>10 DEF RenameMarker, Goto, Retry, Exit
<1>11. CASE SendTerm(p)
  BY <1>11 DEF SendTerm, Goto, Deliver, Receiver
<1>12. CASE AwaitExit(p)
  BY <1>12 DEF AwaitExit, Goto
<1>13. CASE FreshRead(p)
  BY <1>13 DEF FreshRead, Goto, Retry, Exit
<1>14. CASE TakeUnlink(p)
  BY <1>14 DEF TakeUnlink, Goto, EmptyDir
<1>15. CASE TakeRmdir(p)
  BY <1>15 DEF TakeRmdir, Goto, Exit
<1>16. CASE TakeMkdir(p)
  BY <1>16 DEF TakeMkdir, Goto, Retry, Exit
<1>17. CASE TakeSettled(p)
  BY <1>17 DEF TakeSettled, Goto, Retry, Exit, HoldSession
<1>18. CASE FinishWork(p)
  BY <1>18 DEF FinishWork, Goto, StartRelease
<1>19. CASE FinishBaseline(p)
  BY <1>19 DEF FinishBaseline, Goto, StartRelease
<1>20. CASE StartResync(p)
  BY <1>20 DEF StartResync
<1>21. CASE EndResync(p)
  BY <1>21 DEF EndResync
<1>22. CASE OnSigterm(p)
  BY <1>22 DEF OnSigterm, Goto, StartRelease
<1>23. CASE OnInterrupt(p)
  BY <1>23 DEF OnInterrupt, Goto, StartRelease
<1>24. CASE StopWatch(p)
  BY <1>24 DEF StopWatch, Goto, StartRelease
<1>25. CASE DrainWatch(p)
  BY <1>25 DEF DrainWatch, Goto, Exit
<1>26. CASE ReleaseRead(p)
  BY <1>26 DEF ReleaseRead, Goto, Exit, AfterRelease
<1>27. CASE ReleaseUnlink(p)
  BY <1>27 DEF ReleaseUnlink, Goto, EmptyDir
<1>28. CASE ReleaseRmdir(p)
  BY <1>28 DEF ReleaseRmdir, Goto, Exit, AfterRelease
<1>29. CASE FinishTail(p)
  BY <1>29 DEF FinishTail, Goto, Exit
<1>30. CASE Detach(p)
  BY <1>30 DEF Detach, Goto, Exit
<1>31. CASE Crash(p)
  BY <1>31 DEF Crash, Exit, Goto, Alive
<1>32. CASE \E s \in UserSignals : UserSignal(p, s)
  BY <1>32 DEF UserSignal, Deliver
<1>q. QED
  BY <1>1, <1>2, <1>3, <1>4, <1>5, <1>6, <1>7, <1>8, <1>9, <1>10, <1>11, <1>12, <1>13, <1>14, <1>15, <1>16, <1>17, <1>18, <1>19, <1>20, <1>21, <1>22, <1>23, <1>24, <1>25, <1>26, <1>27, <1>28, <1>29, <1>30, <1>31, <1>32 DEF Step, Environment

\* contendForLock chases a watch only for a clean, and SIGKILL ends only what
\* is chased; with CalmSteps this is every step.
LEMMA InvStep == Inv /\ [Next]_vars => Inv'
<1> SUFFICES ASSUME Inv, [Next]_vars PROVE SyncSparesWatch' /\ WatchKilledByClean'
  BY TypeStep DEF Inv
<1> USE DEF Inv
<1>1. ASSUME NEW p \in Procs, ContendForLock(p)
      PROVE  SyncSparesWatch' /\ WatchKilledByClean'
  <2>1. /\ kind' = kind /\ seen' = seen
        /\ \A q \in Procs : outcome'[q] = "killed" => outcome[q] = "killed"
    BY <1>1 DEF ContendForLock, Retry, Exit, Goto, TypeOK, jobVars
  <2>2. \A q \in Procs \ {p} : pc'[q] = pc[q]
    BY <1>1 DEF ContendForLock, Retry, Exit, Goto, TypeOK
  <2>3. Chasing(p)' => \/ seen[p] \in Procs /\ kind[seen[p]] # "watch"
                       \/ kind[p] = "clean"
    BY <1>1 DEF ContendForLock, Retry, Exit, Goto, Alive, Chasing, TypeOK
  <2>q. QED
    BY <2>1, <2>2, <2>3 DEF SyncSparesWatch, WatchKilledByClean, Chasing
<1>2. ASSUME NEW p \in Procs, SendKill(p)
      PROVE  SyncSparesWatch' /\ WatchKilledByClean'
  <2>1. kind' = kind /\ seen' = seen
    BY <1>2 DEF SendKill, jobVars
  <2>2. \A q \in Procs : Chasing(q)' => Chasing(q)
    BY <1>2 DEF SendKill, Goto, TypeOK, Chasing
  <2>3. \A q \in Procs : outcome'[q] = "killed" => outcome[q] = "killed" \/ q = seen[p]
    BY <1>2 DEF SendKill, Goto, TypeOK
  <2>4. kind[seen[p]] # "watch" \/ kind[p] = "clean"
    BY <1>2 DEF SendKill, SyncSparesWatch
  <2>q. QED
    BY <2>1, <2>2, <2>3, <2>4 DEF SyncSparesWatch, WatchKilledByClean, Chasing
<1>3. ASSUME NEW p \in Procs, Step(p) \/ Environment(p), ~ContendForLock(p), ~SendKill(p)
      PROVE  SyncSparesWatch' /\ WatchKilledByClean'
  BY <1>3, CalmSteps, CalmKeeps
<1>4. CASE UNCHANGED vars
  BY <1>4 DEF vars, procVars, jobVars, SyncSparesWatch, WatchKilledByClean
<1>q. QED
  BY <1>1, <1>2, <1>3, <1>4 DEF Next, Rest

\* Nobody chases and nobody is killed before the run begins.
LEMMA InvInit == Init => Inv
  BY TypeInit DEF Init, Inv, SyncSparesWatch, WatchKilledByClean

\* However many invocations meet, a sync never sets out to supersede the watch
\* it has read in the owner file (preemptLiveHolder).
THEOREM SparesWatch == Spec => []SyncSparesWatch
<1>1. Inv => SyncSparesWatch
  BY DEF Inv
<1>q. QED
  BY <1>1, InvInit, InvStep, PTL DEF Spec

\* SIGKILL, the backstop of killHolder, ends a watch only where somebody runs
\* `ref clean`, whatever signals, crashes and retries come in between.
THEOREM KilledByClean == Spec => []WatchKilledByClean
<1>1. Inv => WatchKilledByClean
  BY DEF Inv
<1>q. QED
  BY <1>1, InvInit, InvStep, PTL DEF Spec
-----------------------------------------------------------------------------
(***************************************************************************)
(* The disk, for any number of invocations, broken locks and slow file     *)
(* operations included: who answers for each entry of the lock directory,  *)
(* and for the directory itself.                                           *)
(***************************************************************************)
Abrupt  == {"signalled", "poked", "killed", "crashed"}
Keeping == {"held", "stop", "relRead", "relUnlink"}
Razing  == {"unlink", "rmdir"}
Placing == {"write", "rename", "readBack"}

\* Ended by a signal or a crash: what it had on disk is still there.
Cut(p) == pc[p] = "exit" /\ outcome[p] \in Abrupt

\* The owner on disk has written its file and has yet to remove it.
OwnerAnswers ==
  \A p \in Procs : owner = p => \/ pc[p] \in {"readBack", "takeSettle"} \cup Keeping
                                \/ Cut(p)

\* A temporary file is about to be renamed.
TmpsAnswered ==
  \A t \in tmps : \/ pc[t[1]] = (IF t[2] = "owner" THEN "rename" ELSE "markRename")
                  \/ Cut(t[1])

\* A marker outlives its writer's chase only beside an owner.
MarkerAnswered ==
  \A p \in Procs : marker = p => \/ pc[p] \in {"term", "wait", "kill", "fresh", "unlink"}
                                 \/ owner \in Procs
                                 \/ Cut(p)

\* While the owner file of an earlier run is there, nobody has got beyond it.
LegacyStands ==
  owner \in {Ghost, Junk} =>
    /\ marker = None /\ tmps = {}
    /\ \A p \in Procs : /\ seen[p] \notin Procs
                        /\ \/ pc[p] \in {"idle", "mkdir", "read", "unlink"}
                           \/ pc[p] \in {"contend", "fresh"} /\ seen[p] = owner
                           \/ Cut(p)

\* An empty directory has somebody on the way to fill it or to remove it.
DirAnswered ==
  dir => \/ ~DirIsEmpty
         \/ \E p \in Procs : \/ pc[p] \in {"idle", "mkdir", "read", "settle100",
                                           "settle500", "write", "relRmdir"}
                             \/ pc[p] \in Razing
                             \/ Cut(p)

Answered == OwnerAnswers /\ TmpsAnswered /\ MarkerAnswered /\ LegacyStands /\ DirAnswered

\* What a newcomer has read in the owner file: another process, which has begun,
\* and which is dead by the time forceTake starts from it.
Targets ==
  \A p \in Procs :
    /\ pc[p] = "contend" => seen[p] \in (Procs \ {p}) \cup {Ghost}
    /\ pc[p] \in Matrix \cup {"attached"} => seen[p] \in Procs \ {p}
    /\ pc[p] \in {"poke", "attached"} => kind[seen[p]] = "watch" /\ kind[p] # "clean"
    /\ seen[p] \in Procs => pc[seen[p]] # "idle"
    /\ pc[p] = "fresh" => ~Alive(seen[p]) /\ seen[p] # p

\* Each entry keeps somebody who answers for it: an owner file goes only when the
\* directory is emptied, and what was on its way then finds that it is lost.
LEMMA EntriesStep ==
  ASSUME TypeOK, Answered, Targets, NEW p \in Procs, Step(p) \/ Environment(p)
  PROVE  OwnerAnswers' /\ TmpsAnswered' /\ MarkerAnswered' /\ LegacyStands'
<1> USE SessionAssumption
<1> USE DEF TypeOK, DirIsEmpty, PCs, Claiming, Reading, Matrix, Stealing, Releasing,
      Outcomes, Keeping, Razing, Placing, Abrupt, Cut, Holding, procVars, jobVars,
      holdVars, diskVars, envVars, Goto, Exit, Retry, FreshOwnerLost, StartRelease,
      AfterRelease, EmptyDir, Judge, HoldSession, Alive, Deliver, Receiver, DiesOf,
      SessionAssumption, Answered, OwnerAnswers, TmpsAnswered, MarkerAnswered,
      LegacyStands, Targets
<1>1. CASE Launch(p)
  BY <1>1 DEF Launch
<1>2. CASE TryClaimDir(p)
  BY <1>2 DEF TryClaimDir
<1>3. CASE WriteOwnerTmp(p)
  BY <1>3 DEF WriteOwnerTmp
<1>4. CASE RenameOwner(p)
  BY <1>4 DEF RenameOwner
<1>5. CASE ReadBack(p)
  BY <1>5 DEF ReadBack
<1>6. CASE ReadOwner(p)
  BY <1>6 DEF ReadOwner
<1>7. CASE SettleMissingOwner(p)
  BY <1>7 DEF SettleMissingOwner
<1>8. CASE ContendForLock(p)
  BY <1>8 DEF ContendForLock
<1>9. CASE PokeWatchHolder(p)
  BY <1>9 DEF PokeWatchHolder
<1>10. CASE WriteMarkerTmp(p)
  BY <1>10 DEF WriteMarkerTmp
<1>11. CASE RenameMarker(p)
  BY <1>11 DEF RenameMarker
<1>12. CASE SendTerm(p)
  BY <1>12 DEF SendTerm
<1>13. CASE AwaitExit(p)
  BY <1>13 DEF AwaitExit
<1>14. CASE SendKill(p)
  BY <1>14 DEF SendKill
<1>15. CASE FreshRead(p)
  BY <1>15 DEF FreshRead
<1>16. CASE TakeUnlink(p)
  BY <1>16 DEF TakeUnlink
<1>17. CASE TakeRmdir(p)
  BY <1>17 DEF TakeRmdir
<1>18. CASE TakeMkdir(p)
  BY <1>18 DEF TakeMkdir
<1>19. CASE TakeSettled(p)
  BY <1>19 DEF TakeSettled
<1>20. CASE FinishWork(p)
  BY <1>20 DEF FinishWork
<1>21. CASE FinishBaseline(p)
  BY <1>21 DEF FinishBaseline
<1>22. CASE StartResync(p)
  BY <1>22 DEF StartResync
<1>23. CASE EndResync(p)
  BY <1>23 DEF EndResync
<1>24. CASE OnSigterm(p)
  BY <1>24 DEF OnSigterm
<1>25. CASE OnInterrupt(p)
  BY <1>25 DEF OnInterrupt
<1>26. CASE StopWatch(p)
  BY <1>26 DEF StopWatch
<1>27. CASE DrainWatch(p)
  BY <1>27 DEF DrainWatch
<1>28. CASE ReleaseRead(p)
  BY <1>28 DEF ReleaseRead
<1>29. CASE ReleaseUnlink(p)
  BY <1>29 DEF ReleaseUnlink
<1>30. CASE ReleaseRmdir(p)
  BY <1>30 DEF ReleaseRmdir
<1>31. CASE FinishTail(p)
  BY <1>31 DEF FinishTail
<1>32. CASE Detach(p)
  BY <1>32 DEF Detach
<1>33. CASE Crash(p)
  BY <1>33 DEF Crash
<1>34. CASE \E s \in UserSignals : UserSignal(p, s)
  BY <1>34 DEF UserSignal
<1>q. QED
  BY <1>1, <1>2, <1>3, <1>4, <1>5, <1>6, <1>7, <1>8, <1>9, <1>10, <1>11, <1>12,
     <1>13, <1>14, <1>15, <1>16, <1>17, <1>18, <1>19, <1>20, <1>21, <1>22, <1>23,
     <1>24, <1>25, <1>26, <1>27, <1>28, <1>29, <1>30, <1>31, <1>32, <1>33, <1>34 DEF Step, Environment

\* Who empties the directory removes it next, unless an entry has landed.
LEMMA DirStep ==
  ASSUME TypeOK, DirAnswered, NEW p \in Procs, Step(p) \/ Environment(p)
  PROVE  DirAnswered'
<1> USE SessionAssumption
<1> USE DEF TypeOK, DirIsEmpty, PCs, Claiming, Reading, Matrix, Stealing, Releasing,
      Outcomes, Keeping, Razing, Placing, Abrupt, Cut, Holding, procVars, jobVars,
      holdVars, diskVars, envVars, Goto, Exit, Retry, FreshOwnerLost, StartRelease,
      AfterRelease, EmptyDir, Judge, HoldSession, Alive, Deliver, Receiver, DiesOf,
      SessionAssumption, DirAnswered
<1>1. CASE Launch(p)
  BY <1>1 DEF Launch
<1>2. CASE TryClaimDir(p)
  <2>1. CASE ~dir
    <3>1. pc'[p] = "write"
      BY <1>2, <2>1 DEF TryClaimDir
    <3>q. QED
      BY <3>1
  <2>2. CASE dir
    <3>1. pc'[p] = "read"
      BY <1>2, <2>2 DEF TryClaimDir
    <3>q. QED
      BY <3>1
  <2>q. QED
    BY <2>1, <2>2
<1>3. CASE WriteOwnerTmp(p)
  BY <1>3 DEF WriteOwnerTmp
<1>4. CASE RenameOwner(p)
  BY <1>4 DEF RenameOwner
<1>5. CASE ReadBack(p)
  BY <1>5 DEF ReadBack
<1>6. CASE ReadOwner(p)
  BY <1>6 DEF ReadOwner
<1>7. CASE SettleMissingOwner(p)
  BY <1>7 DEF SettleMissingOwner
<1>8. CASE ContendForLock(p)
  BY <1>8 DEF ContendForLock
<1>9. CASE PokeWatchHolder(p)
  BY <1>9 DEF PokeWatchHolder
<1>10. CASE WriteMarkerTmp(p)
  BY <1>10 DEF WriteMarkerTmp
<1>11. CASE RenameMarker(p)
  BY <1>11 DEF RenameMarker
<1>12. CASE SendTerm(p)
  BY <1>12 DEF SendTerm
<1>13. CASE AwaitExit(p)
  BY <1>13 DEF AwaitExit
<1>14. CASE SendKill(p)
  BY <1>14 DEF SendKill
<1>15. CASE FreshRead(p)
  BY <1>15 DEF FreshRead
<1>16. CASE TakeUnlink(p)
  BY <1>16 DEF TakeUnlink
<1>17. CASE TakeRmdir(p)
  BY <1>17 DEF TakeRmdir
<1>18. CASE TakeMkdir(p)
  <2>1. CASE ~dir
    <3>1. pc'[p] = "write"
      BY <1>18, <2>1 DEF TakeMkdir
    <3>q. QED
      BY <3>1
  <2>2. CASE dir
    BY <1>18, <2>2 DEF TakeMkdir
  <2>q. QED
    BY <2>1, <2>2
<1>19. CASE TakeSettled(p)
  BY <1>19 DEF TakeSettled
<1>20. CASE FinishWork(p)
  BY <1>20 DEF FinishWork
<1>21. CASE FinishBaseline(p)
  BY <1>21 DEF FinishBaseline
<1>22. CASE StartResync(p)
  BY <1>22 DEF StartResync
<1>23. CASE EndResync(p)
  BY <1>23 DEF EndResync
<1>24. CASE OnSigterm(p)
  BY <1>24 DEF OnSigterm
<1>25. CASE OnInterrupt(p)
  BY <1>25 DEF OnInterrupt
<1>26. CASE StopWatch(p)
  BY <1>26 DEF StopWatch
<1>27. CASE DrainWatch(p)
  BY <1>27 DEF DrainWatch
<1>28. CASE ReleaseRead(p)
  BY <1>28 DEF ReleaseRead
<1>29. CASE ReleaseUnlink(p)
  BY <1>29 DEF ReleaseUnlink
<1>30. CASE ReleaseRmdir(p)
  BY <1>30 DEF ReleaseRmdir
<1>31. CASE FinishTail(p)
  BY <1>31 DEF FinishTail
<1>32. CASE Detach(p)
  BY <1>32 DEF Detach
<1>33. CASE Crash(p)
  BY <1>33 DEF Crash
<1>34. CASE \E s \in UserSignals : UserSignal(p, s)
  BY <1>34 DEF UserSignal
<1>q. QED
  BY <1>1, <1>2, <1>3, <1>4, <1>5, <1>6, <1>7, <1>8, <1>9, <1>10, <1>11, <1>12,
     <1>13, <1>14, <1>15, <1>16, <1>17, <1>18, <1>19, <1>20, <1>21, <1>22, <1>23,
     <1>24, <1>25, <1>26, <1>27, <1>28, <1>29, <1>30, <1>31, <1>32, <1>33, <1>34 DEF Step, Environment

\* A target is read from the owner file, where no process finds itself again.
LEMMA TargetStep ==
  ASSUME TypeOK, Targets, OwnerAnswers, NEW p \in Procs, Step(p) \/ Environment(p)
  PROVE  Targets'
<1> USE SessionAssumption
<1> USE DEF TypeOK, DirIsEmpty, PCs, Claiming, Reading, Matrix, Stealing, Releasing,
      Outcomes, Keeping, Razing, Placing, Abrupt, Cut, Holding, procVars, jobVars,
      holdVars, diskVars, envVars, Goto, Exit, Retry, FreshOwnerLost, StartRelease,
      AfterRelease, EmptyDir, Judge, HoldSession, Alive, Deliver, Receiver, DiesOf,
      SessionAssumption, Targets, OwnerAnswers
<1>1. CASE Launch(p)
  BY <1>1 DEF Launch
<1>2. CASE TryClaimDir(p)
  BY <1>2 DEF TryClaimDir
<1>3. CASE WriteOwnerTmp(p)
  BY <1>3 DEF WriteOwnerTmp
<1>4. CASE RenameOwner(p)
  BY <1>4 DEF RenameOwner
<1>5. CASE ReadBack(p)
  BY <1>5 DEF ReadBack
<1>6. CASE ReadOwner(p)
  BY <1>6 DEF ReadOwner
<1>7. CASE SettleMissingOwner(p)
  BY <1>7 DEF SettleMissingOwner
<1>8. CASE ContendForLock(p)
  BY <1>8 DEF ContendForLock
<1>9. CASE PokeWatchHolder(p)
  BY <1>9 DEF PokeWatchHolder
<1>10. CASE WriteMarkerTmp(p)
  BY <1>10 DEF WriteMarkerTmp
<1>11. CASE RenameMarker(p)
  BY <1>11 DEF RenameMarker
<1>12. CASE SendTerm(p)
  BY <1>12 DEF SendTerm
<1>13. CASE AwaitExit(p)
  BY <1>13 DEF AwaitExit
<1>14. CASE SendKill(p)
  BY <1>14 DEF SendKill
<1>15. CASE FreshRead(p)
  BY <1>15 DEF FreshRead
<1>16. CASE TakeUnlink(p)
  BY <1>16 DEF TakeUnlink
<1>17. CASE TakeRmdir(p)
  BY <1>17 DEF TakeRmdir
<1>18. CASE TakeMkdir(p)
  BY <1>18 DEF TakeMkdir
<1>19. CASE TakeSettled(p)
  BY <1>19 DEF TakeSettled
<1>20. CASE FinishWork(p)
  BY <1>20 DEF FinishWork
<1>21. CASE FinishBaseline(p)
  BY <1>21 DEF FinishBaseline
<1>22. CASE StartResync(p)
  BY <1>22 DEF StartResync
<1>23. CASE EndResync(p)
  BY <1>23 DEF EndResync
<1>24. CASE OnSigterm(p)
  BY <1>24 DEF OnSigterm
<1>25. CASE OnInterrupt(p)
  BY <1>25 DEF OnInterrupt
<1>26. CASE StopWatch(p)
  BY <1>26 DEF StopWatch
<1>27. CASE DrainWatch(p)
  BY <1>27 DEF DrainWatch
<1>28. CASE ReleaseRead(p)
  BY <1>28 DEF ReleaseRead
<1>29. CASE ReleaseUnlink(p)
  BY <1>29 DEF ReleaseUnlink
<1>30. CASE ReleaseRmdir(p)
  BY <1>30 DEF ReleaseRmdir
<1>31. CASE FinishTail(p)
  BY <1>31 DEF FinishTail
<1>32. CASE Detach(p)
  BY <1>32 DEF Detach
<1>33. CASE Crash(p)
  BY <1>33 DEF Crash
<1>34. CASE \E s \in UserSignals : UserSignal(p, s)
  BY <1>34 DEF UserSignal
<1>q. QED
  BY <1>1, <1>2, <1>3, <1>4, <1>5, <1>6, <1>7, <1>8, <1>9, <1>10, <1>11, <1>12,
     <1>13, <1>14, <1>15, <1>16, <1>17, <1>18, <1>19, <1>20, <1>21, <1>22, <1>23,
     <1>24, <1>25, <1>26, <1>27, <1>28, <1>29, <1>30, <1>31, <1>32, <1>33, <1>34 DEF Step, Environment

DiskInv == TypeOK /\ Targets /\ Answered

LEMMA DiskInit == Init => DiskInv
<1> SUFFICES ASSUME Init PROVE Targets /\ Answered
  BY TypeInit DEF DiskInv
<1>1. PICK left \in LeftBehind :
        /\ dir = (left # "nothing")
        /\ owner = CASE left = "deadOwner" -> Ghost
                     [] left = "tornOwner" -> Junk
                     [] OTHER -> None
  BY DEF Init
<1>2. owner \notin Procs /\ marker = None /\ tmps = {}
  BY <1>1, SessionAssumption DEF Init, SessionAssumption
<1>3. \A p \in Procs : pc[p] = "idle" /\ seen[p] = None
  BY DEF Init
<1>4. Targets
  BY <1>3, SessionAssumption DEF Targets, Matrix, SessionAssumption
<1>5. OwnerAnswers /\ TmpsAnswered /\ MarkerAnswered /\ LegacyStands
  BY <1>2, <1>3, SessionAssumption
     DEF OwnerAnswers, TmpsAnswered, MarkerAnswered, LegacyStands, SessionAssumption
<1>6. DirAnswered
  BY <1>3, SessionAssumption DEF DirAnswered, SessionAssumption
<1>q. QED
  BY <1>4, <1>5, <1>6 DEF Answered

LEMMA DiskStep == DiskInv /\ [Next]_vars => DiskInv'
<1> SUFFICES ASSUME DiskInv, [Next]_vars PROVE Targets' /\ Answered'
  BY TypeStep DEF DiskInv
<1> USE DEF DiskInv, Answered
<1>1. ASSUME NEW p \in Procs, Step(p) \/ Environment(p) PROVE Targets' /\ Answered'
  BY <1>1, EntriesStep, DirStep, TargetStep
<1>2. CASE UNCHANGED vars
  BY <1>2 DEF vars, procVars, jobVars, holdVars, diskVars, Targets, OwnerAnswers, TmpsAnswered,
     MarkerAnswered, LegacyStands, DirAnswered, Cut, DirIsEmpty, Alive
<1>q. QED
  BY <1>1, <1>2 DEF Next, Rest

\* However many invocations meet, break the lock or land their files late: when all
\* have left, none of them by force, no lock directory is left behind.
THEOREM LeavesNoLock == Spec => []NoLockLeftBehind
<1>1. DiskInv => NoLockLeftBehind
  <2> SUFFICES ASSUME DiskInv, \A p \in Procs : pc[p] = "exit" /\ outcome[p] \notin Abrupt, dir
               PROVE  FALSE
    BY DEF NoLockLeftBehind, Abrupt
  <2> USE DEF DiskInv, Answered
  <2>1. \A p \in Procs : ~Cut(p)
    BY DEF Cut
  <2>2. owner \notin Procs
    BY <2>1 DEF OwnerAnswers, Keeping
  <2>3. owner = None
    BY <2>1, <2>2, SessionAssumption DEF LegacyStands, TypeOK, SessionAssumption
  <2>4. marker = None
    BY <2>1, <2>2 DEF MarkerAnswered, TypeOK
  <2>5. tmps = {}
    <3>1. ASSUME NEW t \in tmps PROVE FALSE
      <4>1. t[1] \in Procs
        BY DEF TypeOK
      <4>q. QED
        BY <2>1, <4>1 DEF TmpsAnswered
    <3>q. QED
      BY <3>1
  <2>q. QED
    BY <2>1, <2>3, <2>4, <2>5 DEF DirAnswered, DirIsEmpty, Razing
<1>q. QED
  BY <1>1, DiskInit, DiskStep, PTL DEF Spec
-----------------------------------------------------------------------------
(***************************************************************************)
(* What processes leave with, and whom a marker was meant for.             *)
(***************************************************************************)

\* The word a process leaves with is given when its release starts, or when it
\* ends; whoever writes without the lock has been interrupted.  Who joins a watch is one.
Words ==
  \A p \in Procs :
    /\ outcome[p] # "none" => pc[p] \in Releasing \cup {"drain", "tail", "exit"}
    /\ outcome[p] = "covered" => pc[p] = "exit"
    /\ busy[p] => \/ Holding(p) \/ pc[p] \in {"drain", "exit"}
                  \/ pc[p] \in Releasing /\ outcome[p] = "drain"
    /\ pc[p] = "drain" \/ (pc[p] \in Releasing /\ outcome[p] = "drain") => up[p]
    /\ pc[p] = "attached" => kind[p] = "watch"

\* A marker is that of a clean, or of one who chased a sync that is no watch.
MarkerOfChase ==
  \A p \in Procs : marker = p => \/ kind[p] = "clean"
                                 \/ \E t \in Procs \ {p} : kind[t] # "watch"

\* A watch leaves as superseded or killed only if somebody cleans, or if a third
\* process was there for the marker's writer to chase.
YieldsInACrowd ==
  \A w \in Procs : kind[w] = "watch" /\ outcome[w] \in {"superseded", "killed"} =>
    \/ \E p \in Procs : kind[p] = "clean"
    \/ \E p \in Procs \ {w}, t \in Procs \ {w} : p # t /\ kind[t] # "watch"

LEMMA WordsStep ==
  ASSUME TypeOK, Targets, SyncSparesWatch, Words, NEW p \in Procs, Step(p) \/ Environment(p)
  PROVE  Words'
<1>0. Targets /\ SyncSparesWatch /\ Kinds \subseteq AllKinds
  BY SessionAssumption DEF SessionAssumption
<1> USE SessionAssumption
<1> USE DEF TypeOK, DirIsEmpty, PCs, Claiming, Reading, Matrix, Stealing, Releasing,
      Outcomes, Keeping, Razing, Placing, Abrupt, Cut, Holding, procVars, jobVars,
      holdVars, diskVars, envVars, Goto, Exit, Retry, FreshOwnerLost, StartRelease,
      AfterRelease, EmptyDir, Judge, HoldSession, Alive, Deliver, Receiver, DiesOf,
      SessionAssumption, Words
<1>1. CASE Launch(p)
  BY <1>1 DEF Launch
<1>2. CASE TryClaimDir(p)
  BY <1>2 DEF TryClaimDir
<1>3. CASE WriteOwnerTmp(p)
  BY <1>3 DEF WriteOwnerTmp
<1>4. CASE RenameOwner(p)
  BY <1>4 DEF RenameOwner
<1>5. CASE ReadBack(p)
  BY <1>5 DEF ReadBack
<1>6. CASE ReadOwner(p)
  BY <1>6 DEF ReadOwner
<1>7. CASE SettleMissingOwner(p)
  BY <1>7 DEF SettleMissingOwner
<1>8. CASE ContendForLock(p)
  <2>1. UNCHANGED <<kind, busy, up, sig>>
    BY <1>8 DEF ContendForLock
  <2>2. \A q \in Procs \ {p} : pc'[q] = pc[q] /\ outcome'[q] = outcome[q]
    BY <1>8 DEF ContendForLock
  <2>3. \/ pc'[p] \in {"mkdir", "fresh", "markWrite", "poke"} /\ outcome' = outcome
        \/ pc'[p] = "attached" /\ outcome' = outcome /\ kind[p] = "watch"
        \/ pc'[p] = "exit" /\ outcome'[p] = "unsettled"
    BY <1>8, <1>0 DEF ContendForLock, AllKinds
  <2>4. pc[p] = "contend"
    BY <1>8 DEF ContendForLock
  <2>q. QED
    BY <2>1, <2>2, <2>3, <2>4
<1>9. CASE PokeWatchHolder(p)
  BY <1>9 DEF PokeWatchHolder
<1>10. CASE WriteMarkerTmp(p)
  BY <1>10 DEF WriteMarkerTmp
<1>11. CASE RenameMarker(p)
  BY <1>11 DEF RenameMarker
<1>12. CASE SendTerm(p)
  <2>1. UNCHANGED <<kind, busy, up>> /\ pc[p] = "term" /\ outcome[p] = "none"
    BY <1>12 DEF SendTerm
  <2>2. CASE ~Alive(seen[p])
    BY <1>12, <2>2 DEF SendTerm
  <2>3. CASE Alive(seen[p])
    <3>1. PICK t : t = Receiver(seen[p])
      OBVIOUS
    <3>2. t # p
      BY <2>1, <2>3, <3>1, <1>0 DEF Targets, SyncSparesWatch
    <3>3. pc'[p] = "wait" /\ outcome'[p] = "none"
      BY <1>12, <2>1, <2>3, <3>1, <3>2 DEF SendTerm
    <3>4. ASSUME NEW q \in Procs PROVE \/ q = p
                                       \/ pc'[q] = pc[q] /\ outcome'[q] = outcome[q]
                                       \/ pc'[q] = "exit" /\ outcome'[q] = "signalled"
      BY <1>12, <2>3, <3>1 DEF SendTerm
    <3>q. QED
      BY <2>1, <3>3, <3>4
  <2>q. QED
    BY <2>2, <2>3
<1>13. CASE AwaitExit(p)
  BY <1>13 DEF AwaitExit
<1>14. CASE SendKill(p)
  BY <1>14 DEF SendKill
<1>15. CASE FreshRead(p)
  BY <1>15 DEF FreshRead
<1>16. CASE TakeUnlink(p)
  BY <1>16 DEF TakeUnlink
<1>17. CASE TakeRmdir(p)
  BY <1>17 DEF TakeRmdir
<1>18. CASE TakeMkdir(p)
  BY <1>18 DEF TakeMkdir
<1>19. CASE TakeSettled(p)
  BY <1>19 DEF TakeSettled
<1>20. CASE FinishWork(p)
  <2>0. up' = up /\ kind' = kind
    BY <1>20 DEF FinishWork
  <2>1. \A q \in Procs \ {p} : pc'[q] = pc[q] /\ outcome'[q] = outcome[q] /\ busy'[q] = busy[q]
    BY <1>20 DEF FinishWork
  <2>2. pc'[p] = "relRead"
    BY <1>20 DEF FinishWork
  <2>3. outcome'[p] = "done"
    BY <1>20 DEF FinishWork
  <2>4. busy'[p] = FALSE
    <3>1. busy' = [busy EXCEPT ![p] = busy[p] /\ "done" = "drain"]
      BY <1>20 DEF FinishWork
    <3>2. busy' = [busy EXCEPT ![p] = FALSE]
      BY <3>1
    <3>q. QED
      BY <3>2
  <2>q. QED
    BY <2>0, <2>1, <2>2, <2>3, <2>4
<1>21. CASE FinishBaseline(p)
  BY <1>21 DEF FinishBaseline
<1>22. CASE StartResync(p)
  BY <1>22 DEF StartResync
<1>23. CASE EndResync(p)
  BY <1>23 DEF EndResync
<1>24. CASE OnSigterm(p)
  <2>0. up' = up /\ kind' = kind
    BY <1>24 DEF OnSigterm
  <2>1. CASE StartRelease(p, "superseded") \/ StartRelease(p, "terminated")
    <3>1. \A q \in Procs \ {p} : pc'[q] = pc[q] /\ outcome'[q] = outcome[q] /\ busy'[q] = busy[q]
      BY <2>1
    <3>2. pc'[p] = "relRead" /\ outcome'[p] \in {"superseded", "terminated"}
      BY <2>1
    <3>3. busy' = [busy EXCEPT ![p] = FALSE]
      <4>1. \/ busy' = [busy EXCEPT ![p] = busy[p] /\ "superseded" = "drain"]
            \/ busy' = [busy EXCEPT ![p] = busy[p] /\ "terminated" = "drain"]
        BY <2>1
      <4>q. QED
        BY <4>1
    <3>4. busy'[p] = FALSE
      BY <3>3
    <3>q. QED
      BY <2>0, <3>1, <3>2, <3>4
  <2>2. CASE pc' \in {pc, [pc EXCEPT ![p] = "stop"]} /\ UNCHANGED <<outcome, busy>>
    <3>1. pc[p] \in {"held", "stop"}
      BY <1>24 DEF OnSigterm
    <3>2. \/ pc' = pc
          \/ pc'[p] = "stop" /\ \A q \in Procs \ {p} : pc'[q] = pc[q]
      BY <2>2
    <3>q. QED
      BY <2>0, <2>2, <3>1, <3>2
  <2>q. QED
    BY <1>24, <2>1, <2>2 DEF OnSigterm
<1>25. CASE OnInterrupt(p)
  <2>0. p \in Procs /\ pc[p] \in {"held", "stop"} /\ kind' = kind /\ up' = up
    BY <1>25 DEF OnInterrupt
  <2>1. CASE StartRelease(p, "interrupted")
    <3>1. \A q \in Procs \ {p} : pc'[q] = pc[q] /\ outcome'[q] = outcome[q] /\ busy'[q] = busy[q]
      BY <2>1
    <3>2. pc'[p] = "relRead" /\ outcome'[p] = "interrupted"
      BY <2>0, <2>1
    <3>3. busy' = [busy EXCEPT ![p] = FALSE]
      <4>1. busy' = [busy EXCEPT ![p] = busy[p] /\ "interrupted" = "drain"]
        BY <2>1
      <4>q. QED
        BY <4>1
    <3>4. busy'[p] = FALSE
      BY <2>0, <3>3
    <3>q. QED
      BY <2>0, <3>1, <3>2, <3>4
  <2>2. CASE StartRelease(p, "drain") /\ up[p]
    <3>1. \A q \in Procs \ {p} : pc'[q] = pc[q] /\ outcome'[q] = outcome[q] /\ busy'[q] = busy[q]
      BY <2>2
    <3>2. pc'[p] = "relRead" /\ outcome'[p] = "drain"
      BY <2>0, <2>2
    <3>q. QED
      BY <2>0, <2>2, <3>1, <3>2
  <2>q. QED
    BY <1>25, <2>1, <2>2 DEF OnInterrupt
<1>26. CASE StopWatch(p)
  BY <1>26 DEF StopWatch
<1>27. CASE DrainWatch(p)
  BY <1>27 DEF DrainWatch
<1>28. CASE ReleaseRead(p)
  <2>1. outcome' = outcome /\ busy' = busy /\ up' = up /\ kind' = kind
    BY <1>28 DEF ReleaseRead
  <2>2. \A q \in Procs \ {p} : pc'[q] = pc[q]
    BY <1>28 DEF ReleaseRead
  <2>3. pc[p] \in Releasing /\ (busy[p] => outcome[p] = "drain")
    BY <1>28 DEF ReleaseRead, Words
  <2>4. \/ pc'[p] \in Releasing
        \/ pc'[p] = "drain" /\ outcome[p] = "drain"
        \/ pc'[p] \in {"tail", "exit"} /\ outcome[p] # "drain"
    BY <1>28 DEF ReleaseRead
  <2>q. QED
    BY <2>1, <2>2, <2>3, <2>4
<1>29. CASE ReleaseUnlink(p)
  BY <1>29 DEF ReleaseUnlink
<1>30. CASE ReleaseRmdir(p)
  <2>1. outcome' = outcome /\ busy' = busy /\ up' = up /\ kind' = kind
    BY <1>30 DEF ReleaseRmdir
  <2>2. \A q \in Procs \ {p} : pc'[q] = pc[q]
    BY <1>30 DEF ReleaseRmdir
  <2>3. pc[p] \in Releasing /\ (busy[p] => outcome[p] = "drain")
    BY <1>30 DEF ReleaseRmdir, Words
  <2>4. \/ pc'[p] \in Releasing
        \/ pc'[p] = "drain" /\ outcome[p] = "drain"
        \/ pc'[p] \in {"tail", "exit"} /\ outcome[p] # "drain"
    BY <1>30 DEF ReleaseRmdir
  <2>q. QED
    BY <2>1, <2>2, <2>3, <2>4
<1>31. CASE FinishTail(p)
  BY <1>31 DEF FinishTail
<1>32. CASE Detach(p)
  BY <1>32 DEF Detach
<1>33. CASE Crash(p)
  BY <1>33 DEF Crash
<1>34. CASE \E s \in UserSignals : UserSignal(p, s)
  BY <1>34 DEF UserSignal
<1>q. QED
  BY <1>1, <1>2, <1>3, <1>4, <1>5, <1>6, <1>7, <1>8, <1>9, <1>10, <1>11, <1>12,
     <1>13, <1>14, <1>15, <1>16, <1>17, <1>18, <1>19, <1>20, <1>21, <1>22, <1>23,
     <1>24, <1>25, <1>26, <1>27, <1>28, <1>29, <1>30, <1>31, <1>32, <1>33, <1>34 DEF Step, Environment

\* A marker is written on the leg of the matrix that spares watches, and read by
\* the handler of the process that leaves as superseded.
LEMMA YieldStep ==
  ASSUME TypeOK, Targets, SyncSparesWatch, MarkerOfChase, YieldsInACrowd,
         WatchKilledByClean', NEW p \in Procs, Step(p) \/ Environment(p)
  PROVE  MarkerOfChase' /\ YieldsInACrowd'
<1> USE SessionAssumption
<1> USE DEF TypeOK, DirIsEmpty, PCs, Claiming, Reading, Matrix, Stealing, Releasing,
      Outcomes, Keeping, Razing, Placing, Abrupt, Cut, Holding, procVars, jobVars,
      holdVars, diskVars, envVars, Goto, Exit, Retry, FreshOwnerLost, StartRelease,
      AfterRelease, EmptyDir, Judge, HoldSession, Alive, Deliver, Receiver, DiesOf,
      SessionAssumption, Targets, SyncSparesWatch, MarkerOfChase, YieldsInACrowd,
      WatchKilledByClean
<1>1. CASE Launch(p)
  BY <1>1 DEF Launch
<1>2. CASE TryClaimDir(p)
  BY <1>2 DEF TryClaimDir
<1>3. CASE WriteOwnerTmp(p)
  BY <1>3 DEF WriteOwnerTmp
<1>4. CASE RenameOwner(p)
  BY <1>4 DEF RenameOwner
<1>5. CASE ReadBack(p)
  BY <1>5 DEF ReadBack
<1>6. CASE ReadOwner(p)
  BY <1>6 DEF ReadOwner
<1>7. CASE SettleMissingOwner(p)
  BY <1>7 DEF SettleMissingOwner
<1>8. CASE ContendForLock(p)
  BY <1>8 DEF ContendForLock
<1>9. CASE PokeWatchHolder(p)
  BY <1>9 DEF PokeWatchHolder
<1>10. CASE WriteMarkerTmp(p)
  BY <1>10 DEF WriteMarkerTmp
<1>11. CASE RenameMarker(p)
  BY <1>11 DEF RenameMarker
<1>12. CASE SendTerm(p)
  BY <1>12 DEF SendTerm
<1>13. CASE AwaitExit(p)
  BY <1>13 DEF AwaitExit
<1>14. CASE SendKill(p)
  BY <1>14 DEF SendKill
<1>15. CASE FreshRead(p)
  BY <1>15 DEF FreshRead
<1>16. CASE TakeUnlink(p)
  BY <1>16 DEF TakeUnlink
<1>17. CASE TakeRmdir(p)
  BY <1>17 DEF TakeRmdir
<1>18. CASE TakeMkdir(p)
  BY <1>18 DEF TakeMkdir
<1>19. CASE TakeSettled(p)
  BY <1>19 DEF TakeSettled
<1>20. CASE FinishWork(p)
  BY <1>20 DEF FinishWork
<1>21. CASE FinishBaseline(p)
  BY <1>21 DEF FinishBaseline
<1>22. CASE StartResync(p)
  BY <1>22 DEF StartResync
<1>23. CASE EndResync(p)
  BY <1>23 DEF EndResync
<1>24. CASE OnSigterm(p)
  BY <1>24 DEF OnSigterm
<1>25. CASE OnInterrupt(p)
  BY <1>25 DEF OnInterrupt
<1>26. CASE StopWatch(p)
  BY <1>26 DEF StopWatch
<1>27. CASE DrainWatch(p)
  BY <1>27 DEF DrainWatch
<1>28. CASE ReleaseRead(p)
  BY <1>28 DEF ReleaseRead
<1>29. CASE ReleaseUnlink(p)
  BY <1>29 DEF ReleaseUnlink
<1>30. CASE ReleaseRmdir(p)
  BY <1>30 DEF ReleaseRmdir
<1>31. CASE FinishTail(p)
  BY <1>31 DEF FinishTail
<1>32. CASE Detach(p)
  BY <1>32 DEF Detach
<1>33. CASE Crash(p)
  BY <1>33 DEF Crash
<1>34. CASE \E s \in UserSignals : UserSignal(p, s)
  BY <1>34 DEF UserSignal
<1>q. QED
  BY <1>1, <1>2, <1>3, <1>4, <1>5, <1>6, <1>7, <1>8, <1>9, <1>10, <1>11, <1>12,
     <1>13, <1>14, <1>15, <1>16, <1>17, <1>18, <1>19, <1>20, <1>21, <1>22, <1>23,
     <1>24, <1>25, <1>26, <1>27, <1>28, <1>29, <1>30, <1>31, <1>32, <1>33, <1>34 DEF Step, Environment

CrowdInv == Inv /\ DiskInv /\ Words /\ MarkerOfChase /\ YieldsInACrowd

LEMMA CrowdInit == Init => CrowdInv
  BY InvInit, DiskInit, SessionAssumption
  DEF CrowdInv, Init, Words, MarkerOfChase, YieldsInACrowd, Holding, Releasing, SessionAssumption

LEMMA CrowdStep == CrowdInv /\ [Next]_vars => CrowdInv'
<1> SUFFICES ASSUME CrowdInv, [Next]_vars PROVE Words' /\ MarkerOfChase' /\ YieldsInACrowd'
  BY InvStep, DiskStep DEF CrowdInv
<1>1. Inv'
  BY InvStep DEF CrowdInv
<1>2. ASSUME NEW p \in Procs, Step(p) \/ Environment(p)
      PROVE  Words' /\ MarkerOfChase' /\ YieldsInACrowd'
  BY <1>1, <1>2, WordsStep, YieldStep DEF CrowdInv, Inv, DiskInv
<1>3. CASE UNCHANGED vars
  BY <1>3 DEF CrowdInv, vars, procVars, jobVars, holdVars, diskVars, Words, MarkerOfChase,
     YieldsInACrowd, Holding
<1>q. QED
  BY <1>2, <1>3 DEF Next, Rest

\* However many invocations meet, a watch is superseded or killed only where somebody
\* runs `ref clean`, or where two more invocations have met beside it.
THEOREM WatchYieldsInACrowd == Spec => []YieldsInACrowd
<1>1. CrowdInv => YieldsInACrowd
  BY DEF CrowdInv
<1>q. QED
  BY <1>1, CrowdInit, CrowdStep, PTL DEF Spec

-----------------------------------------------------------------------------
(***************************************************************************)
(* Two invocations, with prompt file operations.  (Three do not exclude    *)
(* each other: that is the counterexample of the run session_trio.)        *)
(***************************************************************************)
Two == \E a, b \in Procs : a # b /\ Procs = {a, b}

AtMostTwo == \A p, q, r \in Procs : p = q \/ q = r \/ p = r

LEMMA TwoAtMost == Two => AtMostTwo
  BY DEF Two, AtMostTwo

\* Between two invocations a watch yields to `ref clean` only.
THEOREM WatchYields == ASSUME Two PROVE Spec => []WatchYieldsOnlyToClean
<1>1. CrowdInv => WatchYieldsOnlyToClean
  BY TwoAtMost DEF CrowdInv, AtMostTwo, YieldsInACrowd, WatchYieldsOnlyToClean
<1>q. QED
  BY <1>1, CrowdInit, CrowdStep, PTL DEF Spec

Past(p)   == pc[p] \in {"drain", "tail", "exit", "remkdir"}
Gone(p)   == pc[p] \in {"drain", "tail", "exit"}
Claims(p) == pc[p] \in Placing /\ ~taking[p]

\* A directory that is gone was removed by one of the two, which is not back yet.
GoneByOne(p, q) ==
  ~dir => Past(p) \/ Past(q) \/ {pc[p], pc[q]} \subseteq {"idle", "mkdir"}

\* Unless q breaks the lock it keeps its hands off the directory that p keeps.
KeepsLock(p, q) ==
  pc[p] \in Keeping /\ ~break[q] =>
    owner = p /\ pc[q] \notin Razing \cup Placing \cup {"relUnlink"}

\* Nor does it meddle with a claim between mkdir and the read of the owner file.
ClaimsAlone(p, q) ==
  Claims(p) /\ ~break[q] =>
    /\ dir /\ owner = (IF pc[p] = "readBack" THEN p ELSE None)
    /\ pc[q] \notin Razing \cup Placing \cup Keeping \cup {"relRmdir", "fresh"}

\* An owner that has been read stays the owner until it lets go for good.
Tracks(p, q) ==
  pc[p] \in {"contend", "fresh", "attached"} \cup Matrix /\ seen[p] = q =>
    \/ owner = q
    \/ owner = None /\ (Gone(q) \/ pc[q] = "relRmdir")

Meets(p, q) == GoneByOne(p, q) /\ KeepsLock(p, q) /\ ClaimsAlone(p, q) /\ Tracks(p, q)

Meeting == \A p, q \in Procs : p # q => Meets(p, q)

\* What one of two processes does leaves each in the position it had to the other.
\* A settle never ends while the other is between two file operations.
LEMMA MeetsStep ==
  ASSUME AtMostTwo, Prompt, TypeOK, Targets, OwnerAnswers,
         NEW a \in Procs, NEW b \in Procs, a # b, Meets(a, b), Meets(b, a),
         NEW p \in Procs, Step(p) \/ Environment(p)
  PROVE  Meets(a, b)'
<1> USE SessionAssumption
<1> USE DEF TypeOK, DirIsEmpty, PCs, Claiming, Reading, Matrix, Stealing, Releasing,
      Outcomes, Keeping, Razing, Placing, Abrupt, Cut, Holding, procVars, jobVars,
      holdVars, diskVars, envVars, Goto, Exit, Retry, FreshOwnerLost, StartRelease,
      AfterRelease, EmptyDir, Judge, HoldSession, Alive, Deliver, Receiver, DiesOf,
      SessionAssumption, AtMostTwo, Targets, OwnerAnswers, Meets, GoneByOne, KeepsLock,
      ClaimsAlone, Tracks, Past, Gone, Claims, SettleMayEnd, MidFileOp
<1>1. CASE Launch(p)
  BY <1>1 DEF Launch
<1>2. CASE TryClaimDir(p)
  BY <1>2 DEF TryClaimDir
<1>3. CASE WriteOwnerTmp(p)
  BY <1>3 DEF WriteOwnerTmp
<1>4. CASE RenameOwner(p)
  BY <1>4 DEF RenameOwner
<1>5. CASE ReadBack(p)
  BY <1>5 DEF ReadBack
<1>6. CASE ReadOwner(p)
  BY <1>6 DEF ReadOwner
<1>7. CASE SettleMissingOwner(p)
  BY <1>7 DEF SettleMissingOwner
<1>8. CASE ContendForLock(p)
  BY <1>8 DEF ContendForLock
<1>9. CASE PokeWatchHolder(p)
  BY <1>9 DEF PokeWatchHolder
<1>10. CASE WriteMarkerTmp(p)
  BY <1>10 DEF WriteMarkerTmp
<1>11. CASE RenameMarker(p)
  BY <1>11 DEF RenameMarker
<1>12. CASE SendTerm(p)
  BY <1>12 DEF SendTerm
<1>13. CASE AwaitExit(p)
  BY <1>13 DEF AwaitExit
<1>14. CASE SendKill(p)
  BY <1>14 DEF SendKill
<1>15. CASE FreshRead(p)
  BY <1>15 DEF FreshRead
<1>16. CASE TakeUnlink(p)
  BY <1>16 DEF TakeUnlink
<1>17. CASE TakeRmdir(p)
  BY <1>17 DEF TakeRmdir
<1>18. CASE TakeMkdir(p)
  BY <1>18 DEF TakeMkdir
<1>19. CASE TakeSettled(p)
  BY <1>19 DEF TakeSettled
<1>20. CASE FinishWork(p)
  BY <1>20 DEF FinishWork
<1>21. CASE FinishBaseline(p)
  BY <1>21 DEF FinishBaseline
<1>22. CASE StartResync(p)
  BY <1>22 DEF StartResync
<1>23. CASE EndResync(p)
  BY <1>23 DEF EndResync
<1>24. CASE OnSigterm(p)
  BY <1>24 DEF OnSigterm
<1>25. CASE OnInterrupt(p)
  BY <1>25 DEF OnInterrupt
<1>26. CASE StopWatch(p)
  BY <1>26 DEF StopWatch
<1>27. CASE DrainWatch(p)
  BY <1>27 DEF DrainWatch
<1>28. CASE ReleaseRead(p)
  BY <1>28 DEF ReleaseRead
<1>29. CASE ReleaseUnlink(p)
  BY <1>29 DEF ReleaseUnlink
<1>30. CASE ReleaseRmdir(p)
  BY <1>30 DEF ReleaseRmdir
<1>31. CASE FinishTail(p)
  BY <1>31 DEF FinishTail
<1>32. CASE Detach(p)
  BY <1>32 DEF Detach
<1>33. CASE Crash(p)
  BY <1>33 DEF Crash
<1>34. CASE \E s \in UserSignals : UserSignal(p, s)
  BY <1>34 DEF UserSignal
<1>q. QED
  BY <1>1, <1>2, <1>3, <1>4, <1>5, <1>6, <1>7, <1>8, <1>9, <1>10, <1>11, <1>12,
     <1>13, <1>14, <1>15, <1>16, <1>17, <1>18, <1>19, <1>20, <1>21, <1>22, <1>23,
     <1>24, <1>25, <1>26, <1>27, <1>28, <1>29, <1>30, <1>31, <1>32, <1>33, <1>34 DEF Step, Environment

PairInv == CrowdInv /\ Meeting

LEMMA PairInit == Init => PairInv
<1> SUFFICES ASSUME Init PROVE Meeting
  BY CrowdInit DEF PairInv
<1>1. \A p \in Procs : pc[p] = "idle"
  BY DEF Init
<1>q. QED
  BY <1>1 DEF Meeting, Meets, GoneByOne, KeepsLock, ClaimsAlone, Tracks, Claims, Keeping,
     Placing, Matrix

LEMMA PairStep == ASSUME Two, Prompt PROVE PairInv /\ [Next]_vars => PairInv'
<1> SUFFICES ASSUME PairInv, [Next]_vars, NEW a \in Procs, NEW b \in Procs, a # b
             PROVE  Meets(a, b)'
  BY CrowdStep DEF PairInv, Meeting
<1> USE DEF PairInv, CrowdInv, DiskInv, Answered
<1>1. Meets(a, b) /\ Meets(b, a)
  BY DEF Meeting
<1>2. ASSUME NEW p \in Procs, Step(p) \/ Environment(p) PROVE Meets(a, b)'
  BY <1>1, <1>2, TwoAtMost, MeetsStep DEF Inv
<1>3. CASE UNCHANGED vars
  BY <1>1, <1>3 DEF vars, procVars, jobVars, diskVars, Meets, GoneByOne, KeepsLock,
     ClaimsAlone, Tracks, Claims, Past, Gone
<1>q. QED
  BY <1>2, <1>3 DEF Next, Rest

\* From acquire to the removal that a release decides on, the lock on disk is that of
\* the process that holds it.
THEOREM OwnsLock == ASSUME Two, Prompt PROVE Spec => []HolderOwnsLock
<1>1. PairInv => HolderOwnsLock
  <2> SUFFICES ASSUME Meeting, NobodyBreaks, NEW p \in Procs, Holding(p) \/ pc[p] = "relUnlink"
               PROVE  owner = p
    BY DEF PairInv, HolderOwnsLock
  <2>1. PICK q \in Procs : q # p
    BY DEF Two
  <2>q. QED
    BY <2>1 DEF Meeting, Meets, KeepsLock, Keeping, Holding, NobodyBreaks
<1>q. QED
  BY <1>1, PairInit, PairStep, PTL DEF Spec

\* Two of them write the folder together only where an interrupt made a watch that is up
\* let go of the lock while its pass was in flight.
THEOREM WritersMeetOnInterrupt == ASSUME Two, Prompt PROVE Spec => []OneWriterButInterrupted
<1>1. PairInv => OneWriterButInterrupted
  <2> SUFFICES ASSUME Meeting, Words, NobodyBreaks,
                      NEW p \in Procs, NEW q \in Procs, Writing(p), Writing(q), p # q,
                      ~(up[p] /\ pc[p] \in Releasing \cup {"drain"}),
                      ~(up[q] /\ pc[q] \in Releasing \cup {"drain"})
               PROVE  FALSE
    BY DEF PairInv, CrowdInv, OneWriterButInterrupted
  <2>1. Holding(p) /\ Holding(q)
    BY DEF Words, Writing
  <2>2. owner = p /\ owner = q
    BY <2>1 DEF Meeting, Meets, KeepsLock, Keeping, Holding, NobodyBreaks
  <2>q. QED
    BY <2>2
<1>q. QED
  BY <1>1, PairInit, PairStep, PTL DEF Spec

-----------------------------------------------------------------------------
(***************************************************************************)
(* The refinement of FolderLock, by two invocations with prompt file       *)
(* operations.                                                             *)
(***************************************************************************)
Else(p) == UNCHANGED <<kind, break>> /\ \A q \in Procs \ {p} : Phase(q)' = Phase(q)

\* The steps of FolderLock that look at nobody else, or none.
Moves(p) ==
  /\ Else(p)
  /\ \/ Phase(p)' = Phase(p)
     \/ Phase(p) = "out" /\ Phase(p)' = "waiting"
     \/ Phase(p) = "holding" /\ Phase(p)' = "leaving"
     \/ Phase(p) \in Folder!Phases \ {"out", "gone"} /\ Phase(p)' = "gone"

Gains(p) ==
  /\ Else(p) /\ Phase(p) = "waiting" /\ Phase(p)' = "holding"
  /\ break[p] \/ \A q \in Procs : Phase(q) # "holding"

\* p is covered by w, which stays as it is or dies of the poke.
Joins(p, w) ==
  /\ UNCHANGED <<kind, break>> /\ kind[w] = "watch" /\ kind[p] # "clean"
  /\ Phase(p) = "waiting" /\ Phase(p)' = "covered"
  /\ Phase(w) \in {"waiting", "holding", "leaving"}
  /\ \/ Phase(w)' = Phase(w)
     \/ Phase(w) # "holding" /\ Phase(w)' = "gone"
  /\ \A q \in Procs \ {p, w} : Phase(q)' = Phase(q)

Mapped == \E p \in Procs : Moves(p) \/ Gains(p) \/ \E w \in Procs \ {p} : Joins(p, w)

LEMMA Becomes ==
  ASSUME NEW p \in Procs, NEW to, Else(p), Phase(p)' = to
  PROVE  Folder!Become(p, Phase(p), to)
  BY DEF Else, Folder!Become

LEMMA MappedStep == Mapped => [Folder!Next]_<<kind, break, [q \in Procs |-> Phase(q)]>>
<1> SUFFICES ASSUME Mapped PROVE [Folder!Next]_<<kind, break, [q \in Procs |-> Phase(q)]>>
  OBVIOUS
<1>1. PICK p \in Procs : Moves(p) \/ Gains(p) \/ \E w \in Procs \ {p} : Joins(p, w)
  BY DEF Mapped
<1>2. CASE Moves(p)
  <2>1. CASE Phase(p)' = Phase(p)
    BY <1>2, <2>1 DEF Moves, Else
  <2>2. CASE Phase(p) = "out" /\ Phase(p)' = "waiting"
    BY <1>2, <2>2, Becomes DEF Moves, Folder!Arrive, Folder!Next
  <2>3. CASE Phase(p) = "holding" /\ Phase(p)' = "leaving"
    BY <1>2, <2>3, Becomes DEF Moves, Folder!Release, Folder!Next
  <2>4. CASE Phase(p) \in Folder!Phases \ {"out", "gone"} /\ Phase(p)' = "gone"
    BY <1>2, <2>4, Becomes DEF Moves, Folder!Go, Folder!Next
  <2>q. QED
    BY <1>2, <2>1, <2>2, <2>3, <2>4 DEF Moves
<1>3. CASE Gains(p)
  <2>1. Folder!Become(p, "waiting", "holding")
    BY <1>3, Becomes DEF Gains
  <2>2. break[p] \/ \A q \in Procs : [r \in Procs |-> Phase(r)][q] # "holding"
    BY <1>3 DEF Gains
  <2>q. QED
    BY <2>1, <2>2 DEF Folder!Acquire, Folder!Next
<1>4. CASE \E w \in Procs \ {p} : Joins(p, w)
  <2>1. PICK w \in Procs \ {p} : Joins(p, w)
    BY <1>4
  <2>2. CASE Phase(w)' = Phase(w)
    <3>1. Else(p)
      BY <2>1, <2>2 DEF Joins, Else
    <3>q. QED
      BY <2>1, <3>1, Becomes DEF Joins, Folder!Covers, Folder!Next
  <2>3. CASE Phase(w) # "holding" /\ Phase(w)' = "gone"
    <3>1. [q \in Procs |-> Phase(q)']
            = [[q \in Procs |-> Phase(q)] EXCEPT ![p] = "covered", ![w] = "gone"]
      BY <2>1, <2>3 DEF Joins
    <3>q. QED
      BY <2>1, <2>3, <3>1 DEF Joins, Folder!Covers, Folder!Next
  <2>q. QED
    BY <2>1, <2>2, <2>3 DEF Joins
<1>q. QED
  BY <1>1, <1>2, <1>3, <1>4

\* Every step maps to one of FolderLock or to none: who gets the lock finds nobody who
\* holds it, and who is covered has read the lock of a watch that is still there.
LEMMA RefineStep ==
  ASSUME PairInv, NEW p \in Procs, Step(p) \/ Environment(p)
  PROVE  Mapped
<1>0. TypeOK /\ Targets /\ OwnerAnswers /\ Words /\ Meeting
  BY DEF PairInv, CrowdInv, Inv, DiskInv, Answered
<1>m. ASSUME NEW t \in Procs, Moves(t) PROVE Mapped
  BY <1>m DEF Mapped
<1>g. ASSUME Gains(p) PROVE Mapped
  BY <1>g DEF Mapped
<1>j. ASSUME NEW w \in Procs \ {p}, Joins(p, w) PROVE Mapped
  BY <1>j DEF Mapped
<1>u. ASSUME \E s \in UserSignals : UserSignal(p, s) PROVE UNCHANGED <<kind, break>>
  BY <1>u DEF UserSignal, jobVars
<1> USE SessionAssumption
<1> USE DEF TypeOK, DirIsEmpty, PCs, Claiming, Reading, Matrix, Stealing, Releasing,
      Outcomes, Keeping, Razing, Placing, Abrupt, Cut, Holding, procVars, jobVars,
      holdVars, diskVars, envVars, Goto, Exit, Retry, FreshOwnerLost, StartRelease,
      AfterRelease, EmptyDir, Judge, HoldSession, Alive, Deliver, Receiver, DiesOf,
      SessionAssumption, Phase, Folder!Phases, Words
<1>1. CASE Launch(p)
  <2>1. Moves(p)
    BY <1>1, <1>0 DEF Launch, Moves, Else
  <2>q. QED
    BY <2>1, <1>m
<1>2. CASE TryClaimDir(p)
  <2>1. Moves(p)
    BY <1>2, <1>0 DEF TryClaimDir, Moves, Else
  <2>q. QED
    BY <2>1, <1>m
<1>3. CASE WriteOwnerTmp(p)
  <2>1. Moves(p)
    BY <1>3, <1>0 DEF WriteOwnerTmp, Moves, Else
  <2>q. QED
    BY <2>1, <1>m
<1>4. CASE RenameOwner(p)
  <2>1. Moves(p)
    BY <1>4, <1>0 DEF RenameOwner, Moves, Else
  <2>q. QED
    BY <2>1, <1>m
<1>5. CASE ReadBack(p)
  <2>1. CASE owner = p /\ HoldSession(p)
    <3>1. \A q \in Procs : Holding(q) /\ ~break[p] => FALSE
      BY <1>5, <1>0, <2>1 DEF ReadBack, Meeting, Meets, KeepsLock
    <3>2. Gains(p)
      BY <1>5, <1>0, <2>1, <3>1 DEF ReadBack, Moves, Else, Gains
    <3>q. QED
      BY <3>2, <1>g
  <2>2. CASE ~(owner = p /\ HoldSession(p))
    <3>1. Moves(p)
      BY <1>5, <1>0, <2>2 DEF ReadBack, Moves, Else
    <3>q. QED
      BY <3>1, <1>m
  <2>q. QED
    BY <2>1, <2>2
<1>6. CASE ReadOwner(p)
  <2>1. Moves(p)
    BY <1>6, <1>0 DEF ReadOwner, Moves, Else
  <2>q. QED
    BY <2>1, <1>m
<1>7. CASE SettleMissingOwner(p)
  <2>1. Moves(p)
    BY <1>7, <1>0 DEF SettleMissingOwner, Moves, Else
  <2>q. QED
    BY <2>1, <1>m
<1>8. CASE ContendForLock(p)
  <2>1. CASE pc'[p] = "attached"
    <3>0. PICK w \in Procs \ {p} : w = seen[p]
      BY <1>8, <2>1, <1>0 DEF ContendForLock, Targets
    <3>1. owner = w /\ Alive(w) /\ kind[w] = "watch" /\ kind[p] # "clean"
      BY <1>8, <2>1, <3>0, <1>0 DEF ContendForLock
    <3>2. pc[w] \in {"readBack", "takeSettle"} \cup Keeping
      BY <3>1, <1>0 DEF OwnerAnswers, Cut
    <3>3. Joins(p, w)
      BY <1>8, <2>1, <3>1, <3>2, <1>0 DEF ContendForLock, Joins
    <3>q. QED
      BY <3>3, <1>j
  <2>2. CASE pc'[p] # "attached"
    <3>1. Moves(p)
      BY <1>8, <2>2, <1>0 DEF ContendForLock, Moves, Else
    <3>q. QED
      BY <3>1, <1>m
  <2>q. QED
    BY <2>1, <2>2
<1>9. CASE PokeWatchHolder(p)
  <2>0. PICK w \in Procs \ {p} : w = seen[p]
    BY <1>9, <1>0 DEF PokeWatchHolder, Targets
  <2>1. CASE Alive(w)
    <3>1. /\ kind[w] = "watch" /\ kind[p] # "clean"
          /\ owner = w \/ Gone(w) \/ pc[w] = "relRmdir"
      BY <1>9, <2>0, <1>0 DEF PokeWatchHolder, Targets, Meeting, Meets, Tracks
    <3>2. pc[w] \in {"readBack", "takeSettle", "drain", "tail"} \cup Releasing \cup Keeping
      BY <2>1, <3>1, <1>0 DEF OwnerAnswers, Cut, Gone
    <3>3. Joins(p, w)
      BY <1>9, <2>0, <2>1, <3>1, <3>2, <1>0 DEF PokeWatchHolder, HearsPoke, Joins
    <3>q. QED
      BY <3>3, <1>j
  <2>2. CASE ~Alive(w)
    <3>1. Moves(p)
      BY <1>9, <2>0, <2>2, <1>0 DEF PokeWatchHolder, Moves, Else
    <3>q. QED
      BY <3>1, <1>m
  <2>q. QED
    BY <2>1, <2>2
<1>10. CASE WriteMarkerTmp(p)
  <2>1. Moves(p)
    BY <1>10, <1>0 DEF WriteMarkerTmp, Moves, Else
  <2>q. QED
    BY <2>1, <1>m
<1>11. CASE RenameMarker(p)
  <2>1. Moves(p)
    BY <1>11, <1>0 DEF RenameMarker, Moves, Else
  <2>q. QED
    BY <2>1, <1>m
<1>12. CASE SendTerm(p)
  <2>0. PICK w \in Procs \ {p} : w = seen[p]
    BY <1>12, <1>0 DEF SendTerm, Targets
  <2>1. CASE Alive(w)
    <3>1. PICK t : t = Receiver(w)
      BY <1>12, <2>0
    <3>2. UNCHANGED <<kind, break>>
      BY <1>12 DEF SendTerm
    <3>3. \A q \in Procs : \/ Phase(q)' = Phase(q)
                          \/ /\ q = t /\ Phase(q) \in Folder!Phases \ {"out", "gone"}
                             /\ Phase(q)' = "gone"
      BY <1>12, <2>0, <2>1, <3>1, <1>0 DEF SendTerm, Targets
    <3>4. \E r \in Procs : Moves(r)
      BY <3>2, <3>3 DEF Moves, Else
    <3>q. QED
      BY <3>4, <1>m
  <2>2. CASE ~Alive(w)
    <3>1. Moves(p)
      BY <1>12, <2>0, <2>2, <1>0 DEF SendTerm, Moves, Else
    <3>q. QED
      BY <3>1, <1>m
  <2>q. QED
    BY <2>1, <2>2
<1>13. CASE AwaitExit(p)
  <2>1. Moves(p)
    BY <1>13, <1>0 DEF AwaitExit, Moves, Else
  <2>q. QED
    BY <2>1, <1>m
<1>14. CASE SendKill(p)
  <2>0. PICK w \in Procs \ {p} : w = seen[p]
    BY <1>14, <1>0 DEF SendKill, Targets
  <2>1. CASE Alive(w)
    <3>1. Moves(w)
      BY <1>14, <2>0, <2>1, <1>0 DEF SendKill, Moves, Else, Targets
    <3>q. QED
      BY <3>1, <1>m
  <2>2. CASE ~Alive(w)
    <3>1. Moves(p)
      BY <1>14, <2>0, <2>2, <1>0 DEF SendKill, Moves, Else
    <3>q. QED
      BY <3>1, <1>m
  <2>q. QED
    BY <2>1, <2>2
<1>15. CASE FreshRead(p)
  <2>1. Moves(p)
    BY <1>15, <1>0 DEF FreshRead, Moves, Else
  <2>q. QED
    BY <2>1, <1>m
<1>16. CASE TakeUnlink(p)
  <2>1. Moves(p)
    BY <1>16, <1>0 DEF TakeUnlink, Moves, Else
  <2>q. QED
    BY <2>1, <1>m
<1>17. CASE TakeRmdir(p)
  <2>1. Moves(p)
    BY <1>17, <1>0 DEF TakeRmdir, Moves, Else
  <2>q. QED
    BY <2>1, <1>m
<1>18. CASE TakeMkdir(p)
  <2>1. Moves(p)
    BY <1>18, <1>0 DEF TakeMkdir, Moves, Else
  <2>q. QED
    BY <2>1, <1>m
<1>19. CASE TakeSettled(p)
  <2>1. CASE owner = p /\ HoldSession(p)
    <3>1. \A q \in Procs : Holding(q) /\ ~break[p] => FALSE
      BY <1>19, <1>0, <2>1 DEF TakeSettled, Meeting, Meets, KeepsLock
    <3>2. Gains(p)
      BY <1>19, <1>0, <2>1, <3>1 DEF TakeSettled, Moves, Else, Gains
    <3>q. QED
      BY <3>2, <1>g
  <2>2. CASE ~(owner = p /\ HoldSession(p))
    <3>1. Moves(p)
      BY <1>19, <1>0, <2>2 DEF TakeSettled, Moves, Else
    <3>q. QED
      BY <3>1, <1>m
  <2>q. QED
    BY <2>1, <2>2
<1>20. CASE FinishWork(p)
  <2>1. Moves(p)
    BY <1>20, <1>0 DEF FinishWork, Moves, Else
  <2>q. QED
    BY <2>1, <1>m
<1>21. CASE FinishBaseline(p)
  <2>1. Moves(p)
    BY <1>21, <1>0 DEF FinishBaseline, Moves, Else
  <2>q. QED
    BY <2>1, <1>m
<1>22. CASE StartResync(p)
  <2>1. Moves(p)
    BY <1>22, <1>0 DEF StartResync, Moves, Else
  <2>q. QED
    BY <2>1, <1>m
<1>23. CASE EndResync(p)
  <2>1. Moves(p)
    BY <1>23, <1>0 DEF EndResync, Moves, Else
  <2>q. QED
    BY <2>1, <1>m
<1>24. CASE OnSigterm(p)
  <2>1. Moves(p)
    BY <1>24, <1>0 DEF OnSigterm, Moves, Else
  <2>q. QED
    BY <2>1, <1>m
<1>25. CASE OnInterrupt(p)
  <2>1. Moves(p)
    BY <1>25, <1>0 DEF OnInterrupt, Moves, Else
  <2>q. QED
    BY <2>1, <1>m
<1>26. CASE StopWatch(p)
  <2>1. Moves(p)
    BY <1>26, <1>0 DEF StopWatch, Moves, Else
  <2>q. QED
    BY <2>1, <1>m
<1>27. CASE DrainWatch(p)
  <2>1. Moves(p)
    BY <1>27, <1>0 DEF DrainWatch, Moves, Else
  <2>q. QED
    BY <2>1, <1>m
<1>28. CASE ReleaseRead(p)
  <2>1. Moves(p)
    BY <1>28, <1>0 DEF ReleaseRead, Moves, Else
  <2>q. QED
    BY <2>1, <1>m
<1>29. CASE ReleaseUnlink(p)
  <2>1. Moves(p)
    BY <1>29, <1>0 DEF ReleaseUnlink, Moves, Else
  <2>q. QED
    BY <2>1, <1>m
<1>30. CASE ReleaseRmdir(p)
  <2>1. Moves(p)
    BY <1>30, <1>0 DEF ReleaseRmdir, Moves, Else
  <2>q. QED
    BY <2>1, <1>m
<1>31. CASE FinishTail(p)
  <2>1. Moves(p)
    BY <1>31, <1>0 DEF FinishTail, Moves, Else
  <2>q. QED
    BY <2>1, <1>m
<1>32. CASE Detach(p)
  <2>1. Moves(p)
    BY <1>32, <1>0 DEF Detach, Moves, Else
  <2>q. QED
    BY <2>1, <1>m
<1>33. CASE Crash(p)
  <2>1. Moves(p)
    BY <1>33, <1>0 DEF Crash, Moves, Else
  <2>q. QED
    BY <2>1, <1>m
<1>34. CASE \E s \in UserSignals : UserSignal(p, s)
  <2>1. PICK s \in UserSignals : UserSignal(p, s)
    BY <1>34
  <2>2. PICK t : t = Receiver(p)
    BY <1>34
  <2>3. UNCHANGED <<kind, break>>
    BY <1>34, <1>u, Zenon
  <2>4. \A q \in Procs : \/ Phase(q)' = Phase(q)
                        \/ /\ q = t /\ Phase(q) \in Folder!Phases \ {"out", "gone"}
                           /\ Phase(q)' = "gone"
    <3>1. \A q \in Procs :
            IF q = t /\ DiesOf(t, s) THEN pc'[q] = "exit" /\ outcome'[q] = "signalled"
                                     ELSE pc'[q] = pc[q] /\ outcome'[q] = outcome[q]
      BY <2>1, <2>2, <1>0 DEF UserSignal, Targets
    <3>2. DiesOf(t, s) => pc[t] \notin {"idle", "exit"} /\ outcome[t] # "covered"
      BY <2>1, <2>2, <1>0 DEF UserSignal, Targets
    <3> HIDE DEF TypeOK, PCs, Outcomes, DiesOf, Alive, Deliver, Receiver, Words
    <3>q. QED
      BY <3>1, <3>2
  <2>5. \E r \in Procs : Moves(r)
    BY <2>3, <2>4 DEF Moves, Else
  <2>q. QED
    BY <2>5, <1>m
<1>q. QED
  BY <1>1, <1>2, <1>3, <1>4, <1>5, <1>6, <1>7, <1>8, <1>9, <1>10, <1>11, <1>12,
     <1>13, <1>14, <1>15, <1>16, <1>17, <1>18, <1>19, <1>20, <1>21, <1>22, <1>23,
     <1>24, <1>25, <1>26, <1>27, <1>28, <1>29, <1>30, <1>31, <1>32, <1>33, <1>34 DEF Step, Environment

\* Between two invocations the lock on disk is the lock of FolderLock: it goes from one
\* holder to the next only through a release or a death, and a newcomer is told that a
\* watch covers it only while there is one.
THEOREM Refinement == ASSUME Two, Prompt PROVE Spec => ImplementsFolderLock
<1>1. Init => Folder!Init
  <2> SUFFICES ASSUME Init PROVE Folder!Init
    OBVIOUS
  <2>1. TypeOK
    BY TypeInit
  <2>2. \A p \in Procs : pc[p] = "idle" /\ outcome[p] = "none"
    BY DEF Init
  <2>3. \A p \in Procs : Phase(p) = "out"
    BY <2>2 DEF Phase, Holding, Releasing
  <2>q. QED
    BY <2>1, <2>3 DEF TypeOK, Folder!Init
<1>2. PairInv /\ [Next]_vars => [Folder!Next]_<<kind, break, [p \in Procs |-> Phase(p)]>>
  <2> SUFFICES ASSUME PairInv, [Next]_vars
               PROVE  [Folder!Next]_<<kind, break, [p \in Procs |-> Phase(p)]>>
    OBVIOUS
  <2>1. ASSUME NEW p \in Procs, Step(p) \/ Environment(p)
        PROVE  [Folder!Next]_<<kind, break, [q \in Procs |-> Phase(q)]>>
    BY <2>1, RefineStep, MappedStep
  <2>2. CASE UNCHANGED vars
    <3>1. UNCHANGED <<pc, outcome, kind, break>>
      BY <2>2 DEF vars, procVars, jobVars
    <3>2. \A p \in Procs : Phase(p)' = Phase(p)
      BY <3>1, Zenon DEF Phase, Holding
    <3>q. QED
      BY <3>1, <3>2
  <2>q. QED
    BY <2>1, <2>2 DEF Next, Rest
<1>q. QED
  BY <1>1, <1>2, PairInit, PairStep, PTL DEF Spec, ImplementsFolderLock, Folder!Spec

-----------------------------------------------------------------------------
(***************************************************************************)
(* How often two invocations can turn each other away.                     *)
(***************************************************************************)

\* What a process that claims or takes has done to the disk is still done.
Stands(p) ==
  /\ pc[p] = "remkdir" => ~dir
  /\ pc[p] = "write" => dir
  /\ pc[p] = "rename" => <<p, "owner">> \in tmps
  /\ pc[p] \in {"readBack", "takeSettle"} => owner = p

\* It has lost a turn of the loop, or will lose this one.
Behind(p) ==
  \/ tries[p] > 0 /\ pc[p] \in {"mkdir", "read", "settle100", "settle500"}
  \/ pc[p] \in {"contend", "fresh"} /\ seen[p] = Ghost /\ owner # Ghost
  \/ ~Stands(p)

\* It has the lock, will have it if nothing more happens, or is through with it.
Leads(p) ==
  \/ Gone(p) \/ pc[p] \in {"rmdir", "relRmdir"} \cup Keeping
  \/ pc[p] \in {"remkdir", "takeSettle"} \cup Placing /\ Stands(p)

Taking(p) == \/ pc[p] \in Razing \cup {"remkdir", "takeSettle"}
             \/ pc[p] \in Placing /\ taking[p]

\* p loses its first turn to q on its way to the lock, its second to q on its way out,
\* and its third to nobody.
Turns(p, q) ==
  /\ Behind(p) => Leads(q)
  /\ pc[p] = "markRename" => <<p, "marker">> \in tmps \/ owner = None
  /\ tries[p] > 0 =>
       /\ pc[p] # "idle" /\ owner \notin {Ghost, Junk}
       /\ pc[p] \in {"contend", "fresh"} => seen[p] = q
       /\ Taking(p) => Gone(q) /\ Stands(p)
  /\ tries[p] > 1 =>
       /\ tries[p] = 2 /\ owner # q
       /\ Gone(q) \/ pc[q] = "relRmdir"
       /\ pc[p] \notin {"contend", "fresh", "attached"} \cup Matrix
  /\ outcome[p] # "unsettled"

\* The turn that p loses now is lost to q.
LosesTo(p, q) ==
  /\ Leads(q) /\ owner \notin {Ghost, Junk}
  /\ tries[p] > 0 => owner # q /\ (Gone(q) \/ pc[q] = "relRmdir")
  /\ tries[p] < 2

\* Whatever one of two processes does, each stays within its two lost turns.
LEMMA TurnsStep ==
  ASSUME AtMostTwo, Prompt, NobodyBreaks, MaxAttempts > 2, TypeOK, Targets, OwnerAnswers,
         LegacyStands, NEW a \in Procs, NEW b \in Procs, a # b, Meets(a, b), Meets(b, a),
         Turns(a, b), Turns(b, a), NEW p \in Procs, Step(p) \/ Environment(p)
  PROVE  Turns(a, b)'
<1>0. p \in {a, b} /\ a # b
  BY DEF AtMostTwo
<1>r. ASSUME Retry(a), LosesTo(a, b), UNCHANGED <<seen, taking, dir, owner, marker, tmps>>
      PROVE  Turns(a, b)'
  BY <1>r, SessionAssumption
     DEF Retry, Goto, Exit, LosesTo, Leads, Turns, Behind, Stands, Taking, Gone, TypeOK,
         Keeping, Placing, Razing, Matrix, SessionAssumption
<1> USE SessionAssumption
<1> USE DEF TypeOK, DirIsEmpty, PCs, Claiming, Reading, Matrix, Stealing, Releasing,
      Outcomes, Keeping, Razing, Placing, Abrupt, Cut, Holding, procVars, jobVars,
      holdVars, diskVars, envVars, Goto, Exit, Retry, FreshOwnerLost, StartRelease,
      AfterRelease, EmptyDir, Judge, HoldSession, Alive, Deliver, Receiver, DiesOf,
      SessionAssumption, AtMostTwo, NobodyBreaks, Targets, OwnerAnswers, Meets,
      GoneByOne, KeepsLock, ClaimsAlone, Tracks, Past, Gone, Claims, SettleMayEnd,
      MidFileOp, Stands, Behind, Leads, Taking, Turns
<1>1. CASE Launch(p)
  BY <1>1 DEF Launch
<1>2. CASE TryClaimDir(p)
  BY <1>2 DEF TryClaimDir
<1>3. CASE WriteOwnerTmp(p)
  BY <1>3 DEF WriteOwnerTmp
<1>4. CASE RenameOwner(p)
  <2>1. CASE p = b
    BY <1>4, <2>1 DEF RenameOwner
  <2>2. CASE p = a /\ ~Retry(p)
    BY <1>4, <2>2 DEF RenameOwner
  <2>3. CASE p = a /\ Retry(p)
    <3>1. UNCHANGED <<seen, taking, dir, owner, marker, tmps>>
      BY <1>4, <2>3 DEF RenameOwner
    <3>2. Leads(b)
      BY <1>4, <2>3 DEF RenameOwner
    <3>3. owner \notin {Ghost, Junk}
      BY <1>4, <2>3 DEF RenameOwner, LegacyStands, Cut
    <3>4. tries[a] > 0 => owner # b /\ (Gone(b) \/ pc[b] = "relRmdir")
      BY <1>4, <2>3 DEF RenameOwner
    <3>5. tries[a] < 2
      BY <1>4, <2>3 DEF RenameOwner
    <3>q. QED
      BY <2>3, <3>1, <3>2, <3>3, <3>4, <3>5, <1>r DEF LosesTo
  <2>q. QED
    BY <1>0, <2>1, <2>2, <2>3
<1>5. CASE ReadBack(p)
  <2>1. CASE p = b
    BY <1>5, <2>1 DEF ReadBack
  <2>2. CASE p = a /\ ~Retry(p)
    BY <1>5, <2>2 DEF ReadBack
  <2>3. CASE p = a /\ Retry(p)
    <3>1. UNCHANGED <<seen, taking, dir, owner, marker, tmps>>
      BY <1>5, <2>3 DEF ReadBack
    <3>2. Leads(b)
      BY <1>5, <2>3 DEF ReadBack
    <3>3. owner \notin {Ghost, Junk}
      BY <1>5, <2>3 DEF ReadBack, LegacyStands, Cut
    <3>4. tries[a] > 0 => owner # b /\ (Gone(b) \/ pc[b] = "relRmdir")
      BY <1>5, <2>3 DEF ReadBack
    <3>5. tries[a] < 2
      BY <1>5, <2>3 DEF ReadBack
    <3>q. QED
      BY <2>3, <3>1, <3>2, <3>3, <3>4, <3>5, <1>r DEF LosesTo
  <2>q. QED
    BY <1>0, <2>1, <2>2, <2>3
<1>6. CASE ReadOwner(p)
  BY <1>6 DEF ReadOwner
<1>7. CASE SettleMissingOwner(p)
  BY <1>7 DEF SettleMissingOwner
<1>8. CASE ContendForLock(p)
  <2>1. CASE p = b
    BY <1>8, <2>1 DEF ContendForLock
  <2>2. CASE p = a /\ ~Retry(p)
    BY <1>8, <2>2 DEF ContendForLock
  <2>3. CASE p = a /\ Retry(p)
    <3>1. UNCHANGED <<seen, taking, dir, owner, marker, tmps>>
      BY <1>8, <2>3 DEF ContendForLock
    <3>2. Leads(b)
      BY <1>8, <2>3 DEF ContendForLock
    <3>3. owner \notin {Ghost, Junk}
      <4>1. pc[a] = "contend" /\ owner # seen[a]
        BY <1>8, <2>3 DEF ContendForLock
      <4>2. LegacyStands
        OBVIOUS
      <4>q. QED
        BY <4>1, <4>2 DEF LegacyStands, Cut
    <3>4. tries[a] > 0 => owner # b /\ (Gone(b) \/ pc[b] = "relRmdir")
      BY <1>8, <2>3 DEF ContendForLock
    <3>5. tries[a] < 2
      BY <1>8, <2>3 DEF ContendForLock
    <3>q. QED
      BY <2>3, <3>1, <3>2, <3>3, <3>4, <3>5, <1>r DEF LosesTo
  <2>q. QED
    BY <1>0, <2>1, <2>2, <2>3
<1>9. CASE PokeWatchHolder(p)
  BY <1>9 DEF PokeWatchHolder
<1>10. CASE WriteMarkerTmp(p)
  <2>1. CASE p = b
    BY <1>10, <2>1 DEF WriteMarkerTmp
  <2>2. CASE p = a /\ dir
    BY <1>10, <2>2 DEF WriteMarkerTmp
  <2>3. CASE p = a /\ ~dir
    <3>1. UNCHANGED <<seen, taking, dir, owner, marker, tmps>> /\ Retry(a)
      BY <1>10, <2>3 DEF WriteMarkerTmp
    <3>2. owner = None /\ pc[a] = "markWrite" /\ seen[a] = b
      BY <1>10, <2>3 DEF WriteMarkerTmp
    <3>3. Gone(b) \/ pc[b] = "remkdir" \/ pc[b] = "relRmdir"
      BY <2>3, <3>2
    <3>4. Gone(b) \/ pc[b] = "relRmdir"
      BY <3>2, <3>3
    <3>q. QED
      BY <2>3, <3>1, <3>2, <3>4, <1>r DEF LosesTo
  <2>q. QED
    BY <1>0, <2>1, <2>2, <2>3
<1>11. CASE RenameMarker(p)
  <2>1. CASE p = b
    BY <1>11, <2>1 DEF RenameMarker
  <2>2. CASE p = a /\ ~Retry(p)
    BY <1>11, <2>2 DEF RenameMarker
  <2>3. CASE p = a /\ Retry(p)
    <3>1. UNCHANGED <<seen, taking, dir, owner, marker, tmps>>
      BY <1>11, <2>3 DEF RenameMarker
    <3>2. Leads(b)
      BY <1>11, <2>3 DEF RenameMarker
    <3>3. owner \notin {Ghost, Junk}
      BY <1>11, <2>3 DEF RenameMarker, LegacyStands, Cut
    <3>4. tries[a] > 0 => owner # b /\ (Gone(b) \/ pc[b] = "relRmdir")
      BY <1>11, <2>3 DEF RenameMarker
    <3>5. tries[a] < 2
      BY <1>11, <2>3 DEF RenameMarker
    <3>q. QED
      BY <2>3, <3>1, <3>2, <3>3, <3>4, <3>5, <1>r DEF LosesTo
  <2>q. QED
    BY <1>0, <2>1, <2>2, <2>3
<1>12. CASE SendTerm(p)
  BY <1>12 DEF SendTerm
<1>13. CASE AwaitExit(p)
  BY <1>13 DEF AwaitExit
<1>14. CASE SendKill(p)
  BY <1>14 DEF SendKill
<1>15. CASE FreshRead(p)
  <2>1. CASE p = b
    BY <1>15, <2>1 DEF FreshRead
  <2>2. CASE p = a /\ ~Retry(p)
    BY <1>15, <2>2 DEF FreshRead
  <2>3. CASE p = a /\ Retry(p)
    <3>1. UNCHANGED <<seen, taking, dir, owner, marker, tmps>>
      BY <1>15, <2>3 DEF FreshRead
    <3>2. Leads(b)
      <4>1. owner \notin {seen[a], None, Junk} /\ pc[a] = "fresh"
        BY <1>15, <2>3 DEF FreshRead
      <4>2. owner # Ghost
        BY <4>1 DEF LegacyStands, Cut
      <4>3. owner # a
        BY <4>1 DEF Cut
      <4>4. owner = b
        BY <4>1, <4>2, <4>3
      <4>q. QED
        BY <4>4 DEF Cut
    <3>3. owner \notin {Ghost, Junk}
      <4>1. pc[a] = "fresh" /\ owner # seen[a]
        BY <1>15, <2>3 DEF FreshRead
      <4>2. LegacyStands
        OBVIOUS
      <4>q. QED
        BY <4>1, <4>2 DEF LegacyStands, Cut
    <3>4. tries[a] > 0 => owner # b /\ (Gone(b) \/ pc[b] = "relRmdir")
      BY <1>15, <2>3 DEF FreshRead
    <3>5. tries[a] < 2
      BY <1>15, <2>3 DEF FreshRead
    <3>q. QED
      BY <2>3, <3>1, <3>2, <3>3, <3>4, <3>5, <1>r DEF LosesTo
  <2>q. QED
    BY <1>0, <2>1, <2>2, <2>3
<1>16. CASE TakeUnlink(p)
  BY <1>16 DEF TakeUnlink
<1>17. CASE TakeRmdir(p)
  BY <1>17 DEF TakeRmdir
<1>18. CASE TakeMkdir(p)
  <2>1. CASE p = b
    BY <1>18, <2>1 DEF TakeMkdir
  <2>2. CASE p = a /\ ~Retry(p)
    BY <1>18, <2>2 DEF TakeMkdir
  <2>3. CASE p = a /\ Retry(p)
    <3>1. UNCHANGED <<seen, taking, dir, owner, marker, tmps>>
      BY <1>18, <2>3 DEF TakeMkdir
    <3>2. Leads(b)
      BY <1>18, <2>3 DEF TakeMkdir
    <3>3. owner \notin {Ghost, Junk}
      BY <1>18, <2>3 DEF TakeMkdir, LegacyStands, Cut
    <3>4. tries[a] > 0 => owner # b /\ (Gone(b) \/ pc[b] = "relRmdir")
      BY <1>18, <2>3 DEF TakeMkdir
    <3>5. tries[a] < 2
      BY <1>18, <2>3 DEF TakeMkdir
    <3>q. QED
      BY <2>3, <3>1, <3>2, <3>3, <3>4, <3>5, <1>r DEF LosesTo
  <2>q. QED
    BY <1>0, <2>1, <2>2, <2>3
<1>19. CASE TakeSettled(p)
  <2>1. CASE p = b
    BY <1>19, <2>1 DEF TakeSettled
  <2>2. CASE p = a /\ ~Retry(p)
    BY <1>19, <2>2 DEF TakeSettled
  <2>3. CASE p = a /\ Retry(p)
    <3>1. UNCHANGED <<seen, taking, dir, owner, marker, tmps>>
      BY <1>19, <2>3 DEF TakeSettled
    <3>2. Leads(b)
      BY <1>19, <2>3 DEF TakeSettled
    <3>3. owner \notin {Ghost, Junk}
      BY <1>19, <2>3 DEF TakeSettled, LegacyStands, Cut
    <3>4. tries[a] > 0 => owner # b /\ (Gone(b) \/ pc[b] = "relRmdir")
      BY <1>19, <2>3 DEF TakeSettled
    <3>5. tries[a] < 2
      BY <1>19, <2>3 DEF TakeSettled
    <3>q. QED
      BY <2>3, <3>1, <3>2, <3>3, <3>4, <3>5, <1>r DEF LosesTo
  <2>q. QED
    BY <1>0, <2>1, <2>2, <2>3
<1>20. CASE FinishWork(p)
  BY <1>20 DEF FinishWork
<1>21. CASE FinishBaseline(p)
  BY <1>21 DEF FinishBaseline
<1>22. CASE StartResync(p)
  BY <1>22 DEF StartResync
<1>23. CASE EndResync(p)
  BY <1>23 DEF EndResync
<1>24. CASE OnSigterm(p)
  BY <1>24 DEF OnSigterm
<1>25. CASE OnInterrupt(p)
  BY <1>25 DEF OnInterrupt
<1>26. CASE StopWatch(p)
  BY <1>26 DEF StopWatch
<1>27. CASE DrainWatch(p)
  BY <1>27 DEF DrainWatch
<1>28. CASE ReleaseRead(p)
  BY <1>28 DEF ReleaseRead
<1>29. CASE ReleaseUnlink(p)
  BY <1>29 DEF ReleaseUnlink
<1>30. CASE ReleaseRmdir(p)
  BY <1>30 DEF ReleaseRmdir
<1>31. CASE FinishTail(p)
  BY <1>31 DEF FinishTail
<1>32. CASE Detach(p)
  BY <1>32 DEF Detach
<1>33. CASE Crash(p)
  BY <1>33 DEF Crash
<1>34. CASE \E s \in UserSignals : UserSignal(p, s)
  BY <1>34 DEF UserSignal
<1>q. QED
  BY <1>1, <1>2, <1>3, <1>4, <1>5, <1>6, <1>7, <1>8, <1>9, <1>10, <1>11, <1>12,
     <1>13, <1>14, <1>15, <1>16, <1>17, <1>18, <1>19, <1>20, <1>21, <1>22, <1>23,
     <1>24, <1>25, <1>26, <1>27, <1>28, <1>29, <1>30, <1>31, <1>32, <1>33, <1>34 DEF Step, Environment

InTurns == NobodyBreaks => \A p, q \in Procs : p # q => Turns(p, q)

TurnInv == PairInv /\ InTurns

LEMMA TurnInit == Init => TurnInv
<1> SUFFICES ASSUME Init, NEW p \in Procs, NEW q \in Procs PROVE Turns(p, q)
  BY PairInit DEF TurnInv, InTurns
<1>1. pc[p] = "idle" /\ tries[p] = 0 /\ outcome[p] = "none"
  BY DEF Init
<1>q. QED
  BY <1>1 DEF Turns, Behind, Stands, Taking

\* The flags of the command line do not change.
LEMMA JobsStay == ASSUME NEW p \in Procs, Step(p) \/ Environment(p) PROVE UNCHANGED jobVars
  BY DEF Step, Environment, Launch, TryClaimDir, WriteOwnerTmp, RenameOwner, ReadBack, ReadOwner,
         SettleMissingOwner, ContendForLock, PokeWatchHolder, WriteMarkerTmp, RenameMarker,
         SendTerm, AwaitExit, SendKill, FreshRead, TakeUnlink, TakeRmdir, TakeMkdir,
         TakeSettled, FinishWork, FinishBaseline, StartResync, EndResync, OnSigterm, OnInterrupt,
         StopWatch, DrainWatch, ReleaseRead, ReleaseUnlink, ReleaseRmdir, FinishTail, Detach,
         Crash, UserSignal

LEMMA TurnStep ==
  ASSUME Two, Prompt, MaxAttempts > 2
  PROVE  TurnInv /\ [Next]_vars => TurnInv'
<1> SUFFICES ASSUME TurnInv, [Next]_vars, NobodyBreaks',
                    NEW a \in Procs, NEW b \in Procs, a # b
             PROVE  Turns(a, b)'
  BY PairStep DEF TurnInv, InTurns
<1>1. CASE UNCHANGED vars
  BY <1>1 DEF TurnInv, InTurns, vars, procVars, jobVars, diskVars, NobodyBreaks, Turns, Behind,
     Stands, Taking, Leads, Gone
<1>2. ASSUME NEW p \in Procs, Step(p) \/ Environment(p) PROVE Turns(a, b)'
  <2>1. NobodyBreaks
    BY <1>2, JobsStay DEF jobVars, NobodyBreaks
  <2>2. Turns(a, b) /\ Turns(b, a)
    BY <2>1 DEF TurnInv, InTurns
  <2>3. Meets(a, b) /\ Meets(b, a) /\ TypeOK /\ Targets /\ OwnerAnswers /\ LegacyStands
    BY DEF TurnInv, PairInv, CrowdInv, Inv, DiskInv, Answered, Meeting
  <2>q. QED
    BY <1>2, <2>1, <2>2, <2>3, TwoAtMost, TurnsStep
<1>q. QED
  BY <1>1, <1>2 DEF Next, Rest

\* Of two invocations neither turns the other away more than twice, so that three
\* attempts are enough (MAX_ACQUIRE_ATTEMPTS is 25).
THEOREM Settles ==
  ASSUME Two, Prompt, MaxAttempts > 2 PROVE Spec => []ContentionSettles
<1>1. TurnInv => ContentionSettles
  <2> SUFFICES ASSUME TurnInv, NobodyBreaks, NEW p \in Procs PROVE outcome[p] # "unsettled"
    BY DEF ContentionSettles
  <2>1. PICK q \in Procs : q # p
    BY DEF Two
  <2>q. QED
    BY <2>1 DEF TurnInv, InTurns, Turns
<1>q. QED
  BY <1>1, TurnInit, TurnStep, PTL DEF Spec
=============================================================================
