--------------------------- MODULE McpModelProofs ---------------------------
(***************************************************************************)
(* Facts about the model state for any number of servers, callers, edits,  *)
(* syncs and reloads.                                                      *)
(***************************************************************************)
EXTENDS McpModelState, TLAPS

\* While a server is warming, a call of warmStart is under way, and who waits,
\* waits for a server that is warming.
Awaited ==
  /\ \A s \in Servers : status[s] = "warming" => \E w \in Warms : task[s][w] # NoBuild
  /\ \A c \in Callers : caller[c].at = "waiting" => status[Home[c]] = "warming"

\* A child that is yet to write has read the project since the last sync, or is
\* marked.
Marked ==
  \A s \in Servers, t \in Tasks :
     task[s][t].stage \in {"generated", "open"} /\ task[s][t].ver < synced => task[s][t].straddles

Inv == TypeOK /\ Awaited /\ ErrorIsNews /\ Marked /\ CacheFollowsSync

\* The parts of the types that speak of one kind of state each.
StateTypes ==
  /\ status \in [Servers -> {"idle", "warming", "ready", "error"}]
  /\ artifact \in [Servers -> Versions \cup {None}]
  /\ error \in [Servers -> BOOLEAN]
  /\ promise \in [Servers -> Versions \cup {None, Pending}]
  /\ \A s \in Servers : (promise[s] = Pending) <=> (status[s] \in {"idle", "warming"})
  /\ \A s \in Servers : status[s] = "ready" => artifact[s] # None

TaskTypes == task \in [Servers -> [Tasks -> [stage : Stages, ver : Versions, straddles : BOOLEAN]]]

CallerTypes ==
  caller \in [Callers ->
    [at : {"idle", "waiting", "orphan", "told", "late"},
     failed : BOOLEAN, told : {"nothing", "model", "error", "loading"}]]

DiskTypes == src \in Versions /\ synced \in 0..src /\ file \in Models \cup {None, Torn}

RunTypes == up \in Teams /\ reloads \in 0..MaxReloads[up]

\* What the proofs use of the constants.
LEMMA Constants == /\ None # Torn /\ None # Pending /\ None \notin Versions /\ Pending \notin Versions
                   /\ 0 \notin Warms /\ 0 \in Versions /\ Versions \subseteq Nat
BY McpAssumption DEF McpAssumption, Versions

LEMMA TypeParts == TypeOK <=> StateTypes /\ TaskTypes /\ CallerTypes /\ DiskTypes /\ RunTypes
BY DEF TypeOK, StateTypes, TaskTypes, CallerTypes, DiskTypes, RunTypes

LEMMA TypesNext ==
  StateTypes' /\ TaskTypes' /\ CallerTypes' /\ DiskTypes' /\ RunTypes' => TypeOK'
BY DEF TypeOK, StateTypes, TaskTypes, CallerTypes, DiskTypes, RunTypes

LEMMA InitInv == Init => Inv
<1> SUFFICES ASSUME Init PROVE Inv
  OBVIOUS
<1> USE McpAssumption DEF McpAssumption
<1>1. StateTypes
  BY DEF Init, StateTypes
<1>2. TaskTypes
  BY DEF At, Init, TaskTypes, NoBuild, Stages, Versions
<1>3. CallerTypes
  BY DEF Init, CallerTypes, Idle
<1>4. DiskTypes
  <2>1. ASSUME NEW s \in Servers PROVE [ver |-> 0, by |-> s, straddles |-> FALSE] \in Models
    BY DEF Models, Versions
  <2>q. QED
    BY <2>1 DEF Init, DiskTypes, Versions
<1>5. RunTypes
  BY DEF Init, RunTypes
<1>6. Awaited /\ ErrorIsNews
  BY DEF Init, Awaited, ErrorIsNews, Idle
<1>7. Marked
  BY DEF At, Init, Marked, NoBuild
<1>8. CacheFollowsSync
  BY DEF Init, CacheFollowsSync, Models, Versions
<1>q. QED
  BY <1>1, <1>2, <1>3, <1>4, <1>5, <1>6, <1>7, <1>8, TypeParts DEF Inv

\* A settlement with a model wakes everyone who waits on the server.
LEMMA ReadySettles ==
  ASSUME Inv, NEW s \in Servers, NEW v \in Versions, SetReady(s, v)
  PROVE  /\ StateTypes' /\ CallerTypes' /\ ErrorIsNews'
         /\ status' = [status EXCEPT ![s] = "ready"]
         /\ \A c \in Callers : caller'[c].at = "waiting" => caller[c].at = "waiting" /\ Home[c] # s
<1>0. StateTypes /\ CallerTypes /\ ErrorIsNews
  BY TypeParts DEF Inv
<1>1. StateTypes'
  BY <1>0, Constants DEF SetReady, Resolve, StateTypes
<1>2. /\ DOMAIN caller' = Callers
      /\ \A c \in Callers :
           caller'[c] = IF Home[c] = s /\ caller[c].at = "waiting"
                        THEN [at |-> "told", told |-> "model", failed |-> caller[c].failed]
                        ELSE caller[c]
  BY <1>0, Constants DEF SetReady, Resolve, Waiters, Word, CallerTypes
<1>3. caller' = [c \in Callers |-> caller'[c]]
  BY DEF SetReady, Resolve, Waiters
<1>4. CallerTypes'
  <2>1. ASSUME NEW c \in Callers
        PROVE  caller'[c] \in [at : {"idle", "waiting", "orphan", "told", "late"},
                               failed : BOOLEAN, told : {"nothing", "model", "error", "loading"}]
    <3>1. CASE Home[c] = s /\ caller[c].at = "waiting"
      <4>1. caller[c].failed \in BOOLEAN
        BY <1>0 DEF CallerTypes
      <4>q. QED
        BY <1>2, <3>1, <4>1
    <3>2. CASE ~(Home[c] = s /\ caller[c].at = "waiting")
      BY <1>0, <1>2, <3>2 DEF CallerTypes
    <3>q. QED
      BY <3>1, <3>2
  <2>q. QED
    BY <1>3, <2>1 DEF CallerTypes
<1>5. ErrorIsNews'
  <2>1. ASSUME NEW c \in Callers, caller'[c].at = "told", caller'[c].told = "error"
        PROVE  caller'[c].failed
    <3>1. CASE Home[c] = s /\ caller[c].at = "waiting"
      BY <1>2, <2>1, <3>1
    <3>2. CASE ~(Home[c] = s /\ caller[c].at = "waiting")
      BY <1>0, <1>2, <2>1, <3>2 DEF ErrorIsNews
    <3>q. QED
      BY <3>1, <3>2
  <2>q. QED
    BY <2>1 DEF ErrorIsNews
<1>6. \A c \in Callers : caller'[c].at = "waiting" => caller[c].at = "waiting" /\ Home[c] # s
  BY <1>2
<1>q. QED
  BY <1>1, <1>4, <1>5, <1>6 DEF SetReady

\* So does a settlement with an error, which they are told as theirs.
LEMMA ErrorSettles ==
  ASSUME Inv, NEW s \in Servers, SetError(s)
  PROVE  /\ StateTypes' /\ CallerTypes' /\ ErrorIsNews'
         /\ status' = [status EXCEPT ![s] = "error"]
         /\ \A c \in Callers : caller'[c].at = "waiting" => caller[c].at = "waiting" /\ Home[c] # s
<1>0. StateTypes /\ CallerTypes /\ ErrorIsNews
  BY TypeParts DEF Inv
<1>1. StateTypes'
  BY <1>0, Constants DEF SetError, Resolve, StateTypes
<1>2. /\ DOMAIN caller' = Callers
      /\ \A c \in Callers :
           caller'[c] = IF Home[c] = s /\ caller[c].at = "waiting"
                        THEN [at |-> "told", told |-> "error", failed |-> TRUE]
                        ELSE caller[c]
  BY <1>0, Constants DEF SetError, Resolve, Waiters, Word, CallerTypes
<1>3. caller' = [c \in Callers |-> caller'[c]]
  BY DEF SetError, Resolve, Waiters
<1>4. CallerTypes'
  <2>1. ASSUME NEW c \in Callers
        PROVE  caller'[c] \in [at : {"idle", "waiting", "orphan", "told", "late"},
                               failed : BOOLEAN, told : {"nothing", "model", "error", "loading"}]
    <3>1. CASE Home[c] = s /\ caller[c].at = "waiting"
      <4>1. [at |-> "told", told |-> "error", failed |-> TRUE] \in
              [at : {"idle", "waiting", "orphan", "told", "late"},
               failed : BOOLEAN, told : {"nothing", "model", "error", "loading"}]
        OBVIOUS
      <4>q. QED
        BY <1>2, <3>1, <4>1
    <3>2. CASE ~(Home[c] = s /\ caller[c].at = "waiting")
      BY <1>0, <1>2, <3>2 DEF CallerTypes
    <3>q. QED
      BY <3>1, <3>2
  <2>q. QED
    BY <1>3, <2>1 DEF CallerTypes
<1>5. ErrorIsNews'
  <2>1. ASSUME NEW c \in Callers, caller'[c].at = "told", caller'[c].told = "error"
        PROVE  caller'[c].failed
    <3>1. CASE Home[c] = s /\ caller[c].at = "waiting"
      BY <1>2, <2>1, <3>1
    <3>2. CASE ~(Home[c] = s /\ caller[c].at = "waiting")
      BY <1>0, <1>2, <2>1, <3>2 DEF ErrorIsNews
    <3>q. QED
      BY <3>1, <3>2
  <2>q. QED
    BY <2>1 DEF ErrorIsNews
<1>6. \A c \in Callers : caller'[c].at = "waiting" => caller[c].at = "waiting" /\ Home[c] # s
  BY <1>2
<1>q. QED
  BY <1>1, <1>4, <1>5, <1>6 DEF SetError

\* A warm-up that begins is under way.
LEMMA WarmBegins ==
  ASSUME Inv, NEW s \in Servers, BeginWarm(s)
  PROVE  /\ TaskTypes' /\ (synced' = synced => Marked')
         /\ status' = [status EXCEPT ![s] = "warming"]
         /\ \E w \in Warms : task'[s][w] # NoBuild
         /\ \A z \in Servers \ {s} : task'[z] = task[z]
<1>0. TaskTypes /\ Marked
  BY TypeParts DEF Inv
<1>1. PICK w \in Warms :
        task' = [task EXCEPT ![s][w] = At(IF file = None THEN "child" ELSE "cache")]
  <2>1. {w \in Warms : task[s][w] = NoBuild} # {}
    BY DEF BeginWarm
  <2>2. (CHOOSE w \in {w \in Warms : task[s][w] = NoBuild} : TRUE) \in Warms
    BY <2>1
  <2>q. QED
    BY <2>2 DEF BeginWarm
<1>2. PICK me \in [stage : {"child", "cache"}, ver : {0}, straddles : BOOLEAN] :
        task' = [task EXCEPT ![s][w] = me]
  <2>1. PICK stage \in {"child", "cache"} : task' = [task EXCEPT ![s][w] = At(stage)]
    BY <1>1
  <2>2. At(stage) = [stage |-> stage, ver |-> 0, straddles |-> FALSE]
    BY DEF At
  <2>3. [stage |-> stage, ver |-> 0, straddles |-> FALSE]
          \in [stage : {"child", "cache"}, ver : {0}, straddles : BOOLEAN]
    OBVIOUS
  <2>q. QED
    BY <2>1, <2>2, <2>3
<1>3. w \in Tasks
  BY DEF Tasks
<1>4. me \in [stage : Stages, ver : Versions, straddles : BOOLEAN]
  BY Constants DEF Stages
<1>5. TaskTypes'
  BY <1>0, <1>2, <1>3, <1>4 DEF TaskTypes
<1>6. task'[s][w] = me /\ me.stage \in {"child", "cache"}
  BY <1>0, <1>2, <1>3 DEF TaskTypes
<1>7. ASSUME synced' = synced PROVE Marked'
  <2>1. ASSUME NEW z \in Servers, NEW t \in Tasks
        PROVE  \/ task'[z][t] = task[z][t]
               \/ task'[z][t].stage \in {"child", "cache"}
    BY <1>0, <1>2, <1>3 DEF TaskTypes
  <2>q. QED
    BY <1>0, <1>7, <2>1 DEF Marked
<1>8. task'[s][w] # NoBuild
  BY <1>6 DEF At, NoBuild
<1>9. \A z \in Servers \ {s} : task'[z] = task[z]
  BY <1>0, <1>2 DEF TaskTypes
<1>q. QED
  BY <1>5, <1>7, <1>8, <1>9 DEF BeginWarm

\* Three ways in which Awaited survives: nothing that counts has changed, a server
\* has settled and woken its waiters, or it begins to warm.
LEMMA AwaitedKept ==
  ASSUME Inv, status' = status,
         \A z \in Servers, w \in Warms : task[z][w] # NoBuild => task'[z][w] # NoBuild,
         \A c \in Callers : caller'[c].at = "waiting" => caller[c].at = "waiting"
  PROVE  Awaited'
BY DEF Inv, Awaited

LEMMA AwaitedSettled ==
  ASSUME Inv, NEW s \in Servers, NEW st \in {"ready", "error"},
         status' = [status EXCEPT ![s] = st],
         \A z \in Servers \ {s}, w \in Warms : task'[z][w] = task[z][w],
         \A c \in Callers : caller'[c].at = "waiting" => caller[c].at = "waiting" /\ Home[c] # s
  PROVE  Awaited'
<1>1. StateTypes
  BY TypeParts DEF Inv
<1>2. \A c \in Callers : Home[c] \in Servers
  BY McpAssumption DEF McpAssumption
<1>q. QED
  BY <1>1, <1>2 DEF Inv, Awaited, StateTypes

LEMMA AwaitedWarming ==
  ASSUME Inv, NEW s \in Servers, BeginWarm(s),
         \A c \in Callers : caller'[c].at = "waiting" => caller[c].at = "waiting" \/ Home[c] = s
  PROVE  Awaited'
<1>1. StateTypes
  BY TypeParts DEF Inv
<1>2. \A c \in Callers : Home[c] \in Servers
  BY McpAssumption DEF McpAssumption
<1>q. QED
  BY <1>1, <1>2, WarmBegins DEF Inv, Awaited, StateTypes

\* The file and the syncs: what the steps that leave them alone keep.
LEMMA DiskKept ==
  ASSUME Inv, UNCHANGED <<src, synced, file>> PROVE DiskTypes' /\ CacheFollowsSync'
BY TypeParts DEF Inv, DiskTypes, CacheFollowsSync, Models, Versions

\* A task that does not hold what its child has read is of no interest to Marked.
LEMMA MarkedKept ==
  ASSUME Inv, synced' = synced,
         \A z \in Servers, u \in Tasks :
            \/ task'[z][u] = task[z][u]
            \/ task'[z][u].stage \notin {"generated", "open"}
  PROVE  Marked'
BY DEF Inv, Marked

LEMMA WarmStartStep == ASSUME Inv, NEW s \in Servers, WarmStart(s) PROVE Inv'
<1>0. StateTypes /\ CallerTypes /\ RunTypes
  BY TypeParts DEF Inv
<1>1. TaskTypes' /\ Marked' /\ status' = [status EXCEPT ![s] = "warming"]
  BY WarmBegins DEF WarmStart, diskVars
<1>2. StateTypes'
  BY <1>0, <1>1 DEF WarmStart, ResetAfterError, StateTypes
<1>3. Awaited'
  BY AwaitedWarming DEF WarmStart
<1>4. CallerTypes' /\ RunTypes' /\ ErrorIsNews'
  BY <1>0 DEF WarmStart, runVars, CallerTypes, RunTypes, Inv, ErrorIsNews
<1>5. DiskTypes' /\ CacheFollowsSync'
  BY DiskKept DEF WarmStart, diskVars
<1>q. QED
  BY <1>1, <1>2, <1>3, <1>4, <1>5, TypesNext DEF Inv

LEMMA ReloadStep == ASSUME Inv, NEW s \in Servers, Reload(s) PROVE Inv'
<1>0. StateTypes /\ CallerTypes /\ RunTypes
  BY TypeParts DEF Inv
<1>1. TaskTypes' /\ Marked' /\ status' = [status EXCEPT ![s] = "warming"]
  BY WarmBegins DEF Reload, diskVars
<1>2. StateTypes'
  BY <1>0, <1>1 DEF Reload, StateTypes
<1>3. /\ caller' = [c \in Callers |-> caller'[c]]
      /\ \A c \in Callers :
           caller'[c] = IF Home[c] = s /\ caller[c].at = "waiting"
                        THEN [caller[c] EXCEPT !.at = "orphan"] ELSE caller[c]
  BY DEF Reload, Waiters
<1>4. CallerTypes'
  BY <1>0, <1>3 DEF CallerTypes
<1>5. ErrorIsNews'
  BY <1>0, <1>3 DEF ErrorIsNews, CallerTypes, Inv
<1>6. Awaited'
  BY <1>0, <1>3, AwaitedWarming DEF Reload, CallerTypes
<1>7. RunTypes'
  BY <1>0, McpAssumption DEF Reload, RunTypes, McpAssumption
<1>8. DiskTypes' /\ CacheFollowsSync'
  BY DiskKept DEF Reload, diskVars
<1>q. QED
  BY <1>1, <1>2, <1>4, <1>5, <1>6, <1>7, <1>8, TypesNext DEF Inv

LEMMA AskStep == ASSUME Inv, NEW c \in Callers, Ask(c) PROVE Inv'
<1> DEFINE s == Home[c]
           asking == [at |-> "waiting", failed |-> FALSE, told |-> "nothing"]
<1>0. StateTypes /\ TaskTypes /\ CallerTypes /\ RunTypes
  BY TypeParts DEF Inv
<1>1. s \in Servers
  BY McpAssumption DEF McpAssumption
<1>2. DiskTypes' /\ CacheFollowsSync' /\ RunTypes'
  BY <1>0, DiskKept DEF Ask, diskVars, runVars, RunTypes
<1>3. CASE artifact[s] # None
  <2>1. /\ caller' = [caller EXCEPT ![c] = [at |-> "told", failed |-> FALSE, told |-> "model"]]
        /\ UNCHANGED <<stateVars, task, synced>>
    BY <1>3 DEF Ask, Told, Idle, stateVars, diskVars
  <2>2. StateTypes' /\ TaskTypes' /\ Marked'
    BY <1>0, <2>1, MarkedKept DEF stateVars, StateTypes, TaskTypes
  <2>3. CallerTypes'
    BY <1>0, <2>1 DEF CallerTypes
  <2>4. ErrorIsNews'
    BY <1>0, <2>1 DEF ErrorIsNews, CallerTypes, Inv
  <2>5. Awaited'
    BY <1>0, <2>1, AwaitedKept DEF stateVars, CallerTypes
  <2>q. QED
    BY <1>2, <2>2, <2>3, <2>4, <2>5, TypesNext DEF Inv
<1>4. CASE artifact[s] = None
  <2>0. status[s] # "ready"
    BY <1>0, <1>1, <1>4 DEF StateTypes
  <2>1. promise'[s] = Pending /\ StateTypes' /\ TaskTypes' /\ Marked'
    <3>1. CASE status[s] \in {"idle", "error"}
      <4>1. BeginWarm(s) /\ ResetAfterError(s) /\ UNCHANGED <<artifact, error, synced>>
        BY <1>4, <3>1 DEF Ask, diskVars
      <4>2. TaskTypes' /\ Marked' /\ status' = [status EXCEPT ![s] = "warming"]
        BY <1>1, <4>1, WarmBegins
      <4>q. QED
        BY <1>0, <1>1, <3>1, <4>1, <4>2 DEF ResetAfterError, StateTypes
    <3>2. CASE status[s] = "warming"
      <4>1. UNCHANGED <<stateVars, task, synced>>
        BY <1>4, <3>2 DEF Ask, stateVars, diskVars
      <4>q. QED
        BY <1>0, <1>1, <3>2, <4>1, MarkedKept DEF stateVars, StateTypes, TaskTypes
    <3>q. QED
      BY <1>0, <1>1, <2>0, <3>1, <3>2 DEF StateTypes
  <2>2. caller' = [caller EXCEPT ![c] = asking]
    BY <1>4, <2>1 DEF Ask, Idle
  <2>3. CallerTypes'
    BY <1>0, <2>2 DEF CallerTypes
  <2>4. ErrorIsNews'
    BY <1>0, <2>2 DEF ErrorIsNews, CallerTypes, Inv
  <2>5. \A d \in Callers : caller'[d].at = "waiting" => caller[d].at = "waiting" \/ Home[d] = s
    BY <1>0, <2>2 DEF CallerTypes
  <2>6. Awaited'
    <3>1. CASE status[s] \in {"idle", "error"}
      BY <1>1, <1>4, <2>5, <3>1, AwaitedWarming DEF Ask
    <3>2. CASE status[s] = "warming"
      <4>1. status' = status /\ task' = task
        BY <1>4, <3>2 DEF Ask
      <4>q. QED
        BY <1>0, <2>2, <3>2, <4>1 DEF Inv, Awaited, CallerTypes
    <3>q. QED
      BY <1>0, <1>1, <2>0, <3>1, <3>2 DEF StateTypes
  <2>q. QED
    BY <1>2, <2>1, <2>3, <2>4, <2>6, TypesNext DEF Inv
<1>q. QED
  BY <1>3, <1>4

\* A caller whose wait is over, by its timer or with its answer.
LEMMA CallerLeaves ==
  ASSUME Inv, NEW c \in Callers, Timeout(c) \/ Done(c) PROVE Inv'
<1>0. StateTypes /\ TaskTypes /\ CallerTypes /\ RunTypes
  BY TypeParts DEF Inv
<1>1. /\ UNCHANGED <<status, artifact, error, promise, task, src, synced, file, up, reloads>>
      /\ \E x \in [at : {"idle", "late"}, failed : BOOLEAN,
                   told : {"nothing", "error", "loading"}] : caller' = [caller EXCEPT ![c] = x]
  <2>1. CASE Timeout(c)
    <3> DEFINE x == Told(caller[c], "late", Word(None, error[Home[c]]))
    <3>1. caller' = [caller EXCEPT ![c] = x]
      BY <2>1 DEF Timeout
    <3>2. Word(None, error[Home[c]]) \in {"error", "loading"}
      BY DEF Word
    <3>3. x \in [at : {"idle", "late"}, failed : BOOLEAN, told : {"nothing", "error", "loading"}]
      BY <1>0, <3>2 DEF Told, CallerTypes
    <3>q. QED
      BY <2>1, <3>1, <3>3 DEF Timeout, stateVars, diskVars, runVars
  <2>2. CASE Done(c)
    <3>1. [at |-> "idle", failed |-> FALSE, told |-> "nothing"] \in
            [at : {"idle", "late"}, failed : BOOLEAN, told : {"nothing", "error", "loading"}]
      OBVIOUS
    <3>q. QED
      BY <2>2, <3>1 DEF Done, Idle, stateVars, diskVars, runVars
  <2>q. QED
    BY <2>1, <2>2
<1>2. PICK x \in [at : {"idle", "late"}, failed : BOOLEAN,
                  told : {"nothing", "error", "loading"}] : caller' = [caller EXCEPT ![c] = x]
  BY <1>1
<1>3. CallerTypes'
  BY <1>0, <1>2 DEF CallerTypes
<1>4. ErrorIsNews'
  BY <1>0, <1>2 DEF ErrorIsNews, CallerTypes, Inv
<1>5. Awaited'
  BY <1>0, <1>1, <1>2, AwaitedKept DEF CallerTypes
<1>6. StateTypes' /\ TaskTypes' /\ RunTypes' /\ Marked'
  BY <1>0, <1>1, MarkedKept DEF StateTypes, TaskTypes, RunTypes
<1>7. DiskTypes' /\ CacheFollowsSync'
  BY <1>1, DiskKept
<1>q. QED
  BY <1>3, <1>4, <1>5, <1>6, <1>7, TypesNext DEF Inv

\* A task of s ends, and its server is settled, one way or the other.
LEMMA TaskSettles ==
  ASSUME Inv, NEW s \in Servers, NEW t \in Tasks,
         \/ \E v \in Versions : SetReady(s, v)
         \/ SetError(s),
         \A z \in Servers \ {s} : task'[z] = task[z],
         TaskTypes', Marked', UNCHANGED diskVars, UNCHANGED runVars
  PROVE  Inv'
<1>1. PICK st \in {"ready", "error"} :
        /\ StateTypes' /\ CallerTypes' /\ ErrorIsNews'
        /\ status' = [status EXCEPT ![s] = st]
        /\ \A c \in Callers : caller'[c].at = "waiting" => caller[c].at = "waiting" /\ Home[c] # s
  BY ReadySettles, ErrorSettles
<1>2. Awaited'
  BY <1>1, AwaitedSettled
<1>3. DiskTypes' /\ CacheFollowsSync' /\ RunTypes'
  BY DiskKept, TypeParts DEF Inv, diskVars, runVars, RunTypes
<1>q. QED
  BY <1>1, <1>2, <1>3, TypesNext DEF Inv

\* A task goes on; what is told stays as it is.
LEMMA TaskGoesOn ==
  ASSUME Inv, NEW s \in Servers, NEW t \in Tasks,
         NEW me \in [stage : Stages, ver : Versions, straddles : BOOLEAN],
         me.stage # "none",
         me.stage \in {"generated", "open"} /\ me.ver < synced => me.straddles,
         task' = [task EXCEPT ![s][t] = me],
         UNCHANGED <<stateVars, caller, src, synced, runVars>>,
         DiskTypes', CacheFollowsSync'
  PROVE  Inv'
<1>0. StateTypes /\ CallerTypes /\ RunTypes
  BY TypeParts DEF Inv
<1>1. /\ TaskTypes'
      /\ \A z \in Servers, u \in Tasks :
           task'[z][u] = IF z = s /\ u = t THEN me ELSE task[z][u]
  BY TypeParts DEF Inv, TaskTypes
<1>2. Marked'
  BY <1>1 DEF Inv, Marked
<1>3. Awaited'
  <2>1. \A z \in Servers, w \in Warms : task[z][w] # NoBuild => task'[z][w] # NoBuild
    BY <1>1 DEF NoBuild, At, Tasks
  <2>q. QED
    BY <2>1, AwaitedKept DEF stateVars
<1>4. StateTypes' /\ CallerTypes' /\ RunTypes' /\ ErrorIsNews'
  BY <1>0 DEF stateVars, runVars, StateTypes, CallerTypes, RunTypes, Inv, ErrorIsNews
<1>q. QED
  BY <1>1, <1>2, <1>3, <1>4, TypesNext DEF Inv

\* A task that is over, or starts again, is well typed and of no interest to Marked.
LEMMA FreshTask ==
  ASSUME NEW x \in {"none", "cache", "child", "written"}
  PROVE  /\ At(x) \in [stage : Stages, ver : Versions, straddles : BOOLEAN]
         /\ At(x).stage = x
BY Constants DEF At, Stages

LEMMA ReadCacheStep == ASSUME Inv, NEW s \in Servers, NEW w \in Warms, ReadCache(s, w) PROVE Inv'
<1>0. TaskTypes /\ w \in Tasks /\ 0 \in Tasks /\ w # 0
  BY TypeParts, Constants DEF Inv, Tasks
<1>1. CASE file \in Models
  <2>1. /\ SetReady(s, file.ver) /\ file.ver \in Versions
        /\ UNCHANGED <<diskVars, runVars>>
        /\ task' = [task EXCEPT ![s][w] = NoBuild,
                                ![s][0] = IF @ = NoBuild THEN At("child") ELSE @]
    BY <1>1 DEF ReadCache, Models
  <2>2. \A z \in Servers \ {s} : task'[z] = task[z]
    BY <1>0, <2>1 DEF TaskTypes
  <2>3. PICK x \in [stage : Stages, ver : Versions, straddles : BOOLEAN] :
          /\ x = task[s][0] \/ x.stage = "child"
          /\ task' = [task EXCEPT ![s] = [@ EXCEPT ![w] = NoBuild, ![0] = x]]
    <3>1. CASE task[s][0] = NoBuild
      BY <1>0, <2>1, <3>1, FreshTask DEF TaskTypes
    <3>2. CASE task[s][0] # NoBuild
      <4>1. task[s][0] \in [stage : Stages, ver : Versions, straddles : BOOLEAN]
        BY <1>0 DEF TaskTypes
      <4>q. QED
        BY <1>0, <2>1, <3>2, <4>1 DEF TaskTypes
    <3>q. QED
      BY <3>1, <3>2
  <2>4. TaskTypes'
    BY <1>0, <2>3, FreshTask DEF TaskTypes, NoBuild
  <2>5. Marked'
    <3>1. \A z \in Servers, u \in Tasks :
             \/ task'[z][u] = task[z][u]
             \/ task'[z][u].stage \notin {"generated", "open"}
      BY <1>0, <2>3, FreshTask DEF TaskTypes, NoBuild
    <3>q. QED
      BY <2>1, <3>1, MarkedKept DEF diskVars
  <2>q. QED
    BY <1>0, <2>1, <2>2, <2>4, <2>5, TaskSettles
<1>2. CASE file \notin Models
  <2>1. /\ task' = [task EXCEPT ![s][w] = At("child")]
        /\ UNCHANGED <<stateVars, caller, diskVars, runVars>>
    BY <1>2 DEF ReadCache
  <2>q. QED
    BY <1>0, <2>1, FreshTask, DiskKept, TaskGoesOn DEF diskVars
<1>q. QED
  BY <1>1, <1>2

LEMMA BuildFailsStep ==
  ASSUME Inv, NEW s \in Servers, NEW t \in Tasks, BuildFails(s, t), UNCHANGED <<diskVars, runVars>>
  PROVE  Inv'
<1>0. StateTypes /\ TaskTypes /\ CallerTypes /\ RunTypes
  BY TypeParts DEF Inv
<1>1. NoBuild \in [stage : Stages, ver : Versions, straddles : BOOLEAN] /\ NoBuild.stage = "none"
  BY FreshTask DEF NoBuild
<1>2. /\ TaskTypes'
      /\ \A z \in Servers, u \in Tasks :
           task'[z][u] = IF z = s /\ u = t THEN NoBuild ELSE task[z][u]
  <2>1. task' = [task EXCEPT ![s][t] = NoBuild]
    BY DEF BuildFails
  <2>q. QED
    BY <1>0, <1>1, <2>1 DEF TaskTypes
<1>3. Marked'
  BY <1>1, <1>2, MarkedKept DEF diskVars
<1>4. \A z \in Servers \ {s} : task'[z] = task[z]
  BY <1>0 DEF BuildFails, TaskTypes
<1>5. CASE t # 0
  BY <1>2, <1>3, <1>4, <1>5, TaskSettles DEF BuildFails
<1>6. CASE t = 0
  <2>1. /\ error' = [error EXCEPT ![s] = TRUE]
        /\ UNCHANGED <<status, artifact, promise>>
        /\ caller' = [c \in Callers |-> caller'[c]]
        /\ \A c \in Callers :
             caller'[c] = IF Home[c] = s /\ caller[c].at = "waiting"
                          THEN [caller[c] EXCEPT !.failed = TRUE] ELSE caller[c]
    BY <1>6 DEF BuildFails, Waiters
  <2>2. StateTypes'
    BY <1>0, <2>1 DEF StateTypes
  <2>3. CallerTypes'
    BY <1>0, <2>1 DEF CallerTypes
  <2>4. ErrorIsNews'
    BY <1>0, <2>1 DEF ErrorIsNews, CallerTypes, Inv
  <2>5. Awaited'
    <3>1. \A z \in Servers, w \in Warms : task[z][w] # NoBuild => task'[z][w] # NoBuild
      BY <1>2, <1>6, Constants DEF Tasks
    <3>2. \A c \in Callers : caller'[c].at = "waiting" => caller[c].at = "waiting"
      BY <1>0, <2>1 DEF CallerTypes
    <3>q. QED
      BY <2>1, <3>1, <3>2, AwaitedKept
  <2>6. DiskTypes' /\ CacheFollowsSync' /\ RunTypes'
    BY <1>0, DiskKept DEF diskVars, runVars, RunTypes
  <2>q. QED
    BY <1>2, <1>3, <2>2, <2>3, <2>4, <2>5, <2>6, TypesNext DEF Inv
<1>q. QED
  BY <1>5, <1>6

LEMMA ReadBackStep ==
  ASSUME Inv, NEW s \in Servers, NEW t \in Tasks, ReadBack(s, t) PROVE Inv'
<1>0. TaskTypes
  BY TypeParts DEF Inv
<1>1. CASE file \in Models
  <2>1. /\ SetReady(s, file.ver) /\ file.ver \in Versions
        /\ UNCHANGED <<diskVars, runVars>>
        /\ task' = [task EXCEPT ![s][t] = NoBuild]
    BY <1>1 DEF ReadBack, Models
  <2>2. NoBuild \in [stage : Stages, ver : Versions, straddles : BOOLEAN] /\ NoBuild.stage = "none"
    BY FreshTask DEF NoBuild
  <2>3. TaskTypes' /\ \A z \in Servers, u \in Tasks :
                         task'[z][u] = IF z = s /\ u = t THEN NoBuild ELSE task[z][u]
    BY <1>0, <2>1, <2>2 DEF TaskTypes
  <2>4. Marked'
    BY <2>1, <2>2, <2>3, MarkedKept DEF diskVars
  <2>5. \A z \in Servers \ {s} : task'[z] = task[z]
    BY <1>0, <2>1 DEF TaskTypes
  <2>q. QED
    BY <2>1, <2>3, <2>4, <2>5, TaskSettles
<1>2. CASE file \notin Models
  BY <1>2, BuildFailsStep DEF ReadBack
<1>q. QED
  BY <1>1, <1>2

\* A child reads the project as it is, which no sync is ahead of.
LEMMA ChildReadsStep ==
  ASSUME Inv, NEW s \in Servers, NEW t \in Tasks, ChildReads(s, t) PROVE Inv'
<1>0. TaskTypes /\ DiskTypes
  BY TypeParts DEF Inv
<1> DEFINE me == [task[s][t] EXCEPT !.stage = "generated", !.ver = src]
<1>1. task[s][t] \in [stage : Stages, ver : Versions, straddles : BOOLEAN]
  BY <1>0 DEF TaskTypes
<1>2. task' = [task EXCEPT ![s][t] = me]
  BY <1>0 DEF ChildReads, TaskTypes
<1>3. me \in [stage : Stages, ver : Versions, straddles : BOOLEAN] /\ me.stage = "generated" /\ me.ver = src
  BY <1>0, <1>1 DEF Stages, DiskTypes
<1>4. ~(src < synced)
  BY <1>0, Constants DEF DiskTypes
<1>q. QED
  BY <1>2, <1>3, <1>4, DiskKept, TaskGoesOn DEF ChildReads, diskVars

LEMMA ChildOpensStep ==
  ASSUME Inv, NEW s \in Servers, NEW t \in Tasks, ChildOpens(s, t) PROVE Inv'
<1>0. TaskTypes /\ DiskTypes
  BY TypeParts DEF Inv
<1> DEFINE me == [task[s][t] EXCEPT !.stage = "open"]
<1>1. task[s][t] \in [stage : Stages, ver : Versions, straddles : BOOLEAN]
  BY <1>0 DEF TaskTypes
<1>2. task' = [task EXCEPT ![s][t] = me]
  BY <1>0 DEF ChildOpens, TaskTypes
<1>3. /\ me \in [stage : Stages, ver : Versions, straddles : BOOLEAN] /\ me.stage = "open"
      /\ me.ver = task[s][t].ver /\ me.straddles = task[s][t].straddles
  BY <1>1 DEF Stages
<1>4. me.ver < synced => me.straddles
  BY <1>3 DEF ChildOpens, Inv, Marked
<1>5. DiskTypes' /\ CacheFollowsSync'
  BY <1>0 DEF ChildOpens, DiskTypes, CacheFollowsSync, Inv
<1>q. QED
  BY <1>2, <1>3, <1>4, <1>5, TaskGoesOn DEF ChildOpens

LEMMA ChildWritesStep ==
  ASSUME Inv, NEW s \in Servers, NEW t \in Tasks, ChildWrites(s, t) PROVE Inv'
<1>0. TaskTypes /\ DiskTypes
  BY TypeParts DEF Inv
<1> DEFINE me == task[s][t]
           new == [ver |-> me.ver, by |-> s, straddles |-> me.straddles]
<1>1. me \in [stage : Stages, ver : Versions, straddles : BOOLEAN]
  BY <1>0 DEF TaskTypes
<1>2. /\ task' = [task EXCEPT ![s][t] = At("written")]
      /\ file' = file \/ (me.stage = "open" /\ file' \in {new, Torn})
      /\ UNCHANGED <<stateVars, caller, src, synced, runVars>>
  BY DEF ChildWrites
<1>3. new \in Models /\ new.ver = me.ver /\ new.straddles = me.straddles
  BY <1>1 DEF Models
<1>4. DiskTypes'
  BY <1>0, <1>2, <1>3 DEF DiskTypes
<1>5. CacheFollowsSync'
  <2>1. CASE file' = file
    BY <1>2, <2>1 DEF CacheFollowsSync, Inv, Models, Versions
  <2>2. CASE me.stage = "open" /\ file' = new
    BY <1>2, <1>3, <2>2 DEF CacheFollowsSync, Inv, Marked
  <2>3. CASE file' = Torn
    BY <2>3, McpAssumption DEF CacheFollowsSync
  <2>q. QED
    BY <1>2, <2>1, <2>2, <2>3
<1>q. QED
  BY <1>2, <1>4, <1>5, FreshTask, TaskGoesOn

LEMMA ChildFailsStep ==
  ASSUME Inv, NEW s \in Servers, NEW t \in Tasks, ChildFails(s, t) PROVE Inv'
BY BuildFailsStep DEF ChildFails

LEMMA EditStep == ASSUME Inv, Edit PROVE Inv'
<1>0. StateTypes /\ TaskTypes /\ CallerTypes /\ DiskTypes /\ RunTypes
  BY TypeParts DEF Inv
<1>1. DiskTypes'
  BY <1>0, McpAssumption DEF Edit, DiskTypes, Versions, Models, McpAssumption
<1>2. StateTypes' /\ TaskTypes' /\ CallerTypes' /\ RunTypes'
  BY <1>0 DEF Edit, stateVars, runVars, StateTypes, TaskTypes, CallerTypes, RunTypes
<1>3. Awaited' /\ ErrorIsNews' /\ Marked' /\ CacheFollowsSync'
  BY DEF Edit, stateVars, Inv, Awaited, ErrorIsNews, Marked, CacheFollowsSync
<1>q. QED
  BY <1>1, <1>2, <1>3, TypesNext DEF Inv

\* A sync marks the children that have read the project and have yet to open the
\* file; those that have it open lose it.
LEMMA SyncStep == ASSUME Inv, Sync PROVE Inv'
<1>0. StateTypes /\ TaskTypes /\ CallerTypes /\ DiskTypes /\ RunTypes
  BY TypeParts DEF Inv
<1>1. DiskTypes' /\ CacheFollowsSync'
  BY <1>0, Constants DEF Sync, DiskTypes, CacheFollowsSync
<1>2. StateTypes' /\ CallerTypes' /\ RunTypes' /\ ErrorIsNews'
  BY <1>0 DEF Sync, stateVars, runVars, StateTypes, CallerTypes, RunTypes, ErrorIsNews, Inv
<1>3. ASSUME NEW s \in Servers, NEW t \in Tasks
      PROVE  /\ task'[s][t] \in [stage : Stages, ver : Versions, straddles : BOOLEAN]
             /\ task'[s][t].stage \in {"generated", "open"} => task'[s][t].straddles
             /\ task[s][t] # NoBuild => task'[s][t] # NoBuild
  <2> DEFINE me == task[s][t]
  <2>0. me \in [stage : Stages, ver : Versions, straddles : BOOLEAN]
    BY <1>0 DEF TaskTypes
  <2>1. task'[s][t] = CASE me.stage = "generated" -> [me EXCEPT !.straddles = TRUE]
                        [] me.stage = "open"      -> [me EXCEPT !.stage = "lost"]
                        [] OTHER                  -> me
    BY DEF Sync
  <2>2. CASE me.stage = "generated"
    <3>1. task'[s][t] = [me EXCEPT !.straddles = TRUE]
      BY <2>1, <2>2
    <3>2. task'[s][t] = [stage |-> "generated", ver |-> me.ver, straddles |-> TRUE]
      BY <2>0, <2>2, <3>1
    <3>3. [stage |-> "generated", ver |-> me.ver, straddles |-> TRUE]
            \in [stage : Stages, ver : Versions, straddles : BOOLEAN]
      BY <2>0 DEF Stages
    <3>4. task'[s][t].stage = "generated" /\ task'[s][t].straddles
      BY <3>2
    <3>5. task'[s][t] # NoBuild
      BY <3>4 DEF NoBuild, At
    <3>q. QED
      BY <3>2, <3>3, <3>4, <3>5
  <2>3. CASE me.stage = "open"
    <3>1. task'[s][t] = [me EXCEPT !.stage = "lost"]
      BY <2>1, <2>3
    <3>2. task'[s][t].stage = "lost"
      BY <2>0, <3>1
    <3>q. QED
      BY <2>0, <3>1, <3>2 DEF NoBuild, At, Stages
  <2>4. CASE me.stage \notin {"generated", "open"}
    BY <2>0, <2>1, <2>4
  <2>q. QED
    BY <2>2, <2>3, <2>4
<1>4. TaskTypes'
  <2>1. task' = [s \in Servers |-> [t \in Tasks |-> task'[s][t]]]
    BY DEF Sync
  <2>q. QED
    BY <1>3, <2>1 DEF TaskTypes
<1>5. Marked'
  BY <1>3 DEF Marked
<1>6. Awaited'
  BY <1>3, AwaitedKept DEF Sync, stateVars, Tasks
<1>q. QED
  BY <1>1, <1>2, <1>4, <1>5, <1>6, TypesNext DEF Inv

LEMMA StutterStep == ASSUME Inv, UNCHANGED vars PROVE Inv'
BY DEF vars, stateVars, diskVars, runVars, Inv, TypeOK, Awaited, ErrorIsNews, Marked, CacheFollowsSync

LEMMA Step == Inv /\ [Next]_vars => Inv'
<1> SUFFICES ASSUME Inv, [Next]_vars PROVE Inv'
  OBVIOUS
<1>0. up \subseteq Servers
  BY TypeParts, McpAssumption DEF Inv, RunTypes, McpAssumption
<1>1. CASE \E s \in up : WarmStart(s) \/ Reload(s)
  BY <1>0, <1>1, WarmStartStep, ReloadStep
<1>2. CASE \E s \in up, t \in Tasks : Work(s, t) \/ ChildFails(s, t)
  <2>1. PICK s \in Servers, t \in Tasks : Work(s, t) \/ ChildFails(s, t)
    BY <1>0, <1>2
  <2>2. CASE t # 0 /\ ReadCache(s, t)
    BY <2>2, ReadCacheStep DEF Tasks
  <2>3. CASE ChildReads(s, t) \/ ChildOpens(s, t) \/ ChildWrites(s, t)
    BY <2>3, ChildReadsStep, ChildOpensStep, ChildWritesStep
  <2>4. CASE ReadBack(s, t) \/ ChildFails(s, t)
    BY <2>4, ReadBackStep, ChildFailsStep
  <2>q. QED
    BY <2>1, <2>2, <2>3, <2>4 DEF Work
<1>3. CASE \E c \in Callers : Ask(c) \/ Timeout(c) \/ Done(c)
  BY <1>3, AskStep, CallerLeaves
<1>4. CASE Edit \/ Sync
  BY <1>4, EditStep, SyncStep
<1>5. CASE UNCHANGED vars
  BY <1>5, StutterStep
<1>q. QED
  BY <1>1, <1>2, <1>3, <1>4, <1>5 DEF Next

\* The inductive invariant holds of every state that the servers, their children
\* and the syncs reach (model-state.ts, deferred.ts).
THEOREM InvHolds == Spec => []Inv
BY InitInv, Step, PTL DEF Spec

\* The state is typed, and a promise is settled when the status says so, and only
\* then (setReady, setError, warmStart and reload of model-state.ts).
THEOREM TypeCorrect == Spec => []TypeOK
<1>1. Inv => TypeOK
  BY DEF Inv
<1>q. QED
  BY <1>1, InvHolds, PTL

\* Whoever waits on a server's promise, waits on one that is not settled while a
\* call of warmStart that settles it is under way (waitForReady).
THEOREM WaitersAreWoken == Spec => []WaitersWoken
<1>1. Inv => WaitersWoken
  <2> SUFFICES ASSUME Inv, NEW c \in Callers, caller[c].at = "waiting"
               PROVE  /\ promise[Home[c]] = Pending
                      /\ \E w \in Warms : task[Home[c]][w] # NoBuild
    BY DEF WaitersWoken
  <2>1. Home[c] \in Servers
    BY McpAssumption DEF McpAssumption
  <2>2. status[Home[c]] = "warming"
    BY DEF Inv, Awaited
  <2>q. QED
    BY <2>1, <2>2, TypeParts DEF Inv, Awaited, StateTypes
<1>q. QED
  BY <1>1, InvHolds, PTL

\* No tool call reports, before its timer fires, an error that an earlier call
\* has left in the state (executeWithProject of project-context.ts).
THEOREM ErrorsAreNews == Spec => []ErrorIsNews
<1>1. Inv => ErrorIsNews
  BY DEF Inv
<1>q. QED
  BY <1>1, InvHolds, PTL

\* A cached model from before the last sync is there only if its child was at
\* work across that sync (the stale pass of commit.ts and the writes of
\* artifact.ts).
THEOREM CacheFollows == Spec => []CacheFollowsSync
<1>1. Inv => CacheFollowsSync
  BY DEF Inv
<1>q. QED
  BY <1>1, InvHolds, PTL

-----------------------------------------------------------------------------
(***************************************************************************)
(* The order of what a server that is not reloaded serves.                 *)
(***************************************************************************)

\* A build of s is alone, and its refresh begins when it has a model to serve.
OneBuild(s) ==
  /\ \A v, w \in Warms : task[s][v] # NoBuild =>
       status[s] = "warming" /\ (task[s][w] # NoBuild => v = w)
  /\ task[s][0] # NoBuild \/ artifact[s] # None => status[s] = "ready"

\* No model is ahead of the sources.
Behind ==
  /\ file \in Models => file.ver <= src
  /\ \A s \in Servers, t \in Tasks :
       task[s][t].stage \in {"generated", "open"} => task[s][t].ver <= src

\* What s will write and what it wrote are no older than what it serves.
Ahead(s) ==
  artifact[s] # None =>
    /\ artifact[s] <= src
    /\ file \in Models /\ file.by = s => artifact[s] <= file.ver
    /\ task[s][0].stage \in {"generated", "open"} => artifact[s] <= task[s][0].ver

Ordered == Behind /\ (reloads = 0 => \A s \in Servers : OneBuild(s) /\ Ahead(s))

\* A file that is not there, or torn, is no model.
LEMMA NoModels == None \notin Models /\ Torn \notin Models
BY McpAssumption DEF McpAssumption, Models, Versions

\* A warm-up that begins is a new task, at its first stage.
LEMMA WarmTask ==
  ASSUME NEW s \in Servers, BeginWarm(s)
  PROVE  \E w \in Warms, x \in {"child", "cache"} : task' = [task EXCEPT ![s][w] = At(x)]
<1>1. PICK w \in {v \in Warms : task[s][v] = NoBuild} :
        task' = [task EXCEPT ![s][w] = At(IF file = None THEN "child" ELSE "cache")]
  BY DEF BeginWarm
<1>q. QED
  BY <1>1

\* A server that has no build under way, and serves nothing, begins one.
LEMMA BeginOrdered ==
  ASSUME Inv, Ordered, NEW s \in Servers, BeginWarm(s), status[s] \in {"idle", "error"},
         UNCHANGED <<artifact, src, file, reloads>>
  PROVE  Ordered'
<1>1. StateTypes /\ TaskTypes
  BY TypeParts DEF Inv
<1>2. PICK w \in Warms, x \in {"child", "cache"} : task' = [task EXCEPT ![s][w] = At(x)]
  BY WarmTask
<1>3. /\ At(x) \in [stage : Stages, ver : Versions, straddles : BOOLEAN] /\ At(x).stage = x
      /\ w \in Tasks /\ w # 0 /\ 0 \in Tasks /\ status' = [status EXCEPT ![s] = "warming"]
  BY FreshTask, Constants DEF Tasks, BeginWarm
<1>4. /\ TaskTypes'
      /\ \A z \in Servers, u \in Tasks :
           task'[z][u] = IF z = s /\ u = w THEN At(x) ELSE task[z][u]
  BY <1>1, <1>2, <1>3 DEF TaskTypes
<1>5. Behind'
  BY <1>3, <1>4 DEF Ordered, Behind
<1>6. ASSUME reloads = 0, NEW z \in Servers PROVE OneBuild(z)' /\ Ahead(z)'
  <2>1. OneBuild(z) /\ Ahead(z) /\ OneBuild(s)
    BY <1>6 DEF Ordered
  <2>2. OneBuild(z)'
    BY <1>1, <1>3, <1>4, <2>1 DEF OneBuild, StateTypes, Tasks
  <2>3. Ahead(z)'
    BY <1>3, <1>4, <2>1 DEF Ahead
  <2>q. QED
    BY <2>2, <2>3
<1>q. QED
  BY <1>5, <1>6 DEF Ordered

\* A task goes on, and neither is ahead of the sources nor, when it is the refresh,
\* behind what is served; the file is as it was, torn, or what the task has written.
LEMMA GoesOnOrdered ==
  ASSUME Inv, Ordered, NEW s \in Servers, NEW t \in Tasks,
         NEW me \in [stage : Stages, ver : Versions, straddles : BOOLEAN],
         task[s][t] # NoBuild, task' = [task EXCEPT ![s][t] = me],
         UNCHANGED <<status, artifact, src, reloads>>,
         me.stage \in {"generated", "open"} =>
           me.ver = src \/ (task[s][t].stage \in {"generated", "open"} /\ me.ver = task[s][t].ver),
         \/ file' = file \/ file' \notin Models
         \/ task[s][t].stage = "open" /\ file' \in Models /\ file'.by = s /\ file'.ver = task[s][t].ver
  PROVE  Ordered'
<1>1. StateTypes /\ TaskTypes /\ DiskTypes
  BY TypeParts DEF Inv
<1>2. /\ TaskTypes'
      /\ \A z \in Servers, u \in Tasks :
           task'[z][u] = IF z = s /\ u = t THEN me ELSE task[z][u]
  BY <1>1 DEF TaskTypes
<1>3. src \in Nat /\ 0 \in Tasks
  BY <1>1, Constants DEF DiskTypes, Tasks
<1>4. Models' = Models
  BY DEF Models, Versions
<1>5. Behind'
  BY <1>1, <1>2, <1>3, <1>4 DEF Ordered, Behind
<1>6. ASSUME reloads = 0, NEW z \in Servers PROVE OneBuild(z)' /\ Ahead(z)'
  <2>1. OneBuild(z) /\ Ahead(z)
    BY <1>6 DEF Ordered
  <2>2. OneBuild(z)'
    BY <1>2, <1>3, <2>1 DEF OneBuild, Tasks
  <2>3. ASSUME artifact[s] # None PROVE t = 0
    BY <1>6, <2>3, Constants DEF Ordered, OneBuild, Tasks
  <2>4. Ahead(z)'
    BY <1>2, <1>3, <1>4, <2>1, <2>3 DEF Ahead
  <2>q. QED
    BY <2>2, <2>4
<1>q. QED
  BY <1>5, <1>6 DEF Ordered

\* A task of s, the refresh or the only one, ends; s serves what is in the file, or is
\* settled with an error.  A warm-up that ends may leave a refresh behind.
LEMMA EndOrdered ==
  ASSUME Inv, Ordered, NEW s \in Servers, NEW t \in Tasks, task[s][t] # NoBuild,
         UNCHANGED <<src, file, reloads>>, TaskTypes',
         \A z \in Servers \ {s} : task'[z] = task[z],
         task'[s][t] = NoBuild, \A u \in Tasks \ {0, t} : task'[s][u] = task[s][u],
         t # 0 => task'[s][0] = task[s][0] \/ (task'[s][0].stage = "child" /\ status'[s] = "ready"),
         \/ /\ file \in Models /\ artifact' = [artifact EXCEPT ![s] = file.ver]
            /\ status' = [status EXCEPT ![s] = "ready"]
         \/ /\ artifact' = artifact
            /\ status' = IF t = 0 THEN status ELSE [status EXCEPT ![s] = "error"]
  PROVE  Ordered'
<1>1. StateTypes /\ TaskTypes /\ DiskTypes
  BY TypeParts DEF Inv
<1>2. src \in Nat /\ 0 \in Tasks /\ \A w \in Warms : w \in Tasks /\ w # 0
  BY <1>1, Constants DEF DiskTypes, Tasks
<1>3. NoBuild.stage = "none"
  BY DEF NoBuild, At
<1>4. file \in Models => file.ver \in Nat /\ file.ver # None
  BY Constants DEF Models
<1>5. Behind'
  <2>1. \A z \in Servers, u \in Tasks :
          task'[z][u] = task[z][u] \/ task'[z][u].stage \in {"none", "child"}
    BY <1>2, <1>3
  <2>q. QED
    BY <2>1 DEF Ordered, Behind, Models, Versions
<1>6. ASSUME reloads = 0, NEW z \in Servers PROVE OneBuild(z)' /\ Ahead(z)'
  <2>1. OneBuild(z) /\ Ahead(z) /\ OneBuild(s) /\ Behind
    BY <1>6 DEF Ordered
  <2>2. CASE z # s
    <3>1. task'[z] = task[z] /\ status'[z] = status[z] /\ artifact'[z] = artifact[z]
      BY <1>1, <2>2 DEF StateTypes
    <3>q. QED
      BY <2>1, <3>1 DEF OneBuild, Ahead, Models, Versions
  <2>3. CASE z = s
    <3>1. \A w \in Warms : task'[s][w] = NoBuild
      BY <1>2, <2>1 DEF OneBuild, Tasks
    <3>2. OneBuild(s)'
      BY <1>1, <1>2, <2>1, <3>1 DEF OneBuild, StateTypes, Tasks
    <3>3. task'[s][0].stage \in {"none", "child"} \/ task'[s][0] = task[s][0]
      BY <1>3
    <3>4. ASSUME file \in Models, artifact'[s] = file.ver PROVE Ahead(s)'
      <4>1. task'[s][0].stage \notin {"generated", "open"}
        <5>1. CASE t = 0
          BY <1>3, <5>1
        <5>2. CASE t # 0
          BY <1>2, <1>3, <2>1, <3>3, <5>2 DEF OneBuild, Tasks
        <5>q. QED
          BY <5>1, <5>2
      <4>q. QED
        BY <1>4, <2>1, <3>4, <4>1 DEF Ahead, Behind, Models, Versions
    <3>5. ASSUME artifact' = artifact PROVE Ahead(s)'
      BY <2>1, <2>3, <3>3, <3>5 DEF Ahead, Models, Versions
    <3>6. Ahead(s)'
      BY <1>1, <3>4, <3>5 DEF StateTypes
    <3>q. QED
      BY <2>3, <3>2, <3>6
  <2>q. QED
    BY <2>2, <2>3
<1>q. QED
  BY <1>5, <1>6 DEF Ordered

LEMMA InitOrdered == Init => Ordered
<1> SUFFICES ASSUME Init PROVE Ordered
  OBVIOUS
<1>1. /\ \A s \in Servers : artifact[s] = None /\ \A t \in Tasks : task[s][t] = NoBuild
      /\ NoBuild.stage = "none" /\ src = 0
      /\ file \in Models => file.ver = 0
  <2>1. \A s \in Servers : artifact[s] = None /\ \A t \in Tasks : task[s][t] = NoBuild
    BY DEF Init
  <2>2. NoBuild.stage = "none"
    BY DEF NoBuild, At
  <2>3. file \in Models => file.ver = 0
    BY NoModels DEF Init
  <2>q. QED
    BY <2>1, <2>2, <2>3 DEF Init
<1>2. Behind
  BY <1>1 DEF Behind
<1>q. QED
  BY <1>1, <1>2 DEF Ordered, OneBuild, Ahead, Tasks

\* Who asks begins a build only when there is none.
LEMMA CallOrdered ==
  ASSUME Inv, Ordered,
         \/ \E s \in Servers : WarmStart(s)
         \/ \E c \in Callers : Ask(c) \/ Timeout(c) \/ Done(c)
  PROVE  Ordered'
<1>1. ASSUME NEW s \in Servers, WarmStart(s) PROVE Ordered'
  BY <1>1, BeginOrdered DEF WarmStart, diskVars, runVars
<1>2. ASSUME NEW c \in Callers, Ask(c) PROVE Ordered'
  <2>1. Home[c] \in Servers
    BY McpAssumption DEF McpAssumption
  <2>2. UNCHANGED <<artifact, src, file, reloads>>
    BY <1>2 DEF Ask, diskVars, runVars
  <2>3. CASE UNCHANGED <<status, task>>
    BY <2>2, <2>3 DEF Ordered, Behind, OneBuild, Ahead, Models, Versions
  <2>4. CASE BeginWarm(Home[c]) /\ status[Home[c]] \in {"idle", "error"}
    BY <2>1, <2>2, <2>4, BeginOrdered
  <2>q. QED
    BY <1>2, <2>3, <2>4 DEF Ask
<1>3. ASSUME NEW c \in Callers, Timeout(c) \/ Done(c) PROVE Ordered'
  BY <1>3 DEF Timeout, Done, stateVars, diskVars, runVars, Ordered, Behind, OneBuild, Ahead, Models, Versions
<1>q. QED
  BY <1>1, <1>2, <1>3

\* After a reload only what is behind the sources counts.
LEMMA ReloadOrdered == ASSUME Inv, Ordered, NEW s \in Servers, Reload(s) PROVE Ordered'
<1>1. StateTypes /\ TaskTypes /\ RunTypes /\ reloads' # 0
  BY TypeParts, McpAssumption DEF Inv, Reload, RunTypes, McpAssumption
<1>2. PICK w \in Warms, x \in {"child", "cache"} : task' = [task EXCEPT ![s][w] = At(x)]
  BY WarmTask DEF Reload
<1>3. At(x).stage = x /\ w \in Tasks
  BY DEF At, Tasks
<1>4. \A z \in Servers, u \in Tasks : task'[z][u] = task[z][u] \/ task'[z][u].stage = x
  BY <1>1, <1>2, <1>3 DEF TaskTypes
<1>5. Behind'
  BY <1>4 DEF Reload, diskVars, Ordered, Behind, Models, Versions
<1>q. QED
  BY <1>1, <1>5 DEF Ordered

LEMMA ReadCacheOrdered ==
  ASSUME Inv, Ordered, NEW s \in Servers, NEW w \in Warms, ReadCache(s, w) PROVE Ordered'
<1>0. TaskTypes /\ w \in Tasks /\ 0 \in Tasks /\ w # 0 /\ task[s][w] # NoBuild
  BY TypeParts, Constants DEF Inv, Tasks, ReadCache, NoBuild, At
<1>1. CASE file \in Models
  <2>1. /\ UNCHANGED <<src, file, reloads>>
        /\ artifact' = [artifact EXCEPT ![s] = file.ver] /\ status' = [status EXCEPT ![s] = "ready"]
        /\ task' = [task EXCEPT ![s][w] = NoBuild,
                                ![s][0] = IF @ = NoBuild THEN At("child") ELSE @]
    BY <1>1 DEF ReadCache, SetReady, diskVars, runVars
  <2>2. /\ \A z \in Servers \ {s} : task'[z] = task[z]
        /\ task'[s][w] = NoBuild /\ \A u \in Tasks \ {0, w} : task'[s][u] = task[s][u]
        /\ task'[s][0] = IF task[s][0] = NoBuild THEN At("child") ELSE task[s][0]
    BY <1>0, <2>1 DEF TaskTypes
  <2>3. task'[s][0] = task[s][0] \/ task'[s][0].stage = "child"
    BY <2>2 DEF At
  <2>4. status'[s] = "ready"
    BY <2>1, TypeParts DEF Inv, StateTypes
  <2>5. TaskTypes'
    BY ReadCacheStep DEF Inv, TypeOK, TaskTypes
  <2>q. QED
    BY <1>0, <1>1, <2>1, <2>2, <2>3, <2>4, <2>5, EndOrdered
<1>2. CASE file \notin Models
  <2>1. /\ UNCHANGED <<status, artifact, src, file, reloads>>
        /\ task' = [task EXCEPT ![s][w] = At("child")]
    BY <1>2 DEF ReadCache, stateVars, diskVars, runVars
  <2>2. At("child") \in [stage : Stages, ver : Versions, straddles : BOOLEAN] /\ At("child").stage = "child"
    BY FreshTask
  <2>q. QED
    BY <1>0, <2>1, <2>2, GoesOnOrdered
<1>q. QED
  BY <1>1, <1>2

LEMMA ChildOrdered ==
  ASSUME Inv, Ordered, NEW s \in Servers, NEW t \in Tasks,
         ChildReads(s, t) \/ ChildOpens(s, t) \/ ChildWrites(s, t)
  PROVE  Ordered'
<1> DEFINE me == task[s][t]
<1>0. TaskTypes /\ DiskTypes /\ me \in [stage : Stages, ver : Versions, straddles : BOOLEAN] /\ src \in Versions
  BY TypeParts DEF Inv, TaskTypes, DiskTypes
<1>1. me # NoBuild /\ UNCHANGED <<status, artifact, src, reloads>>
  BY DEF ChildReads, ChildOpens, ChildWrites, NoBuild, At, stateVars, diskVars, runVars
<1>2. CASE ChildReads(s, t)
  <2> DEFINE new == [me EXCEPT !.stage = "generated", !.ver = src]
  <2>1. task' = [task EXCEPT ![s][t] = new] /\ file' = file
    BY <1>0, <1>2 DEF ChildReads, TaskTypes, diskVars
  <2>2. new \in [stage : Stages, ver : Versions, straddles : BOOLEAN] /\ new.ver = src
    BY <1>0 DEF Stages
  <2>q. QED
    BY <1>1, <2>1, <2>2, GoesOnOrdered
<1>3. CASE ChildOpens(s, t)
  <2> DEFINE new == [me EXCEPT !.stage = "open"]
  <2>1. task' = [task EXCEPT ![s][t] = new] /\ file' = Torn /\ me.stage = "generated"
    BY <1>0, <1>3 DEF ChildOpens, TaskTypes
  <2>2. new \in [stage : Stages, ver : Versions, straddles : BOOLEAN] /\ new.ver = me.ver
    BY <1>0 DEF Stages
  <2>3. file' \notin Models
    BY <2>1, NoModels
  <2>q. QED
    BY <1>1, <2>1, <2>2, <2>3, GoesOnOrdered
<1>4. CASE ChildWrites(s, t)
  <2> DEFINE new == [ver |-> me.ver, by |-> s, straddles |-> me.straddles]
  <2>1. /\ task' = [task EXCEPT ![s][t] = At("written")]
        /\ file' = file \/ (me.stage = "open" /\ file' = new) \/ file' = Torn
    BY <1>4 DEF ChildWrites
  <2>2. At("written") \in [stage : Stages, ver : Versions, straddles : BOOLEAN] /\ At("written").stage = "written"
    BY FreshTask
  <2>3. new \in Models /\ new.by = s /\ new.ver = me.ver
    BY <1>0 DEF Models
  <2>q. QED
    <3>1. \/ file' = file \/ file' \notin Models
          \/ me.stage = "open" /\ file' \in Models /\ file'.by = s /\ file'.ver = me.ver
      BY <2>1, <2>3, NoModels
    <3>q. QED
      BY <1>1, <2>1, <2>2, <3>1, GoesOnOrdered
<1>q. QED
  BY <1>2, <1>3, <1>4

LEMMA ReadBackOrdered ==
  ASSUME Inv, Ordered, NEW s \in Servers, NEW t \in Tasks, ReadBack(s, t) \/ ChildFails(s, t)
  PROVE  Ordered'
<1>0. TaskTypes /\ 0 \in Tasks /\ task[s][t] # NoBuild /\ UNCHANGED <<src, file, reloads>>
  BY TypeParts DEF Inv, Tasks, ReadBack, ChildFails, NoBuild, At, diskVars, runVars
<1>1. task' = [task EXCEPT ![s][t] = NoBuild] /\ TaskTypes'
  <2>1. task' = [task EXCEPT ![s][t] = NoBuild]
    BY DEF ReadBack, ChildFails, BuildFails
  <2>2. Inv'
    BY ReadBackStep, ChildFailsStep
  <2>q. QED
    BY <2>1, <2>2 DEF Inv, TypeOK, TaskTypes
<1>2. /\ \A z \in Servers \ {s} : task'[z] = task[z]
      /\ task'[s][t] = NoBuild /\ \A u \in Tasks \ {t} : task'[s][u] = task[s][u]
  BY <1>0, <1>1 DEF TaskTypes
<1>3. \/ /\ file \in Models /\ artifact' = [artifact EXCEPT ![s] = file.ver]
         /\ status' = [status EXCEPT ![s] = "ready"]
      \/ /\ artifact' = artifact
         /\ status' = IF t = 0 THEN status ELSE [status EXCEPT ![s] = "error"]
  BY DEF ReadBack, ChildFails, BuildFails, SetReady, SetError
<1>q. QED
  BY <1>0, <1>1, <1>2, <1>3, EndOrdered

\* A sync takes the file away, and leaves what the children have read.
LEMMA DiskOrdered == ASSUME Inv, Ordered, Edit \/ Sync PROVE Ordered'
<1>0. TaskTypes /\ StateTypes /\ DiskTypes /\ src \in Nat /\ 0 \in Tasks
  BY TypeParts, Constants DEF Inv, Tasks, DiskTypes
<1>1. CASE Edit
  <2>1. UNCHANGED <<status, artifact, task, file, reloads>> /\ src' = src + 1
    BY <1>1 DEF Edit, stateVars, runVars
  <2>2. /\ \A s \in Servers : artifact[s] # None => artifact[s] \in Nat
        /\ \A s \in Servers, t \in Tasks : task[s][t].ver \in Nat
        /\ file \in Models => file.ver \in Nat
    BY <1>0, Constants DEF StateTypes, TaskTypes, Models
  <2>3. Behind'
    BY <1>0, <2>1, <2>2 DEF Ordered, Behind, Models, Versions
  <2>4. ASSUME NEW s \in Servers, OneBuild(s), Ahead(s) PROVE OneBuild(s)' /\ Ahead(s)'
    BY <1>0, <2>1, <2>2, <2>4 DEF OneBuild, Ahead, Models, Versions
  <2>q. QED
    BY <2>1, <2>3, <2>4 DEF Ordered
<1>2. CASE Sync
  <2>1. UNCHANGED <<status, artifact, src, reloads>> /\ file' \notin Models /\ Models' = Models
    BY <1>2, NoModels DEF Sync, stateVars, runVars, Models, Versions
  <2>2. ASSUME NEW s \in Servers, NEW t \in Tasks
        PROVE  /\ task'[s][t] # NoBuild <=> task[s][t] # NoBuild
               /\ task'[s][t].stage \in {"generated", "open"} =>
                    task[s][t].stage \in {"generated", "open"} /\ task'[s][t].ver = task[s][t].ver
    <3> DEFINE me == task[s][t]
    <3>0. me \in [stage : Stages, ver : Versions, straddles : BOOLEAN]
      BY <1>0 DEF TaskTypes
    <3>1. task'[s][t] = CASE me.stage = "generated" -> [me EXCEPT !.straddles = TRUE]
                          [] me.stage = "open"      -> [me EXCEPT !.stage = "lost"]
                          [] OTHER                  -> me
      BY <1>2 DEF Sync
    <3>2. CASE me.stage = "generated"
      <4>1. /\ task'[s][t] = [me EXCEPT !.straddles = TRUE]
            /\ task'[s][t].stage = "generated" /\ task'[s][t].ver = me.ver
        BY <3>0, <3>1, <3>2
      <4>q. QED
        BY <3>2, <4>1 DEF NoBuild, At
    <3>3. CASE me.stage = "open"
      <4>1. task'[s][t] = [me EXCEPT !.stage = "lost"] /\ task'[s][t].stage = "lost"
        BY <3>0, <3>1, <3>3
      <4>q. QED
        BY <3>3, <4>1 DEF NoBuild, At
    <3>4. CASE me.stage \notin {"generated", "open"}
      BY <3>1, <3>4
    <3>q. QED
      BY <3>2, <3>3, <3>4
  <2>3. Behind'
    BY <2>1, <2>2 DEF Ordered, Behind
  <2>4. ASSUME NEW s \in Servers, OneBuild(s), Ahead(s) PROVE OneBuild(s)' /\ Ahead(s)'
    BY <1>0, <2>1, <2>2, <2>4 DEF OneBuild, Ahead, Tasks
  <2>q. QED
    BY <2>1, <2>3, <2>4 DEF Ordered
<1>q. QED
  BY <1>1, <1>2

LEMMA OrderedStep == Inv /\ Ordered /\ [Next]_vars => Ordered'
<1> SUFFICES ASSUME Inv, Ordered, [Next]_vars PROVE Ordered'
  OBVIOUS
<1>0. up \subseteq Servers
  BY TypeParts, McpAssumption DEF Inv, RunTypes, McpAssumption
<1>1. CASE \E s \in up : WarmStart(s) \/ Reload(s)
  BY <1>0, <1>1, CallOrdered, ReloadOrdered
<1>2. CASE \E s \in up, t \in Tasks : Work(s, t) \/ ChildFails(s, t)
  <2>1. PICK s \in Servers, t \in Tasks : Work(s, t) \/ ChildFails(s, t)
    BY <1>0, <1>2
  <2>2. CASE t # 0 /\ ReadCache(s, t)
    BY <2>2, ReadCacheOrdered DEF Tasks
  <2>3. CASE ChildReads(s, t) \/ ChildOpens(s, t) \/ ChildWrites(s, t)
    BY <2>3, ChildOrdered
  <2>4. CASE ReadBack(s, t) \/ ChildFails(s, t)
    BY <2>4, ReadBackOrdered
  <2>q. QED
    BY <2>1, <2>2, <2>3, <2>4 DEF Work
<1>3. CASE \E c \in Callers : Ask(c) \/ Timeout(c) \/ Done(c)
  BY <1>3, CallOrdered
<1>4. CASE Edit \/ Sync
  BY <1>4, DiskOrdered
<1>5. CASE UNCHANGED vars
  BY <1>5 DEF vars, stateVars, diskVars, runVars, Ordered, Behind, OneBuild, Ahead, Models, Versions
<1>q. QED
  BY <1>1, <1>2, <1>3, <1>4, <1>5 DEF Next

\* A model is replaced by what is in the file, by a server that has a build under way.
LEMMA Replaced ==
  ASSUME Inv, [Next]_vars, NEW s \in Servers,
         artifact[s] # None, artifact'[s] # None, artifact'[s] # artifact[s]
  PROVE  file \in Models /\ artifact'[s] = file.ver
<1>0. StateTypes /\ up \subseteq Servers
  BY TypeParts, McpAssumption DEF Inv, RunTypes, McpAssumption
<1>1. ASSUME NEW z \in Servers, NEW v \in Versions, file \in Models, v = file.ver, SetReady(z, v)
      PROVE  file \in Models /\ artifact'[s] = file.ver
  BY <1>0, <1>1 DEF SetReady, StateTypes
<1>2. ASSUME NEW z \in Servers, NEW t \in Tasks, Work(z, t) \/ ChildFails(z, t)
      PROVE  file \in Models /\ artifact'[s] = file.ver
  <2>1. CASE UNCHANGED artifact
    BY <2>1
  <2>2. CASE file \in Models /\ SetReady(z, file.ver)
    <3>1. file.ver \in Versions
      BY <2>2 DEF Models
    <3>q. QED
      BY <1>1, <2>2, <3>1
  <2>q. QED
    BY <1>2, <2>1, <2>2 DEF Work, ReadCache, ChildReads, ChildOpens, ChildWrites, ReadBack, ChildFails,
       BuildFails, SetError, stateVars
<1>3. ASSUME NEW z \in Servers, Reload(z) PROVE FALSE
  BY <1>0, <1>3 DEF Reload, StateTypes
<1>4. CASE UNCHANGED artifact
  BY <1>4
<1>5. \/ UNCHANGED artifact
      \/ \E z \in up : Reload(z) \/ \E t \in Tasks : Work(z, t) \/ ChildFails(z, t)
  BY DEF Next, WarmStart, Ask, Timeout, Done, Edit, Sync, vars, stateVars
<1>q. QED
  BY <1>0, <1>2, <1>3, <1>4, <1>5

\* A server that is not reloaded never replaces the model that it serves by an older one,
\* unless the file it reads back is of another server's child (refreshInBackground of
\* model-state.ts).
THEOREM NeverAges == Spec => ModelNeverAges
<1> DEFINE A == \A s \in Servers :
       artifact[s] # None /\ artifact'[s] # None /\ artifact'[s] # artifact[s] =>
         artifact'[s] > artifact[s] \/ file.by # s \/ reloads > 0
<1>1. Inv /\ Ordered /\ [Next]_vars => A
  <2> SUFFICES ASSUME Inv, Ordered, [Next]_vars, NEW s \in Servers,
                      artifact[s] # None, artifact'[s] # None, artifact'[s] # artifact[s],
                      file.by = s, ~(reloads > 0)
               PROVE  artifact'[s] > artifact[s]
    OBVIOUS
  <2>1. file \in Models /\ artifact'[s] = file.ver
    BY Replaced
  <2>2. reloads = 0
    BY TypeParts, McpAssumption DEF Inv, RunTypes, McpAssumption
  <2>3. artifact[s] <= file.ver
    BY <2>1, <2>2 DEF Ordered, Ahead
  <2>4. artifact[s] \in Int /\ file.ver \in Int
    BY <2>1, TypeParts, Constants DEF Inv, StateTypes, Models, Versions
  <2>q. QED
    BY <2>1, <2>3, <2>4
<1>q. QED
  BY <1>1, InitInv, InitOrdered, Step, OrderedStep, PTL DEF Spec, ModelNeverAges
=============================================================================
