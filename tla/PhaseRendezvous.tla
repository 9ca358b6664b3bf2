--------------------------- MODULE PhaseRendezvous ---------------------------
(***************************************************************************)
(* The parallel parse phase of the atomic compiler (phase_*.rs): lanes     *)
(* parse and walk a shard of the sources each, on a thread of their own,   *)
(* and meet the coordinator after each of three rounds.  A lane reports    *)
(* over its own channel and waits for a verdict on another; the coordinator *)
(* collects one report per lane, works alone on what they left in the      *)
(* slots, and broadcasts.  Lanes and coordinator may panic; a dead lane is *)
(* known by its closed channel, and so is a dead coordinator.              *)
(*                                                                         *)
(* What a file holds is abstracted to what the phase asks of it: does it   *)
(* stream, does it style, does the parser panic on it.                     *)
(***************************************************************************)
EXTENDS Integers, Sequences

CONSTANTS
  NumSources,  \* sources, in input order
  NumLanes,    \* lanes that got a shard
  MaxPanics    \* bound on the panics of lanes and coordinator

ASSUME PhaseAssumption ==
  /\ NumSources \in Nat \ {0} /\ NumLanes \in Nat \ {0} /\ NumLanes <= NumSources
  /\ MaxPanics \in Nat

Sources == 1..NumSources
Lanes == 1..NumLanes
Rounds == {"record", "refs", "walk"}
Owner(s) == ((s - 1) % NumLanes) + 1
Shard(l) == {s \in Sources : Owner(s) = l}
After(r) == IF r = "record" THEN "refs" ELSE "walk"

VARIABLES
  streamed, styled, broken,  \* the sources that stream, that style, that panic the parser
  lane,      \* what each lane does
  round,     \* in which round
  todo,      \* the files of its shard it has still to do in that round
  reports,   \* its reports the coordinator has not received
  verdicts,  \* the commands it has not received
  coord,     \* where the coordinator is
  stage,     \* the round it is in
  next,      \* the lane or the source its loop is at
  blamed,    \* the lane whose report failed, 0 if none
  hungUp,    \* a panic of the coordinator has dropped its ends of the channels
  result,    \* what run() returns
  slot,      \* the state of each OwnedFile
  poisoned,  \* the slots whose mutex a panic has poisoned
  refs,      \* the slots with collected import refs
  values,    \* the slots whose values were resolved from collected refs
  published, \* the bundle is there
  merged,    \* the sources whose constants are in it
  out,       \* what the walk left in each slot
  committed, \* the sources whose products are in the sinks
  panics

sourceVars == <<streamed, styled, broken>>
laneVars   == <<lane, round, todo>>
linkVars   == <<reports, verdicts, hungUp>>
coordVars  == <<coord, stage, next, blamed, result>>
slotVars   == <<slot, poisoned, refs, values, out>>
sinkVars   == <<published, merged, committed>>
vars == <<sourceVars, laneVars, linkVars, coordVars, slotVars, sinkVars, panics>>

Gone(l) == lane[l] \in {"exited", "dead"}
Retained(l) == Shard(l) \ streamed
Refused(s) == slot[s] \in {"parserPanicked", "incomplete", "poisoned"}

\* The file a lane does next: streamed files before retained ones, each in order.
First(l, s) ==
  /\ s \in todo[l]
  /\ \A t \in todo[l] : \/ s \in streamed /\ t \notin streamed
                        \/ (s \in streamed <=> t \in streamed) /\ s <= t

\* What lock() makes of a slot: a reclaimed poisoned guard marks it failed.
Locked(s) ==
  IF s \in poisoned /\ slot[s] \in {"empty", "partial", "complete"} THEN "poisoned" ELSE slot[s]

\* ... and ensure_mergeable() after it.
Merged(s) == IF Locked(s) \in {"empty", "partial"} THEN "incomplete" ELSE Locked(s)

Init ==
  /\ streamed \in SUBSET Sources /\ styled \in SUBSET (Sources \ streamed)
  /\ broken \in SUBSET Sources
  /\ lane = [l \in Lanes |-> "unborn"] /\ round = [l \in Lanes |-> "record"]
  /\ todo = [l \in Lanes |-> {}]
  /\ reports = [l \in Lanes |-> 0] /\ verdicts = [l \in Lanes |-> <<>>] /\ hungUp = FALSE
  /\ coord = "spawn" /\ stage = "record" /\ next = 1 /\ blamed = 0 /\ result = "none"
  /\ slot = [s \in Sources |-> "empty"] /\ poisoned = {}
  /\ refs = {} /\ values = {} /\ out = [s \in Sources |-> "none"]
  /\ published = FALSE /\ merged = {} /\ committed = {}
  /\ panics = 0

-----------------------------------------------------------------------------
(* Lanes *)

\* stage_streamed, record_retained: one parse is folded into its slot, under its lock.
RecordFile(l, s) ==
  /\ lane[l] = "works" /\ round[l] = "record" /\ First(l, s)
  /\ slot' = [slot EXCEPT ![s] = IF s \in broken THEN "parserPanicked" ELSE "complete"]
  /\ todo' = [todo EXCEPT ![l] = @ \ {s}]
  /\ UNCHANGED <<sourceVars, lane, round, linkVars, coordVars, poisoned, refs, values, out,
                 sinkVars, panics>>

\* store_refs: skipped without a bundle, and for files that do not style or have failed.
StoreRefs(l, s) ==
  /\ lane[l] = "works" /\ round[l] = "refs" /\ First(l, s)
  /\ refs' = IF published /\ s \in styled \ broken /\ ~Refused(s) THEN refs \cup {s} ELSE refs
  /\ todo' = [todo EXCEPT ![l] = @ \ {s}]
  /\ UNCHANGED <<sourceVars, lane, round, linkVars, coordVars, slot, poisoned, values, out,
                 sinkVars, panics>>

\* walk_one: with the values found in the slot, resolved or not.
WalkFile(l, s) ==
  /\ lane[l] = "works" /\ round[l] = "walk" /\ First(l, s)
  /\ out' = IF published /\ s \in styled \ broken /\ ~Refused(s)
            THEN [out EXCEPT ![s] = IF s \in values THEN "whole" ELSE "blind"] ELSE out
  /\ todo' = [todo EXCEPT ![l] = @ \ {s}]
  /\ UNCHANGED <<sourceVars, lane, round, linkVars, coordVars, slot, poisoned, refs, values,
                 sinkVars, panics>>

\* Mutant of Rendezvous: after the refs round the lane reports and walks on, unanswered.
RendezvousOnce(l) ==
  /\ lane[l] = "works" /\ round[l] # "walk" /\ todo[l] = {}
  /\ reports' = [reports EXCEPT ![l] = @ + 1]
  /\ IF round[l] = "record"
     THEN lane' = [lane EXCEPT ![l] = "waits"] /\ UNCHANGED <<round, todo>>
     ELSE /\ round' = [round EXCEPT ![l] = "walk"]
          /\ todo' = [todo EXCEPT ![l] = Retained(l)]
          /\ lane' = lane
  /\ UNCHANGED <<sourceVars, verdicts, hungUp, coordVars, slotVars, sinkVars, panics>>

\* rendezvous: report, then wait for the verdict.
Rendezvous(l) ==
  /\ lane[l] = "works" /\ round[l] # "walk" /\ todo[l] = {}
  /\ lane' = [lane EXCEPT ![l] = "waits"]
  /\ reports' = [reports EXCEPT ![l] = @ + 1]
  /\ UNCHANGED <<sourceVars, round, todo, verdicts, hungUp, coordVars, slotVars, sinkVars, panics>>

\* finish: report the walk, and exit without waiting.
Finish(l) ==
  /\ lane[l] = "works" /\ round[l] = "walk" /\ todo[l] = {}
  /\ lane' = [lane EXCEPT ![l] = "exited"]
  /\ reports' = [reports EXCEPT ![l] = @ + 1]
  /\ UNCHANGED <<sourceVars, round, todo, verdicts, hungUp, coordVars, slotVars, sinkVars, panics>>

\* The verdict: Proceed begins the next round over the retained files, Abort ends the lane.
ReceiveVerdict(l) ==
  /\ lane[l] = "waits" /\ verdicts[l] # <<>>
  /\ verdicts' = [verdicts EXCEPT ![l] = Tail(@)]
  /\ \/ /\ Head(verdicts[l]) = "proceed"
        /\ lane' = [lane EXCEPT ![l] = "works"]
        /\ round' = [round EXCEPT ![l] = After(@)]
        /\ todo' = [todo EXCEPT ![l] = Retained(l)]
     \/ /\ Head(verdicts[l]) = "abort"
        /\ lane' = [lane EXCEPT ![l] = "exited"]
        /\ UNCHANGED <<round, todo>>
  /\ UNCHANGED <<sourceVars, reports, hungUp, coordVars, slotVars, sinkVars, panics>>

\* The coordinator died and every command it sent has been received: exit.
ReceiveHangup(l) ==
  /\ lane[l] = "waits" /\ verdicts[l] = <<>> /\ hungUp
  /\ lane' = [lane EXCEPT ![l] = "exited"]
  /\ UNCHANGED <<sourceVars, round, todo, linkVars, coordVars, slotVars, sinkVars, panics>>

\* A lane panics: anywhere in a round, and in record() with the lock of its slot held.
LanePanics(l) ==
  /\ lane[l] = "works" /\ panics < MaxPanics
  /\ lane' = [lane EXCEPT ![l] = "dead"]
  /\ panics' = panics + 1
  /\ \/ UNCHANGED <<slot, poisoned>>
     \/ \E s \in todo[l] : /\ round[l] = "record" /\ First(l, s)
                           /\ slot' = [slot EXCEPT ![s] = "partial"]
                           /\ poisoned' = poisoned \cup {s}
  /\ UNCHANGED <<sourceVars, round, todo, linkVars, coordVars, refs, values, out, sinkVars>>

-----------------------------------------------------------------------------
(* The coordinator *)

\* orchestrate: one lane per shard, in order, each running as soon as it is spawned.
SpawnLane ==
  /\ coord = "spawn"
  /\ lane' = [lane EXCEPT ![next] = "works"]
  /\ todo' = [todo EXCEPT ![next] = Shard(next)]
  /\ IF next = NumLanes THEN coord' = "await" /\ next' = 1 ELSE next' = next + 1 /\ coord' = coord
  /\ UNCHANGED <<sourceVars, round, linkVars, stage, blamed, result, slotVars, sinkVars, panics>>

\* Mutant of AwaitReport: the loop over the gates stops one past the last lane.
AwaitOneMore ==
  /\ coord = "await" /\ next <= NumLanes /\ reports[next] > 0
  /\ reports' = [reports EXCEPT ![next] = @ - 1]
  /\ next' = next + 1
  /\ UNCHANGED <<sourceVars, laneVars, verdicts, hungUp, coord, stage, blamed, result, slotVars,
                 sinkVars, panics>>

\* await_reports, a lane that has reported; after the last one the round is over.
AwaitReport ==
  /\ coord = "await" /\ reports[next] > 0
  /\ reports' = [reports EXCEPT ![next] = @ - 1]
  /\ IF next = NumLanes
     THEN /\ coord' = CASE stage = "record" -> "publish" [] stage = "refs" -> "resolve"
                        [] OTHER -> "join"
          /\ next' = 1
     ELSE next' = next + 1 /\ coord' = coord
  /\ UNCHANGED <<sourceVars, laneVars, verdicts, hungUp, stage, blamed, result, slotVars,
                 sinkVars, panics>>

\* Mutant of AbortRound: a failed receive passes for a report, `let _ = gate.await_report()`.
IgnoreTheDead ==
  /\ coord = "await" /\ reports[next] = 0 /\ Gone(next)
  /\ IF next = NumLanes
     THEN /\ coord' = CASE stage = "record" -> "publish" [] stage = "refs" -> "resolve"
                        [] OTHER -> "join"
          /\ next' = 1
     ELSE next' = next + 1 /\ coord' = coord
  /\ UNCHANGED <<sourceVars, laneVars, linkVars, stage, blamed, result, slotVars, sinkVars, panics>>

\* Mutant of AbortRound: the reports come over one channel, and any silent lane is the dead one.
BlameAnyone ==
  /\ coord = "await" /\ \E l \in Lanes : reports[l] = 0 /\ Gone(l)
  /\ verdicts' = [l \in Lanes |-> Append(verdicts[l], "abort")]
  /\ \E l \in next..NumLanes : reports[l] = 0 /\ Gone(l) /\ blamed' = l
  /\ coord' = "join"
  /\ UNCHANGED <<sourceVars, laneVars, reports, hungUp, stage, next, result, slotVars,
                 sinkVars, panics>>

\* A sender dropped before its report: abort tells every lane to stop, and joins.
\* (Lanes receive on their own, so a broadcast is one step.)
AbortRound ==
  /\ coord = "await" /\ reports[next] = 0 /\ Gone(next)
  /\ verdicts' = [l \in Lanes |-> Append(verdicts[l], "abort")]
  /\ blamed' = next /\ coord' = "join"
  /\ UNCHANGED <<sourceVars, laneVars, reports, hungUp, stage, next, result, slotVars,
                 sinkVars, panics>>

\* publish: lock and fold every slot in source order, then store the bundle.
Publish ==
  /\ coord = "publish"
  /\ slot' = [s \in Sources |-> Merged(s)]
  /\ merged' = {s \in Sources : Merged(s) = "complete"}
  /\ published' = TRUE /\ coord' = "graph"
  /\ UNCHANGED <<sourceVars, laneVars, linkVars, stage, next, blamed, result, poisoned, refs,
                 values, out, committed, panics>>

Proceed ==
  /\ verdicts' = [l \in Lanes |-> Append(verdicts[l], "proceed")]
  /\ stage' = After(stage) /\ coord' = "await"

\* build_graph, and the first broadcast.
BuildGraph ==
  /\ coord = "graph"
  /\ Proceed
  /\ UNCHANGED <<sourceVars, laneVars, reports, hungUp, next, blamed, result, slotVars, sinkVars,
                 panics>>

\* resolve_all: the imports of each styling file, from the refs found in its slot.
ResolveAll ==
  /\ coord = "resolve"
  /\ values' = {s \in refs \cap styled : Locked(s) = "complete"}
  /\ slot' = [s \in Sources |-> IF s \in styled THEN Locked(s) ELSE slot[s]]
  /\ Proceed
  /\ UNCHANGED <<sourceVars, laneVars, reports, hungUp, next, blamed, result, poisoned, refs, out,
                 sinkVars, panics>>

\* Mutant of JoinAll: the abort's failure is dropped, and run() goes on to settle.
JoinAndSettle ==
  /\ coord = "join" /\ \A l \in Lanes : Gone(l)
  /\ coord' = "settle" /\ next' = 1
  /\ UNCHANGED <<sourceVars, laneVars, linkVars, stage, blamed, result, slotVars, sinkVars, panics>>

\* join_all: every lane has ended; the abort returns, the round trip goes on to settle.
JoinAll ==
  /\ coord = "join" /\ \A l \in Lanes : Gone(l)
  /\ \/ /\ blamed = 0
        /\ coord' = "settle" /\ next' = 1
        /\ UNCHANGED result
     \/ /\ blamed # 0
        /\ coord' = "returned" /\ result' = "laneFailure"
        /\ UNCHANGED next
  /\ UNCHANGED <<sourceVars, laneVars, linkVars, stage, blamed, slotVars, sinkVars, panics>>

\* settle, commit_outputs: the products of each source in order, if there is a bundle.
CommitFile ==
  /\ coord = "settle" /\ next <= NumSources
  /\ committed' = IF published /\ out[next] # "none" THEN committed \cup {next} ELSE committed
  /\ slot' = [slot EXCEPT ![next] = Locked(next)]
  /\ next' = next + 1
  /\ UNCHANGED <<sourceVars, laneVars, linkVars, coord, stage, blamed, result, poisoned, refs,
                 values, out, published, merged, panics>>

\* Harvest, selections and the index of unpanicked sources: run() returns Ok.
ReturnOk ==
  /\ coord = "settle" /\ next > NumSources
  /\ coord' = "returned" /\ result' = "ok"
  /\ UNCHANGED <<sourceVars, laneVars, linkVars, stage, next, blamed, slotVars, sinkVars, panics>>

\* Mutant of CoordinatorPanics: the command senders outlive the unwinding (owned by run()).
PanicKeepsSenders ==
  /\ coord \in {"spawn", "publish", "graph", "resolve", "settle"} /\ panics < MaxPanics
  /\ coord' = "unwind" /\ panics' = panics + 1
  /\ UNCHANGED <<sourceVars, laneVars, linkVars, stage, next, blamed, result, slotVars, sinkVars>>

\* The coordinator panics in its own work: unwinding drops its ends of the channels.
CoordinatorPanics ==
  /\ coord \in {"spawn", "publish", "graph", "resolve", "settle"} /\ panics < MaxPanics
  /\ hungUp' = TRUE /\ coord' = "unwind" /\ panics' = panics + 1
  /\ UNCHANGED <<sourceVars, laneVars, reports, verdicts, stage, next, blamed, result, slotVars,
                 sinkVars>>

\* The scope joins the lanes that were spawned; catch_unwind makes an error of the panic.
CatchUnwind ==
  /\ coord = "unwind" /\ \A l \in Lanes : Gone(l) \/ lane[l] = "unborn"
  /\ coord' = "returned" /\ result' = "coordinatorPanic"
  /\ UNCHANGED <<sourceVars, laneVars, linkVars, stage, next, blamed, slotVars, sinkVars, panics>>

-----------------------------------------------------------------------------
LaneWorks(l) ==
  \/ \E s \in Shard(l) : RecordFile(l, s) \/ StoreRefs(l, s) \/ WalkFile(l, s)
  \/ Rendezvous(l) \/ Finish(l) \/ ReceiveVerdict(l) \/ ReceiveHangup(l)

CoordinatorWorks ==
  \/ SpawnLane \/ AwaitReport \/ AbortRound \/ Publish \/ BuildGraph \/ ResolveAll
  \/ JoinAll \/ CommitFile \/ ReturnOk \/ CatchUnwind

Next ==
  \/ \E l \in Lanes : LaneWorks(l) \/ LanePanics(l)
  \/ CoordinatorWorks \/ CoordinatorPanics

Spec == Init /\ [][Next]_vars

\* The operating system runs every thread; parses and walks end.
FairSpec == Spec /\ WF_vars(CoordinatorWorks) /\ \A l \in Lanes : WF_vars(LaneWorks(l))

-----------------------------------------------------------------------------
(* What the phase promises *)

TypeOK ==
  /\ streamed \subseteq Sources /\ styled \subseteq Sources \ streamed /\ broken \subseteq Sources
  /\ lane \in [Lanes -> {"unborn", "works", "waits", "exited", "dead"}]
  /\ round \in [Lanes -> Rounds]
  /\ todo \in [Lanes -> SUBSET Sources] /\ \A l \in Lanes : todo[l] \subseteq Shard(l)
  /\ reports \in [Lanes -> {0, 1}]
  /\ verdicts \in [Lanes -> Seq({"proceed", "abort"})]
  /\ coord \in {"spawn", "await", "publish", "graph", "resolve", "join", "settle", "unwind",
                "returned"}
  /\ stage \in Rounds /\ next \in 1..NumSources + 1
  /\ (coord \in {"spawn", "await"} => next \in Lanes)
  /\ blamed \in Lanes \cup {0} /\ hungUp \in BOOLEAN
  /\ result \in {"none", "ok", "laneFailure", "coordinatorPanic"}
  /\ slot \in [Sources -> {"empty", "partial", "complete", "parserPanicked", "incomplete",
                           "poisoned"}]
  /\ poisoned \subseteq Sources /\ refs \subseteq Sources /\ values \subseteq Sources
  /\ published \in BOOLEAN /\ merged \subseteq Sources
  /\ out \in [Sources -> {"none", "blind", "whole"}] /\ committed \subseteq Sources
  /\ panics \in 0..MaxPanics

\* The coordinator works on the slots alone (phase_merge, phase_walk, phase_commit take the
\* locks one by one): while it publishes, resolves or settles, no lane is at work or has a
\* command that would set it to work; and no lane outlives run(), whose data it borrows.
CoordinatorAlone ==
  /\ coord \in {"publish", "graph", "resolve"}
       => \A l \in Lanes : lane[l] = "waits" /\ verdicts[l] = <<>>
  /\ coord \in {"settle", "returned"} => \A l \in Lanes : Gone(l) \/ lane[l] = "unborn"

\* The merge never meets a half-filled slot: ensure_mergeable has nothing to refuse, for what
\* it would refuse, a lane's death has made an abort.  The bundle holds every parsed source.
MergesWholeRecords ==
  /\ coord = "publish" =>
       \A s \in Sources : s \notin poisoned
                          /\ slot[s] = IF s \in broken THEN "parserPanicked" ELSE "complete"
  /\ published => merged = Sources \ broken

\* Nobody runs ahead: a lane collects refs only when there is a bundle (store_refs and
\* walk_retained skip their work in silence without one), and it walks a file only when its
\* imports were resolved, however late it hears the verdict.
WalksWhatWasResolved ==
  \A l \in Lanes :
    /\ lane[l] = "works" /\ round[l] # "record" => published
    /\ lane[l] = "works" /\ round[l] = "walk" => Shard(l) \cap (styled \ broken) \subseteq values

\* All or nothing (LaneFailure: no partial output is committed): a phase that returns Ok has
\* lost no lane and committed the products of exactly the styling sources that parse, each
\* walked with its imports; a phase that lost a lane has committed none.
AllOrNothing ==
  /\ result = "ok" =>
       /\ \A l \in Lanes : lane[l] # "dead"
       /\ committed = styled \ broken /\ \A s \in committed : out[s] = "whole"
  /\ (\E l \in Lanes : lane[l] = "dead") => committed = {} /\ result # "ok"

\* The compile error names a lane that did panic, the stage it panicked in, and the first
\* such lane in lane order, whatever the order in which lanes died.
BlamesTheDead ==
  result = "laneFailure" =>
    /\ blamed \in Lanes /\ lane[blamed] = "dead" /\ round[blamed] = stage
    /\ \A l \in 1..blamed - 1 : lane[l] # "dead"

\* run() returns, whoever panics and when: nobody waits for a report or a verdict that will
\* never come (the barrier hang that tests/parallel_panic.rs guards against).
Returns == <>(coord = "returned")
=============================================================================
