------------------------ MODULE PhaseRendezvousProofs ------------------------
(***************************************************************************)
(* The parallel phase for any number of sources, lanes and panics: what    *)
(* it commits, what it merges, what lanes and coordinator may assume of    *)
(* each other at each rendezvous, and whom the error names.                *)
(***************************************************************************)
EXTENDS PhaseRendezvous, SequenceTheorems, TLAPS

Walkable == styled \ broken

\* The lane has not been spawned.
Unborn(l) ==
  lane[l] = "unborn" /\ round[l] = "record" /\ reports[l] = 0 /\ verdicts[l] = <<>>

\* It is in the coordinator's round and owes its report, or died owing it.
Owes(l) ==
  round[l] = stage /\ lane[l] \in {"works", "dead"} /\ reports[l] = 0 /\ verdicts[l] = <<>>

\* It has still to hear the verdict that opens the coordinator's round.
Called(l) ==
  /\ lane[l] = "waits" /\ round[l] # "walk" /\ After(round[l]) = stage
  /\ reports[l] = 0 /\ verdicts[l] = <<"proceed">>

\* It has reported in this round, and n of its reports are on their way.
Reported(l, n) ==
  /\ round[l] = stage /\ lane[l] = IF stage = "walk" THEN "exited" ELSE "waits"
  /\ reports[l] = n /\ verdicts[l] = <<>>

\* It will stop, at the latest before the round after this one.
Stopping(l) ==
  \/ Gone(l)
  \/ /\ lane[l] \in {"works", "waits"} /\ round[l] = stage /\ verdicts[l] = <<"abort">>
     /\ lane[l] = "works" => reports[l] = 0
  \/ /\ lane[l] = "waits" /\ round[l] # "walk" /\ After(round[l]) = stage
     /\ reports[l] = 0 /\ verdicts[l] = <<"proceed", "abort">>

\* The coordinator died while it was spawning, or while the lane waited for it.
Orphan(l) ==
  \/ Gone(l) \/ Unborn(l)
  \/ /\ lane[l] = "works" /\ stage = "record" /\ round[l] = stage
     /\ reports[l] = 0 /\ verdicts[l] = <<>>
  \/ /\ lane[l] = "waits" /\ verdicts[l] = <<>>

\* How lanes, channels and coordinator go together.
Spawning ==
  coord = "spawn" =>
    /\ stage = "record"
    /\ \A l \in Lanes : IF l < next THEN Owes(l) \/ Reported(l, 1) ELSE Unborn(l)
Awaiting ==
  coord = "await" =>
    \A l \in Lanes : IF l < next THEN Reported(l, 0)
                     ELSE Owes(l) \/ Called(l) \/ Reported(l, 1)
AllReported ==
  /\ \/ coord \in {"publish", "graph", "resolve", "settle"} \/ result = "ok"
     \/ coord = "join" /\ blamed = 0
     => \A l \in Lanes : Reported(l, 0)
  /\ coord \in {"publish", "graph"} => stage = "record"
  /\ coord = "resolve" => stage = "refs"
  /\ coord \in {"publish", "graph", "resolve"} => next = 1
  /\ coord = "settle" \/ (coord = "join" /\ blamed = 0) \/ result = "ok" => stage = "walk"
Blaming ==
  /\ blamed # 0 =>
       /\ coord \in {"join", "returned"} /\ ~hungUp
       /\ lane[blamed] = "dead" /\ round[blamed] = stage
       /\ \A l \in Lanes : Stopping(l)
       /\ \A l \in Lanes : l < blamed =>
            \/ lane[l] = "exited"
            \/ lane[l] = "waits" /\ round[l] = stage /\ verdicts[l] = <<"abort">>
Ending ==
  /\ hungUp <=> coord = "unwind" \/ result = "coordinatorPanic"
  /\ coord = "unwind" => blamed = 0 /\ \A l \in Lanes : Orphan(l)
  /\ coord = "returned" <=> result # "none"
  /\ coord = "returned" => \A l \in Lanes : Gone(l) \/ Unborn(l)
  /\ result = "laneFailure" => blamed # 0
  /\ result \in {"ok", "coordinatorPanic"} => blamed = 0

\* What the rounds have left in the slots.
Done(s) ==
  s \notin poisoned /\ slot[s] = IF s \in broken THEN "parserPanicked" ELSE "complete"
Slots ==
  \A s \in Sources :
    \/ Done(s) \/ lane[Owner(s)] = "dead"
    \/ s \notin poisoned /\ lane[Owner(s)] = "unborn"
    \/ /\ s \notin poisoned /\ lane[Owner(s)] = "works" /\ round[Owner(s)] = "record"
       /\ s \in todo[Owner(s)]
Refs ==
  \A s \in Walkable :
    round[Owner(s)] # "record" /\ lane[Owner(s)] # "dead" =>
      \/ s \in refs
      \/ lane[Owner(s)] = "works" /\ round[Owner(s)] = "refs" /\ s \in todo[Owner(s)]
Walked ==
  /\ \A s \in Walkable :
       round[Owner(s)] = "walk" /\ lane[Owner(s)] # "dead" =>
         out[s] = "whole" \/ (lane[Owner(s)] = "works" /\ s \in todo[Owner(s)])
  /\ \A s \in Sources : out[s] # "none" => s \in Walkable /\ out[s] = "whole"
Bundle ==
  /\ \A l \in Lanes : round[l] \in {"record", stage} \/ stage = "walk"
  /\ stage # "record" \/ coord = "graph" => published
  /\ published => merged = Sources \ broken
  /\ stage = "walk" => Walkable \subseteq values
Sinks ==
  /\ committed # {} => /\ coord \in {"settle", "unwind", "returned"} /\ blamed = 0
                       /\ \A l \in Lanes : lane[l] = "exited"
  /\ coord = "settle" => committed = {s \in Walkable : s < next}
  /\ result = "ok" => committed = Walkable

Protocol == Spawning /\ Awaiting /\ AllReported /\ Blaming /\ Ending
Data == Slots /\ Refs /\ Walked /\ Bundle /\ Sinks
Inv == TypeOK /\ Protocol /\ Data

-----------------------------------------------------------------------------
\* Every source belongs to the shard of one lane (shard_strides).
LEMMA OwnerIsLane ==
  \A s \in Sources : Owner(s) \in Lanes /\ s \in Shard(Owner(s))
BY PhaseAssumption DEF Sources, Lanes, Owner, Shard

\* The queues of commands that occur.
LEMMA Queues ==
  /\ Tail(<<"proceed">>) = <<>> /\ Head(<<"proceed">>) = "proceed"
  /\ Tail(<<"abort">>) = <<>> /\ Head(<<"abort">>) = "abort"
  /\ Tail(<<"proceed", "abort">>) = <<"abort">> /\ Head(<<"proceed", "abort">>) = "proceed"
  /\ Append(<<>>, "proceed") = <<"proceed">> /\ Append(<<>>, "abort") = <<"abort">>
  /\ Append(<<"proceed">>, "abort") = <<"proceed", "abort">>
  /\ <<"proceed">> # <<>> /\ <<"abort">> # <<>> /\ <<"proceed", "abort">> # <<>>
<1> DEFINE a == <<"proceed">>  b == Append(a, "abort")  c == <<"proceed", "abort">>
<1>1. b = c
  <2>1. a \in Seq({"proceed", "abort"}) /\ Len(a) = 1 /\ a[1] = "proceed"
    OBVIOUS
  <2>2. b \in Seq({"proceed", "abort"}) /\ Len(b) = 2 /\ b[1] = "proceed" /\ b[2] = "abort"
    BY <2>1, AppendProperties, "abort" \in {"proceed", "abort"}
  <2>3. c \in Seq({"proceed", "abort"}) /\ Len(c) = 2 /\ c[1] = "proceed" /\ c[2] = "abort"
    OBVIOUS
  <2>4. \A i \in 1..Len(b) : b[i] = c[i]
    BY <2>2, <2>3
  <2>5. QED
    BY <2>2, <2>3, <2>4, SeqEqual
<1>2. Tail(a) = <<>> /\ Head(a) = "proceed" /\ Append(<<>>, "proceed") = a
  OBVIOUS
<1>3. Tail(<<"abort">>) = <<>> /\ Head(<<"abort">>) = "abort" /\ Append(<<>>, "abort") = <<"abort">>
  OBVIOUS
<1>4. Tail(c) = <<"abort">> /\ Head(c) = "proceed"
  OBVIOUS
<1>5. a # <<>> /\ <<"abort">> # <<>> /\ c # <<>>
  OBVIOUS
<1>6. QED
  BY <1>1, <1>2, <1>3, <1>4, <1>5

\* The phase starts in the invariant.
LEMMA InitInv == Init => Inv
<1> SUFFICES ASSUME Init PROVE Inv
  OBVIOUS
<1>1. TypeOK
  <2>1. verdicts \in [Lanes -> Seq({"proceed", "abort"})]
    BY DEF Init
  <2>2. next \in Lanes /\ next \in 1..NumSources + 1 /\ panics \in 0..MaxPanics
    BY PhaseAssumption DEF Init, Lanes
  <2>3. todo \in [Lanes -> SUBSET Sources] /\ \A l \in Lanes : todo[l] \subseteq Shard(l)
    BY DEF Init
  <2>4. /\ lane \in [Lanes -> {"unborn", "works", "waits", "exited", "dead"}]
        /\ round \in [Lanes -> Rounds] /\ reports \in [Lanes -> {0, 1}]
    BY DEF Init, Rounds
  <2>5. stage \in Rounds /\ blamed \in Lanes \cup {0}
    BY DEF Init, Rounds
  <2>6. QED
    BY <2>1, <2>2, <2>3, <2>4, <2>5 DEF Init, TypeOK
<1>2. Protocol
  BY PhaseAssumption DEF Init, Protocol, Spawning, Awaiting, AllReported, Blaming, Ending,
    Unborn, Lanes
<1>3. Data
  BY PhaseAssumption, OwnerIsLane DEF Init, Data, Slots, Refs, Walked, Bundle, Sinks, Walkable,
    Sources, Lanes
<1>4. QED
  BY <1>1, <1>2, <1>3 DEF Inv

\* A lane at work is in the coordinator's round, and owes its report.
LEMMA Working ==
  ASSUME Inv, NEW l \in Lanes, lane[l] = "works"
  PROVE  /\ reports[l] = 0 /\ round[l] = stage
         /\ coord \in {"spawn", "await", "join", "unwind"}
BY Queues DEF Inv, TypeOK, Protocol, Spawning, Awaiting, AllReported, Blaming, Ending, Unborn,
   Owes, Called, Reported, Stopping, Orphan, Gone, After, Lanes, Rounds

\* A lane with a command has been called to the coordinator's round, or is to stop.
LEMMA Commanded ==
  ASSUME Inv, NEW l \in Lanes, lane[l] = "waits", verdicts[l] # <<>>
  PROVE  \/ coord = "await" /\ next <= l /\ Called(l)
         \/ coord = "join" /\ blamed # 0 /\ Stopping(l) /\ ~(l < blamed /\ verdicts[l] # <<"abort">>)
BY Queues DEF Inv, TypeOK, Protocol, Spawning, Awaiting, AllReported, Blaming, Ending, Unborn,
   Owes, Called, Reported, Stopping, Orphan, Gone, After, Lanes, Rounds

\* When every lane has reported, every slot is done and no lane is dead.
LEMMA Settled ==
  ASSUME Inv, \A l \in Lanes : Reported(l, 0)
  PROVE  /\ \A s \in Sources : Done(s) /\ Merged(s) = slot[s] /\ Locked(s) = slot[s]
         /\ \A l \in Lanes : lane[l] = IF stage = "walk" THEN "exited" ELSE "waits"
<1>1. \A s \in Sources : Done(s)
  BY OwnerIsLane DEF Inv, Data, Slots, Reported
<1>2. QED
  BY <1>1 DEF Reported, Done, Merged, Locked

\* What a step does to one lane leaves the others where they are.
LEMMA OthersStay ==
  ASSUME NEW l, stage' = stage,
         \A m \in Lanes \ {l} : /\ lane'[m] = lane[m] /\ round'[m] = round[m]
                                /\ reports'[m] = reports[m] /\ verdicts'[m] = verdicts[m]
  PROVE  \A m \in Lanes \ {l} :
           /\ (Unborn(m)' <=> Unborn(m))
           /\ (Owes(m)' <=> Owes(m))
           /\ (Called(m)' <=> Called(m))
           /\ (Reported(m, 0)' <=> Reported(m, 0))
           /\ (Reported(m, 1)' <=> Reported(m, 1))
           /\ (Stopping(m)' <=> Stopping(m))
           /\ (Orphan(m)' <=> Orphan(m))
<1> SUFFICES ASSUME NEW m \in Lanes \ {l}
    PROVE  /\ (Unborn(m)' <=> Unborn(m))
           /\ (Owes(m)' <=> Owes(m))
           /\ (Called(m)' <=> Called(m))
           /\ (Reported(m, 0)' <=> Reported(m, 0))
           /\ (Reported(m, 1)' <=> Reported(m, 1))
           /\ (Stopping(m)' <=> Stopping(m))
           /\ (Orphan(m)' <=> Orphan(m))
  OBVIOUS
<1>1. Unborn(m)' <=> Unborn(m)
  BY DEF Unborn
<1>2. Owes(m)' <=> Owes(m)
  BY DEF Owes
<1>3. Called(m)' <=> Called(m)
  BY DEF Called, After
<1>4. Reported(m, 0)' <=> Reported(m, 0)
  BY DEF Reported
<1>5. Reported(m, 1)' <=> Reported(m, 1)
  BY DEF Reported
<1>6. Stopping(m)' <=> Stopping(m)
  BY DEF Stopping, Gone, After
<1>7. Orphan(m)' <=> Orphan(m)
  BY <1>1 DEF Orphan, Gone
<1>8. QED
  BY <1>1, <1>2, <1>3, <1>4, <1>5, <1>6, <1>7

\* The protocol does not look at what a lane has still to do, nor at what it makes.
LEMMA SameProtocol ==
  ASSUME Protocol, UNCHANGED <<lane, round, linkVars, coordVars>> PROVE Protocol'
<1> USE DEF linkVars, coordVars, Unborn, Owes, Called, Reported, Stopping, Orphan, Gone, After
<1>1. Spawning' /\ Awaiting'
  BY DEF Protocol, Spawning, Awaiting
<1>2. AllReported'
  BY DEF Protocol, AllReported
<1>3. Blaming'
  BY DEF Protocol, Blaming
<1>4. Ending'
  BY DEF Protocol, Ending
<1>5. QED
  BY <1>1, <1>2, <1>3, <1>4 DEF Protocol

\* A recorded slot is done; nobody else's slot changes.
LEMMA RecordFileInv == ASSUME Inv, NEW l \in Lanes, NEW s \in Shard(l), RecordFile(l, s) PROVE Inv'
<1> USE PhaseAssumption, OwnerIsLane, Queues DEF Inv, Lanes, Rounds, sourceVars, laneVars,
      linkVars, coordVars, slotVars, sinkVars
<1>1. TypeOK'
  BY DEF TypeOK, RecordFile, Sources, Shard, Retained, First
<1>2. Protocol'
  BY SameProtocol DEF RecordFile
<1>3. Slots'
  BY DEF TypeOK, Data, Slots, Done, RecordFile, Sources, Shard, Retained, First
<1>4. Refs' /\ Walked'
  BY DEF TypeOK, Data, Refs, Walked, Walkable, RecordFile, Sources, Shard, Retained
<1>5. Bundle' /\ Sinks'
  BY DEF TypeOK, Data, Bundle, Sinks, Walkable, RecordFile, Sources, Shard, Retained
<1>6. QED
  BY <1>1, <1>2, <1>3, <1>4, <1>5 DEF Protocol, Data

\* In the refs round there is a bundle, so a walkable file gets its refs.
LEMMA StoreRefsInv == ASSUME Inv, NEW l \in Lanes, NEW s \in Shard(l), StoreRefs(l, s) PROVE Inv'
<1> USE PhaseAssumption, OwnerIsLane, Queues DEF Inv, Lanes, Rounds, sourceVars, laneVars,
      linkVars, coordVars, slotVars, sinkVars
<1>1. TypeOK'
  BY DEF TypeOK, StoreRefs, Sources, Shard, Retained, First
<1>2. Protocol'
  BY SameProtocol DEF StoreRefs
<1>3. Slots' /\ Walked' /\ Bundle' /\ Sinks'
  <2>1. /\ UNCHANGED <<lane, round, slot, poisoned, out, values, merged, committed, published>>
        /\ \A m \in Lanes : round[m] # "refs" => todo'[m] = todo[m]
    BY DEF TypeOK, StoreRefs
  <2>2. Slots'
    BY <2>1 DEF Data, Slots, Done, Sources, StoreRefs
  <2>3. Walked'
    BY <2>1 DEF Data, Walked, Walkable, Sources, StoreRefs
  <2>4. Bundle'
    BY <2>1 DEF Data, Bundle, Walkable, StoreRefs
  <2>5. Sinks'
    BY <2>1 DEF Data, Sinks, Walkable, StoreRefs
  <2>6. QED
    BY <2>2, <2>3, <2>4, <2>5
<1>4. Refs'
  <2>1. s \in Walkable => s \in refs'
    BY Working DEF TypeOK, Data, Slots, Bundle, Done, Walkable, StoreRefs, First, Refused, Shard
  <2>2. QED
    BY <2>1 DEF TypeOK, Data, Refs, Walkable, StoreRefs
<1>5. QED
  BY <1>1, <1>2, <1>3, <1>4 DEF Protocol, Data

\* In the walk round every walkable file is resolved, so it is walked whole.
LEMMA WalkFileInv == ASSUME Inv, NEW l \in Lanes, NEW s \in Shard(l), WalkFile(l, s) PROVE Inv'
<1> USE PhaseAssumption, OwnerIsLane, Queues DEF Inv, Lanes, Rounds, sourceVars, laneVars,
      linkVars, coordVars, slotVars, sinkVars
<1>1. TypeOK'
  BY DEF TypeOK, WalkFile, Sources, Shard, Retained, First
<1>2. Protocol'
  BY SameProtocol DEF WalkFile
<1>3. Slots' /\ Refs' /\ Bundle' /\ Sinks'
  <2>1. Slots'
    BY DEF TypeOK, Data, Slots, Done, WalkFile, Sources, Shard, Retained
  <2>2. Refs'
    BY DEF TypeOK, Data, Refs, Walkable, WalkFile, Sources, Shard, Retained
  <2>3. Bundle' /\ Sinks'
    BY DEF TypeOK, Data, Bundle, Sinks, Walkable, WalkFile
  <2>4. QED
    BY <2>1, <2>2, <2>3
<1>4. Walked'
  <2>1. stage = "walk" /\ published
    BY Working DEF WalkFile, Data, Bundle
  <2>2. s \in Walkable => ~Refused(s) /\ s \in values
    BY <2>1 DEF TypeOK, Data, Slots, Bundle, Done, Walkable, WalkFile, Refused, Shard
  <2>3. s \in Walkable => out'[s] = "whole"
    BY <2>1, <2>2 DEF TypeOK, Walkable, WalkFile, Shard
  <2>4. s \notin Walkable => out' = out
    BY DEF Walkable, WalkFile
  <2>5. \A t \in Sources \ {s} : out'[t] = out[t]
    BY DEF TypeOK, WalkFile
  <2>6. QED
    BY <2>3, <2>4, <2>5 DEF TypeOK, Data, Walked, Walkable, WalkFile, Shard
<1>5. QED
  BY <1>1, <1>2, <1>3, <1>4 DEF Protocol, Data

\* A lane that owed its report has one on its way.
LEMMA RendezvousInv == ASSUME Inv, NEW l \in Lanes, Rendezvous(l) PROVE Inv'
<1> USE PhaseAssumption, OwnerIsLane, Queues DEF Inv, Lanes, Rounds, sourceVars, laneVars,
      linkVars, coordVars, slotVars, sinkVars
<1>1. TypeOK'
  <2>1. reports' \in [Lanes -> {0, 1}]
    <3>1. reports[l] = 0 /\ reports \in [Lanes -> {0, 1}]
      BY Working DEF TypeOK, Rendezvous
    <3>2. QED
      BY <3>1 DEF Rendezvous
  <2>2. lane' \in [Lanes -> {"unborn", "works", "waits", "exited", "dead"}]
    BY DEF TypeOK, Rendezvous
  <2>3. QED
    BY <2>1, <2>2 DEF TypeOK, Rendezvous
<1>2. Spawning' /\ Awaiting'
  <2>1. round[l] = stage /\ reports[l] = 0
    BY Working DEF Rendezvous
  <2>2. coord \in {"spawn", "await"} => Owes(l)
    BY DEF TypeOK, Protocol, Spawning, Awaiting, Unborn, Owes, Called, Reported, Rendezvous
  <2>3. Owes(l) => Reported(l, 1)'
    BY DEF TypeOK, Owes, Reported, Rendezvous
  <2>4. \A m \in Lanes \ {l} : /\ lane'[m] = lane[m] /\ round'[m] = round[m]
                                /\ reports'[m] = reports[m] /\ verdicts'[m] = verdicts[m]
    BY DEF TypeOK, Rendezvous
  <2>5. UNCHANGED <<coord, next, stage>>
    BY DEF Rendezvous
  <2>6. coord = "spawn" => l < next
    BY DEF TypeOK, Protocol, Spawning, Unborn, Rendezvous
  <2>7. coord = "await" => ~(l < next)
    BY DEF TypeOK, Protocol, Awaiting, Reported, Rendezvous
  <2>8. Spawning'
    BY <2>2, <2>3, <2>4, <2>5, <2>6, OthersStay DEF Protocol, Spawning
  <2>9. Awaiting'
    BY <2>2, <2>3, <2>4, <2>5, <2>7, OthersStay DEF Protocol, Awaiting
  <2>10. QED
    BY <2>8, <2>9
<1>3. AllReported' /\ Ending' /\ Blaming'
  <2>1. /\ UNCHANGED <<coord, next, stage, blamed, result, hungUp>>
        /\ lane[l] = "works" /\ lane'[l] = "waits" /\ round'[l] = round[l] /\ verdicts'[l] = verdicts[l]
        /\ round[l] # "walk"
    BY DEF TypeOK, Rendezvous
  <2>2. \A m \in Lanes \ {l} : /\ lane'[m] = lane[m] /\ round'[m] = round[m]
                                /\ reports'[m] = reports[m] /\ verdicts'[m] = verdicts[m]
    BY DEF TypeOK, Rendezvous
  <2>3. AllReported'
    BY <2>1 DEF Protocol, AllReported, Reported
  <2>4. Orphan(l) => Orphan(l)'
    BY <2>1 DEF Orphan, Gone, Unborn
  <2>5. coord # "returned"
    BY <2>1 DEF Protocol, Ending, Gone, Unborn
  <2>6. Ending'
    BY <2>1, <2>2, <2>4, <2>5, OthersStay DEF Protocol, Ending
  <2>7. Stopping(l) => Stopping(l)'
    BY <2>1 DEF Stopping, Gone
  <2>8. Blaming'
    <3>1. SUFFICES ASSUME blamed # 0 PROVE Blaming'
      BY <2>1 DEF Blaming
    <3>2. \A m \in Lanes : Stopping(m)'
      BY <2>1, <2>2, <2>7, <3>1, OthersStay DEF Protocol, Blaming
    <3>3. blamed # l /\ blamed \in Lanes /\ lane[blamed] = "dead" /\ round[blamed] = stage
      BY <2>1, <3>1 DEF TypeOK, Protocol, Blaming
    <3>4. ~(l < blamed)
      BY <2>1, <3>1 DEF Protocol, Blaming
    <3>5. \A m \in Lanes : m < blamed =>
             \/ lane'[m] = "exited"
             \/ lane'[m] = "waits" /\ round'[m] = stage /\ verdicts'[m] = <<"abort">>
      BY <2>2, <3>1, <3>4 DEF Protocol, Blaming
    <3>6. QED
      BY <2>1, <2>2, <3>1, <3>2, <3>3, <3>5 DEF Protocol, Blaming
  <2>9. QED
    BY <2>3, <2>6, <2>8
<1>4. Slots'
  BY DEF TypeOK, Data, Slots, Done, Rendezvous, Sources, Shard, Retained
<1>5. Refs'
  BY DEF TypeOK, Data, Refs, Walkable, Rendezvous, Sources, Shard, Retained
<1>6. Walked'
  BY DEF TypeOK, Data, Walked, Walkable, Rendezvous, Sources, Shard, Retained
<1>7. Bundle' /\ Sinks'
  BY DEF TypeOK, Data, Bundle, Sinks, Walkable, Rendezvous, Sources, Shard, Retained
<1>8. QED
  BY <1>1, <1>2, <1>3, <1>4, <1>5, <1>6, <1>7 DEF Protocol, Data

\* The last report of a lane, which does not wait for an answer.
LEMMA FinishInv == ASSUME Inv, NEW l \in Lanes, Finish(l) PROVE Inv'
<1> USE PhaseAssumption, OwnerIsLane, Queues DEF Inv, Lanes, Rounds, sourceVars, laneVars,
      linkVars, coordVars, slotVars, sinkVars
<1>1. TypeOK'
  <2>1. reports' \in [Lanes -> {0, 1}]
    <3>1. reports[l] = 0 /\ reports \in [Lanes -> {0, 1}]
      BY Working DEF TypeOK, Finish
    <3>2. QED
      BY <3>1 DEF Finish
  <2>2. lane' \in [Lanes -> {"unborn", "works", "waits", "exited", "dead"}]
    BY DEF TypeOK, Finish
  <2>3. QED
    BY <2>1, <2>2 DEF TypeOK, Finish
<1>2. Spawning' /\ Awaiting'
  <2>1. round[l] = stage /\ reports[l] = 0
    BY Working DEF Finish
  <2>2. coord # "spawn" /\ (coord = "await" => Owes(l) /\ ~(l < next))
    BY <2>1 DEF TypeOK, Protocol, Spawning, Awaiting, Unborn, Owes, Called, Reported, Finish
  <2>3. Owes(l) => Reported(l, 1)'
    BY DEF TypeOK, Owes, Reported, Finish
  <2>4. \A m \in Lanes \ {l} : /\ lane'[m] = lane[m] /\ round'[m] = round[m]
                                /\ reports'[m] = reports[m] /\ verdicts'[m] = verdicts[m]
    BY DEF TypeOK, Finish
  <2>5. UNCHANGED <<coord, next, stage>>
    BY DEF Finish
  <2>6. QED
    BY <2>2, <2>3, <2>4, <2>5, OthersStay DEF Protocol, Spawning, Awaiting
<1>3. AllReported' /\ Blaming' /\ Ending'
  BY Working DEF TypeOK, Protocol, Spawning, Awaiting, AllReported, Blaming, Ending, Unborn,
     Owes, Called, Reported, Stopping, Orphan, Gone, After, Finish
<1>4. Slots'
  BY DEF TypeOK, Data, Slots, Done, Finish, Sources, Shard, Retained
<1>5. Refs'
  BY DEF TypeOK, Data, Refs, Walkable, Finish, Sources, Shard, Retained
<1>6. Walked'
  BY DEF TypeOK, Data, Walked, Walkable, Finish, Sources, Shard, Retained
<1>7. Bundle' /\ Sinks'
  BY DEF TypeOK, Data, Bundle, Sinks, Walkable, Finish, Sources, Shard, Retained
<1>8. QED
  BY <1>1, <1>2, <1>3, <1>4, <1>5, <1>6, <1>7 DEF Protocol, Data

\* An orphan that waits ends.
LEMMA ReceiveHangupInv == ASSUME Inv, NEW l \in Lanes, ReceiveHangup(l) PROVE Inv'
<1> USE PhaseAssumption, OwnerIsLane, Queues DEF Inv, Lanes, Rounds, sourceVars, laneVars,
      linkVars, coordVars, slotVars, sinkVars
<1>1. TypeOK'
  BY DEF TypeOK, ReceiveHangup, Sources, Shard, Retained
<1>2. Protocol'
  BY DEF TypeOK, Protocol, Spawning, Awaiting, AllReported, Blaming, Ending, Unborn, Owes,
     Called, Reported, Stopping, Orphan, Gone, After, ReceiveHangup
<1>3. Slots'
  BY DEF TypeOK, Data, Slots, Done, ReceiveHangup, Sources, Shard, Retained
<1>4. Refs'
  BY DEF TypeOK, Data, Refs, Walkable, ReceiveHangup, Sources, Shard, Retained
<1>5. Walked'
  BY DEF TypeOK, Data, Walked, Walkable, ReceiveHangup, Sources, Shard, Retained
<1>6. Bundle' /\ Sinks'
  BY DEF TypeOK, Data, Bundle, Sinks, Walkable, ReceiveHangup, Sources, Shard, Retained
<1>7. QED
  BY <1>1, <1>2, <1>3, <1>4, <1>5, <1>6 DEF Protocol, Data

\* A dead lane owes its report for ever, and only its own slots suffer.
LEMMA LanePanicsInv == ASSUME Inv, NEW l \in Lanes, LanePanics(l) PROVE Inv'
<1> USE PhaseAssumption, OwnerIsLane, Queues DEF Inv, Lanes, Rounds, sourceVars, laneVars,
      linkVars, coordVars, slotVars, sinkVars
<1>1. TypeOK'
  <2>1. /\ lane' \in [Lanes -> {"unborn", "works", "waits", "exited", "dead"}]
        /\ panics' \in 0..MaxPanics
    BY DEF TypeOK, LanePanics
  <2>2. CASE UNCHANGED <<slot, poisoned>>
    BY <2>1, <2>2 DEF TypeOK, LanePanics
  <2>3. CASE ~UNCHANGED <<slot, poisoned>>
    <3>1. PICK s \in todo[l] : /\ slot' = [slot EXCEPT ![s] = "partial"]
                              /\ poisoned' = poisoned \cup {s}
      BY <2>3 DEF LanePanics
    <3>2. s \in Sources
      BY DEF TypeOK
    <3>3. QED
      BY <2>1, <3>1, <3>2 DEF TypeOK, LanePanics
  <2>4. QED
    BY <2>2, <2>3
<1>2. Spawning' /\ Awaiting'
  <2>1. round[l] = stage /\ lane[l] = "works" /\ reports[l] = 0
    BY Working DEF LanePanics
  <2>2. coord \in {"spawn", "await"} => Owes(l)
    BY <2>1 DEF Protocol, Spawning, Awaiting, Unborn, Called, Reported
  <2>3. Owes(l) => Owes(l)'
    BY <2>1 DEF TypeOK, Owes, LanePanics
  <2>4. \A m \in Lanes \ {l} : /\ lane'[m] = lane[m] /\ round'[m] = round[m]
                                /\ reports'[m] = reports[m] /\ verdicts'[m] = verdicts[m]
    BY DEF TypeOK, LanePanics
  <2>5. UNCHANGED <<coord, next, stage>>
    BY DEF LanePanics
  <2>6. coord = "spawn" => l < next
    BY <2>1 DEF Protocol, Spawning, Unborn
  <2>7. coord = "await" => ~(l < next)
    BY <2>1 DEF Protocol, Awaiting, Reported
  <2>8. Spawning'
    BY <2>2, <2>3, <2>4, <2>5, <2>6, OthersStay DEF Protocol, Spawning
  <2>9. Awaiting'
    BY <2>2, <2>3, <2>4, <2>5, <2>7, OthersStay DEF Protocol, Awaiting
  <2>10. QED
    BY <2>8, <2>9
<1>3. AllReported' /\ Ending'
  <2>1. /\ UNCHANGED <<coord, next, stage, blamed, result, hungUp>>
        /\ lane[l] = "works" /\ lane'[l] = "dead"
    BY DEF TypeOK, LanePanics
  <2>2. \A m \in Lanes \ {l} : /\ lane'[m] = lane[m] /\ round'[m] = round[m]
                                /\ reports'[m] = reports[m] /\ verdicts'[m] = verdicts[m]
    BY DEF TypeOK, LanePanics
  <2>3. AllReported'
    BY <2>1 DEF Protocol, AllReported, Reported
  <2>4. Gone(l)' /\ Orphan(l)'
    BY <2>1 DEF Orphan, Gone
  <2>5. coord # "returned"
    BY <2>1 DEF Protocol, Ending, Gone, Unborn
  <2>6. Ending'
    BY <2>1, <2>2, <2>4, <2>5, OthersStay DEF Protocol, Ending
  <2>7. QED
    BY <2>3, <2>6
<1>4. Blaming'
  BY Working DEF TypeOK, Protocol, Spawning, Awaiting, AllReported, Blaming, Ending, Unborn,
     Owes, Called, Reported, Stopping, Orphan, Gone, After, LanePanics
<1>5. Slots'
  <2>1. ASSUME NEW t \in Sources, Owner(t) # l
        PROVE  /\ t \in poisoned' <=> t \in poisoned
               /\ slot'[t] = slot[t] /\ lane'[Owner(t)] = lane[Owner(t)]
    BY <2>1 DEF TypeOK, LanePanics, Shard
  <2>2. lane'[l] = "dead"
    BY DEF TypeOK, LanePanics
  <2>3. QED
    BY <2>1, <2>2 DEF Data, Slots, Done, LanePanics
<1>6. Refs' /\ Walked'
  BY DEF TypeOK, Data, Refs, Walked, Walkable, LanePanics, Sources, Shard, Retained
<1>7. Bundle' /\ Sinks'
  BY DEF TypeOK, Data, Bundle, Sinks, Walkable, LanePanics, Sources, Shard, Retained
<1>8. QED
  BY <1>1, <1>2, <1>3, <1>4, <1>5, <1>6, <1>7 DEF Protocol, Data

\* A called lane joins the coordinator's round; one that is to stop stops.
LEMMA ReceiveVerdictInv == ASSUME Inv, NEW l \in Lanes, ReceiveVerdict(l) PROVE Inv'
<1> USE PhaseAssumption, OwnerIsLane, Queues DEF Inv, Lanes, Rounds, sourceVars, laneVars,
      linkVars, coordVars, slotVars, sinkVars
<1>1. \/ lane'[l] = "works" /\ round'[l] = After(round[l]) /\ todo'[l] = Retained(l)
         /\ Head(verdicts[l]) = "proceed"
      \/ lane'[l] = "exited" /\ UNCHANGED <<round, todo>> /\ Head(verdicts[l]) = "abort"
  <2>1. CASE /\ Head(verdicts[l]) = "proceed"
             /\ lane' = [lane EXCEPT ![l] = "works"]
             /\ round' = [round EXCEPT ![l] = After(@)]
             /\ todo' = [todo EXCEPT ![l] = Retained(l)]
    BY <2>1 DEF TypeOK
  <2>2. CASE /\ Head(verdicts[l]) = "abort"
             /\ lane' = [lane EXCEPT ![l] = "exited"]
             /\ UNCHANGED <<round, todo>>
    BY <2>2 DEF TypeOK
  <2>3. QED
    BY <2>1, <2>2 DEF ReceiveVerdict
<1>2. verdicts'[l] = Tail(verdicts[l]) /\ reports'[l] = reports[l] /\ lane[l] = "waits"
      /\ \A m \in Lanes \ {l} : /\ lane'[m] = lane[m] /\ round'[m] = round[m]
                               /\ reports'[m] = reports[m] /\ verdicts'[m] = verdicts[m]
                               /\ todo'[m] = todo[m]
  BY DEF TypeOK, ReceiveVerdict
<1>3. TypeOK'
  <2>1. verdicts' \in [Lanes -> Seq({"proceed", "abort"})]
    BY DEF TypeOK, ReceiveVerdict
  <2>2. /\ lane' \in [Lanes -> {"unborn", "works", "waits", "exited", "dead"}]
        /\ round' \in [Lanes -> {"record", "refs", "walk"}]
    BY DEF TypeOK, ReceiveVerdict, After
  <2>3. todo' \in [Lanes -> SUBSET Sources] /\ \A m \in Lanes : todo'[m] \subseteq Shard(m)
    <3>1. Retained(l) \subseteq Shard(l) /\ Shard(l) \subseteq Sources
      BY DEF Retained, Shard
    <3>2. todo' = [todo EXCEPT ![l] = Retained(l)] \/ todo' = todo
      BY DEF ReceiveVerdict
    <3>3. /\ todo \in [Lanes -> SUBSET Sources]
          /\ \A m \in Lanes : todo[m] \subseteq Shard(m)
      BY DEF TypeOK
    <3>4. todo' \in [Lanes -> SUBSET Sources]
      BY <3>1, <3>2, <3>3
    <3>5. \A m \in Lanes : todo'[m] = todo[m] \/ (m = l /\ todo'[m] = Retained(l))
      BY <3>2, <3>3
    <3>6. QED
      BY <3>1, <3>3, <3>4, <3>5
  <2>4. QED
    BY <2>1, <2>2, <2>3 DEF TypeOK, ReceiveVerdict
<1>4. Protocol'
  <2>1. UNCHANGED <<coord, stage, next, blamed, result, hungUp>>
    BY DEF ReceiveVerdict
  <2>2. CASE coord = "await" /\ next <= l /\ Called(l)
    <3>1. Owes(l)'
      BY <1>1, <1>2, <2>1, <2>2 DEF Called, Owes
    <3>2. blamed = 0 /\ coord' = "await" /\ ~hungUp /\ result = "none"
      BY <2>1, <2>2 DEF TypeOK, Protocol, Blaming, Ending
    <3>3. Awaiting'
      <4>1. ~(l < next)
        BY <2>2 DEF TypeOK
      <4>2. \A m \in Lanes \ {l} : /\ (Owes(m)' <=> Owes(m))
                                  /\ (Called(m)' <=> Called(m))
                                  /\ (Reported(m, 0)' <=> Reported(m, 0))
                                  /\ (Reported(m, 1)' <=> Reported(m, 1))
        BY <1>2, <2>1, OthersStay
      <4>3. QED
        BY <2>1, <2>2, <3>1, <4>1, <4>2 DEF Protocol, Awaiting
    <3>4. Spawning' /\ AllReported' /\ Blaming' /\ Ending'
      BY <2>1, <2>2, <3>2 DEF Spawning, AllReported, Blaming, Ending
    <3>5. QED
      BY <3>3, <3>4 DEF Protocol
  <2>3. CASE /\ coord = "join" /\ blamed # 0 /\ Stopping(l)
             /\ ~(l < blamed /\ verdicts[l] # <<"abort">>)
    <3>1. Stopping(l)'
      BY <1>1, <1>2, <2>1, <2>3 DEF ReceiveVerdict, Stopping, Gone
    <3>2. l < blamed => lane'[l] = "exited"
      BY <1>1, <2>3
    <3>3. l # blamed
      BY <1>2 DEF Protocol, Blaming
    <3>4. Blaming'
      <4>1. \A m \in Lanes \ {l} : Stopping(m)' <=> Stopping(m)
        BY <1>2, <2>1, OthersStay
      <4>2. blamed \in Lanes \ {l}
        BY <2>3, <3>3 DEF TypeOK
      <4>3. QED
        BY <1>2, <2>1, <2>3, <3>1, <3>2, <4>1, <4>2 DEF Protocol, Blaming
    <3>5. Spawning' /\ Awaiting' /\ AllReported' /\ Ending'
      BY <2>1, <2>3 DEF TypeOK, Protocol, Spawning, Awaiting, AllReported, Ending
    <3>6. QED
      BY <3>4, <3>5 DEF Protocol
  <2>4. QED
    BY <2>2, <2>3, Commanded DEF ReceiveVerdict
<1>5. \A m \in Lanes : lane'[m] = "dead" <=> lane[m] = "dead"
  BY <1>1, <1>2 DEF TypeOK
<1>6. Slots'
  BY <1>1, <1>2 DEF Data, Slots, Done, ReceiveVerdict
<1>7. Refs'
  <2>1. UNCHANGED <<refs, streamed, styled, broken>>
    BY DEF ReceiveVerdict
  <2>2. ASSUME NEW s \in Walkable, Owner(s) # l
        PROVE  round'[Owner(s)] # "record" /\ lane'[Owner(s)] # "dead" =>
                 \/ s \in refs
                 \/ lane'[Owner(s)] = "works" /\ round'[Owner(s)] = "refs" /\ s \in todo'[Owner(s)]
    BY <1>2, <2>2 DEF TypeOK, Data, Refs, Walkable
  <2>3. ASSUME NEW s \in Walkable, Owner(s) = l
        PROVE  round'[l] # "record" =>
                 \/ s \in refs
                 \/ lane'[l] = "works" /\ round'[l] = "refs" /\ s \in todo'[l]
    BY <1>1, <1>2, <2>3 DEF TypeOK, Data, Refs, Walkable, Retained, Shard, After
  <2>4. QED
    BY <2>1, <2>2, <2>3 DEF Refs, Walkable
<1>8. Walked'
  <2>1. UNCHANGED <<out, streamed, styled, broken>>
    BY DEF ReceiveVerdict
  <2>2. ASSUME NEW s \in Walkable, Owner(s) # l
        PROVE  round'[Owner(s)] = "walk" /\ lane'[Owner(s)] # "dead" =>
                 out[s] = "whole" \/ (lane'[Owner(s)] = "works" /\ s \in todo'[Owner(s)])
    BY <1>2, <2>2 DEF TypeOK, Data, Walked, Walkable
  <2>3. ASSUME NEW s \in Walkable, Owner(s) = l
        PROVE  round'[l] = "walk" =>
                 out[s] = "whole" \/ (lane'[l] = "works" /\ s \in todo'[l])
    BY <1>1, <1>2, <2>3 DEF TypeOK, Data, Walked, Walkable, Retained, Shard, After
  <2>4. QED
    BY <2>1, <2>2, <2>3 DEF Data, Walked, Walkable
<1>9. Bundle' /\ Sinks'
  <2>1. round'[l] \in {"record", stage} \/ stage = "walk"
    BY <1>1, Commanded DEF Data, Bundle, ReceiveVerdict, Called, Stopping, Gone
  <2>2. \A m \in Lanes : lane[m] = "exited" => lane'[m] = "exited"
    BY <1>2
  <2>3. QED
    BY <1>2, <2>1, <2>2 DEF Data, Bundle, Sinks, Walkable, ReceiveVerdict
<1>10. QED
  BY <1>1, <1>2, <1>3, <1>4, <1>5, <1>6, <1>7, <1>8, <1>9 DEF Protocol, Data

\* The lane at which the spawn loop is begins to record.
LEMMA SpawnLaneInv == ASSUME Inv, SpawnLane PROVE Inv'
<1> USE PhaseAssumption, OwnerIsLane, Queues DEF Inv, Lanes, Rounds, sourceVars, laneVars,
      linkVars, coordVars, slotVars, sinkVars
<1>1. PICK n \in Lanes : n = next
  BY DEF TypeOK, SpawnLane
<1>2. TypeOK'
  <2>1. next \in Lanes /\ Shard(next) \subseteq Sources
    BY DEF TypeOK, SpawnLane, Shard
  <2>2. /\ lane' \in [Lanes -> {"unborn", "works", "waits", "exited", "dead"}]
        /\ todo' \in [Lanes -> SUBSET Sources] /\ \A l \in Lanes : todo'[l] \subseteq Shard(l)
    BY <2>1 DEF TypeOK, SpawnLane
  <2>3. coord' \in {"spawn", "await"} /\ next' \in Lanes /\ next' \in 1..NumSources + 1
    BY <2>1 DEF SpawnLane
  <2>4. QED
    BY <2>2, <2>3 DEF TypeOK, SpawnLane
<1>3. /\ lane[n] = "unborn" /\ Owes(n)'
      /\ \A l \in Lanes \ {n} : lane'[l] = lane[l] /\ todo'[l] = todo[l]
      /\ todo'[n] = Shard(n) /\ lane'[n] = "works" /\ round'[n] = "record"
  <2>1. Unborn(n) /\ stage = "record"
    BY <1>1 DEF TypeOK, Protocol, Spawning, SpawnLane
  <2>2. /\ lane' = [lane EXCEPT ![n] = "works"] /\ todo' = [todo EXCEPT ![n] = Shard(n)]
        /\ UNCHANGED <<round, reports, verdicts, stage>>
    BY <1>1 DEF SpawnLane
  <2>3. QED
    BY <2>1, <2>2 DEF TypeOK, Unborn, Owes
<1>4. \A l \in Lanes : IF l <= n THEN (Owes(l) \/ Reported(l, 1))' ELSE Unborn(l)'
  <2>1. UNCHANGED <<stage, round, reports, verdicts>>
    BY DEF SpawnLane
  <2>2. \A l \in Lanes \ {n} : /\ (Unborn(l)' <=> Unborn(l))
                                 /\ (Owes(l)' <=> Owes(l))
                                 /\ (Reported(l, 1)' <=> Reported(l, 1))
    BY <1>3, <2>1, OthersStay
  <2>3. QED
    <3>1. \A l \in Lanes : IF l < n THEN Owes(l) \/ Reported(l, 1) ELSE Unborn(l)
      BY <1>1 DEF Protocol, Spawning, SpawnLane
    <3>2. ASSUME NEW l \in Lanes, l # n
          PROVE  IF l <= n THEN (Owes(l) \/ Reported(l, 1))' ELSE Unborn(l)'
      BY <2>2, <3>1, <3>2
    <3>3. QED
      BY <1>3, <3>2
<1>5. Spawning' /\ Awaiting'
  BY <1>1, <1>3, <1>4 DEF TypeOK, Protocol, Spawning, Awaiting, SpawnLane
<1>6. AllReported' /\ Blaming' /\ Ending'
  BY DEF TypeOK, Protocol, Spawning, Awaiting, AllReported, Blaming, Ending, Unborn, Owes,
     Called, Reported, Stopping, Orphan, Gone, After, SpawnLane
<1>7. Slots'
  BY <1>3 DEF TypeOK, Data, Slots, Done, SpawnLane, Shard
<1>8. Refs' /\ Walked'
  BY <1>3 DEF TypeOK, Data, Refs, Walked, Walkable, SpawnLane
<1>9. Bundle' /\ Sinks'
  BY <1>3 DEF TypeOK, Data, Bundle, Sinks, Walkable, SpawnLane
<1>10. QED
  BY <1>1, <1>2, <1>3, <1>4, <1>5, <1>6, <1>7, <1>8, <1>9 DEF Protocol, Data

\* One more lane of the prefix that has reported; after the last one all have.
LEMMA AwaitReportInv == ASSUME Inv, AwaitReport PROVE Inv'
<1> USE PhaseAssumption, OwnerIsLane, Queues DEF Inv, Lanes, Rounds, sourceVars, laneVars,
      linkVars, coordVars, slotVars, sinkVars
<1>1. PICK n \in Lanes : n = next
  BY DEF TypeOK, AwaitReport
<1>2. /\ reports[n] = 1 /\ Reported(n, 1) /\ Reported(n, 0)'
      /\ \A l \in Lanes \ {n} : reports'[l] = reports[l]
  <2>1. reports[n] = 1
    BY <1>1 DEF TypeOK, AwaitReport
  <2>2. Reported(n, 1)
    BY <1>1, <2>1 DEF TypeOK, Protocol, Awaiting, Owes, Called, AwaitReport
  <2>3. reports' = [reports EXCEPT ![n] = 0] /\ UNCHANGED <<lane, round, verdicts, stage>>
    BY <1>1, <2>1 DEF TypeOK, AwaitReport
  <2>4. QED
    BY <2>1, <2>2, <2>3 DEF TypeOK, Reported
<1>3. TypeOK'
  <2>1. reports' \in [Lanes -> {0, 1}]
    BY <1>1, <1>2 DEF TypeOK, AwaitReport
  <2>2. /\ coord' \in {"await", "publish", "resolve", "join"}
        /\ next' \in Lanes /\ next' \in 1..NumSources + 1
    BY <1>1 DEF AwaitReport
  <2>3. QED
    BY <2>1, <2>2 DEF TypeOK, AwaitReport
<1>4. \A l \in Lanes : IF l <= n THEN Reported(l, 0)'
                       ELSE (Owes(l) \/ Called(l) \/ Reported(l, 1))'
  <2>1. UNCHANGED <<stage, lane, round, verdicts>>
    BY DEF AwaitReport
  <2>2. \A l \in Lanes \ {n} : /\ (Owes(l)' <=> Owes(l))
                                 /\ (Called(l)' <=> Called(l))
                                 /\ (Reported(l, 0)' <=> Reported(l, 0))
                                 /\ (Reported(l, 1)' <=> Reported(l, 1))
    BY <1>2, <2>1, OthersStay
  <2>3. QED
    BY <1>1, <1>2, <2>2 DEF TypeOK, Protocol, Awaiting, AwaitReport
<1>5. blamed = 0 /\ result = "none" /\ ~hungUp
  BY DEF Protocol, Blaming, Ending, AwaitReport
<1>6. Spawning' /\ Awaiting'
  BY <1>1, <1>2, <1>4, <1>5 DEF TypeOK, Spawning, Awaiting, AwaitReport
<1>7. AllReported'
  BY <1>1, <1>2, <1>4, <1>5 DEF TypeOK, AllReported, AwaitReport
<1>8. Blaming' /\ Ending'
  BY <1>5 DEF TypeOK, Protocol, Blaming, Ending, AwaitReport
<1>9. Slots' /\ Refs' /\ Walked' /\ Bundle' /\ Sinks'
  BY DEF TypeOK, Data, Slots, Refs, Walked, Bundle, Sinks, Walkable, AwaitReport, Sources,
     Shard, Retained, Done
<1>10. QED
  BY <1>1, <1>2, <1>3, <1>4, <1>5, <1>6, <1>7, <1>8, <1>9 DEF Protocol, Data

\* The lane without a report is dead, those before it wait, and all are told.
LEMMA AbortRoundInv == ASSUME Inv, AbortRound PROVE Inv'
<1> USE PhaseAssumption, OwnerIsLane, Queues DEF Inv, Lanes, Rounds, sourceVars, laneVars,
      linkVars, coordVars, slotVars, sinkVars
<1>1. /\ next \in Lanes /\ lane[next] = "dead" /\ round[next] = stage
      /\ blamed = 0 /\ result = "none" /\ ~hungUp
  BY DEF TypeOK, Protocol, Awaiting, Blaming, Ending, Owes, Called, Reported, Gone, AbortRound
<1>2. verdicts' \in [Lanes -> Seq({"proceed", "abort"})]
      /\ \A l \in Lanes : verdicts'[l] = Append(verdicts[l], "abort")
  BY DEF TypeOK, AbortRound
<1>3. TypeOK'
  BY <1>1, <1>2 DEF TypeOK, AbortRound
<1>4. \A l \in Lanes : Stopping(l)'
  <2> SUFFICES ASSUME NEW l \in Lanes PROVE Stopping(l)'
    OBVIOUS
  <2>1. /\ lane'[l] = lane[l] /\ round'[l] = round[l] /\ reports'[l] = reports[l] /\ stage' = stage
        /\ verdicts'[l] = Append(verdicts[l], "abort")
    BY <1>2 DEF AbortRound
  <2>2. Owes(l) \/ Called(l) \/ Reported(l, 0) \/ Reported(l, 1)
    BY DEF Protocol, Awaiting, AbortRound
  <2>3. CASE Owes(l)
    BY <2>1, <2>3 DEF Owes, Stopping, Gone
  <2>4. CASE Called(l)
    BY <2>1, <2>4 DEF Called, Stopping
  <2>5. CASE Reported(l, 0) \/ Reported(l, 1)
    BY <2>1, <2>5 DEF Reported, Stopping, Gone
  <2>6. QED
    BY <2>2, <2>3, <2>4, <2>5
<1>5. \A l \in Lanes : l < next =>
             \/ lane[l] = "exited"
             \/ lane[l] = "waits" /\ round[l] = stage /\ verdicts'[l] = <<"abort">>
  BY <1>2 DEF TypeOK, Protocol, Awaiting, Reported, AbortRound
<1>6. Blaming'
  BY <1>1, <1>4, <1>5 DEF Blaming, AbortRound
<1>7. Spawning' /\ Awaiting' /\ AllReported' /\ Ending'
  <2>1. /\ coord' = "join" /\ blamed' # 0 /\ result' = "none" /\ ~hungUp'
    BY <1>1 DEF TypeOK, AbortRound
  <2>2. Spawning' /\ Awaiting'
    BY <2>1 DEF Spawning, Awaiting
  <2>3. AllReported'
    BY <2>1 DEF AllReported
  <2>4. Ending'
    BY <2>1 DEF Ending
  <2>5. QED
    BY <2>2, <2>3, <2>4
<1>8. Slots' /\ Refs' /\ Walked' /\ Bundle' /\ Sinks'
  BY DEF TypeOK, Data, Slots, Refs, Walked, Bundle, Sinks, Walkable, AbortRound, Sources, Shard,
     Retained, Done
<1>9. QED
  BY <1>1, <1>2, <1>3, <1>4, <1>5, <1>6, <1>7, <1>8 DEF Protocol, Data

\* All slots are done, so the merge refuses none and changes none.
LEMMA PublishInv == ASSUME Inv, Publish PROVE Inv'
<1> USE PhaseAssumption, OwnerIsLane, Queues DEF Inv, Lanes, Rounds, sourceVars, laneVars,
      linkVars, coordVars, slotVars, sinkVars
<1>1. /\ \A s \in Sources : Done(s) /\ Merged(s) = slot[s] /\ stage = "record"
  BY Settled DEF Protocol, AllReported, Data, Bundle, Publish
<1>2. slot' = slot /\ merged' = Sources \ broken
  <2>1. slot' = [s \in Sources |-> slot[s]]
    BY <1>1 DEF Publish
  <2>2. merged' = {s \in Sources : slot[s] = "complete"}
    BY <1>1 DEF Publish
  <2>3. QED
    BY <1>1, <2>1, <2>2 DEF TypeOK, Done
<1>3. TypeOK'
  BY <1>2 DEF TypeOK, Publish
<1>4. Protocol'
  BY DEF TypeOK, Protocol, Spawning, Awaiting, AllReported, Blaming, Ending, Unborn, Owes,
     Called, Reported, Stopping, Orphan, Gone, After, Publish
<1>5. Slots' /\ Refs' /\ Walked' /\ Sinks'
  BY <1>2 DEF Data, Slots, Refs, Walked, Sinks, Done, Walkable, Publish
<1>6. Bundle'
  BY <1>1, <1>2 DEF Data, Bundle, Walkable, Publish
<1>7. QED
  BY <1>1, <1>2, <1>3, <1>4, <1>5, <1>6 DEF Protocol, Data

\* The first broadcast calls every lane to the refs round.
LEMMA BuildGraphInv == ASSUME Inv, BuildGraph PROVE Inv'
<1> USE PhaseAssumption, OwnerIsLane, Queues DEF Inv, Lanes, Rounds, sourceVars, laneVars,
      linkVars, coordVars, slotVars, sinkVars
<1>1. /\ stage = "record" /\ stage' = "refs" /\ next = 1 /\ coord' = "await"
      /\ blamed = 0 /\ result = "none" /\ ~hungUp
      /\ \A l \in Lanes : Reported(l, 0)
  BY DEF TypeOK, Protocol, AllReported, Blaming, Ending, After, Proceed, BuildGraph
<1>2. verdicts' \in [Lanes -> Seq({"proceed", "abort"})]
      /\ \A l \in Lanes : verdicts'[l] = <<"proceed">>
  <2>1. \A l \in Lanes : verdicts[l] = <<>>
    BY <1>1 DEF Reported
  <2>2. verdicts' = [l \in Lanes |-> <<"proceed">>]
    BY <2>1 DEF Proceed, BuildGraph
  <2>3. QED
    BY <2>2
<1>3. \A l \in Lanes : Called(l)'
  BY <1>1, <1>2 DEF Reported, Called, After, BuildGraph
<1>4. Protocol'
  BY <1>1, <1>3 DEF TypeOK, Protocol, Spawning, Awaiting, AllReported, Blaming, Ending, BuildGraph
<1>5. TypeOK'
  BY <1>1, <1>2 DEF TypeOK, BuildGraph
<1>6. Data'
  BY <1>1 DEF TypeOK, Data, Slots, Refs, Walked, Bundle, Sinks, Done, Walkable, Reported, BuildGraph
<1>7. QED
  BY <1>1, <1>2, <1>3, <1>4, <1>5, <1>6 DEF Protocol, Data

\* All refs are there; the second broadcast calls every lane to the walk.
LEMMA ResolveAllInv == ASSUME Inv, ResolveAll PROVE Inv'
<1> USE PhaseAssumption, OwnerIsLane, Queues DEF Inv, Lanes, Rounds, sourceVars, laneVars,
      linkVars, coordVars, slotVars, sinkVars
<1>1. /\ stage = "refs" /\ stage' = "walk" /\ next = 1 /\ coord' = "await"
      /\ blamed = 0 /\ result = "none" /\ ~hungUp
      /\ \A l \in Lanes : Reported(l, 0)
  BY DEF TypeOK, Protocol, AllReported, Blaming, Ending, After, Proceed, ResolveAll
<1>2. verdicts' \in [Lanes -> Seq({"proceed", "abort"})]
      /\ \A l \in Lanes : verdicts'[l] = <<"proceed">>
  <2>1. \A l \in Lanes : verdicts[l] = <<>>
    BY <1>1 DEF Reported
  <2>2. verdicts' = [l \in Lanes |-> <<"proceed">>]
    BY <2>1 DEF Proceed, ResolveAll
  <2>3. QED
    BY <2>2
<1>3. \A l \in Lanes : Called(l)'
  BY <1>1, <1>2 DEF Reported, Called, After, ResolveAll
<1>4. Protocol'
  BY <1>1, <1>3 DEF TypeOK, Protocol, Spawning, Awaiting, AllReported, Blaming, Ending, ResolveAll
<1>5. /\ \A s \in Sources : Done(s) /\ Locked(s) = slot[s]
      /\ \A l \in Lanes : lane[l] = "waits" /\ round[l] = "refs"
  BY <1>1, Settled DEF Reported
<1>6. slot' = slot /\ Walkable \subseteq values' /\ values' \subseteq Sources
  <2>1. slot' = [s \in Sources |-> slot[s]]
    BY <1>5 DEF ResolveAll
  <2>2. Walkable \subseteq refs
    BY <1>5 DEF TypeOK, Data, Refs, Walkable
  <2>3. \A s \in Walkable : s \in refs \cap styled /\ Locked(s) = "complete"
    BY <1>5, <2>2 DEF TypeOK, Walkable, Done
  <2>4. QED
    BY <2>1, <2>3 DEF TypeOK, ResolveAll
<1>7. TypeOK'
  BY <1>1, <1>2, <1>6 DEF TypeOK, ResolveAll
<1>8. Walkable' = Walkable /\ published
  BY <1>1 DEF Walkable, Data, Bundle, ResolveAll
<1>9. Data'
  BY <1>1, <1>5, <1>6, <1>8 DEF TypeOK, Data, Slots, Refs, Walked, Bundle, Sinks, Done, ResolveAll
<1>10. QED
  BY <1>1, <1>2, <1>3, <1>4, <1>5, <1>6, <1>7, <1>8, <1>9 DEF Protocol, Data

\* Joined without blame, every lane has walked; nothing is committed before.
LEMMA JoinAllInv == ASSUME Inv, JoinAll PROVE Inv'
<1> USE PhaseAssumption, OwnerIsLane, Queues DEF Inv, Lanes, Rounds, sourceVars, laneVars,
      linkVars, coordVars, slotVars, sinkVars
<1>1. TypeOK'
  <2>1. coord' \in {"settle", "returned"} /\ next' \in 1..NumSources + 1
    BY DEF TypeOK, JoinAll
  <2>2. QED
    BY <2>1 DEF TypeOK, JoinAll
<1>2. Protocol'
  BY DEF TypeOK, Protocol, Spawning, Awaiting, AllReported, Blaming, Ending, Unborn, Owes,
     Called, Reported, Stopping, Orphan, Gone, After, JoinAll
<1>3. Slots' /\ Refs' /\ Walked' /\ Bundle'
  BY DEF TypeOK, Data, Slots, Refs, Walked, Bundle, Walkable, JoinAll, Sources, Shard, Retained,
     Done
<1>4. Sinks'
  <2>1. committed = {}
    BY DEF Data, Sinks, JoinAll
  <2>2. {s \in Walkable : s < 1} = {}
    <3>1. Walkable \subseteq Sources
      BY DEF TypeOK, Walkable
    <3>2. \A s \in Sources : ~(s < 1)
      BY DEF Sources
    <3>3. QED
      BY <3>1, <3>2
  <2>3. CASE blamed = 0
    BY <2>1, <2>2, <2>3 DEF TypeOK, Protocol, Ending, Sinks, Walkable, JoinAll
  <2>4. CASE blamed # 0
    BY <2>1, <2>4 DEF Sinks, JoinAll
  <2>5. QED
    BY <2>3, <2>4
<1>5. QED
  BY <1>1, <1>2, <1>3, <1>4 DEF Protocol, Data

\* The loop of settle commits the next walkable file.
LEMMA CommitFileInv == ASSUME Inv, CommitFile PROVE Inv'
<1> USE PhaseAssumption, OwnerIsLane, Queues DEF Inv, Lanes, Rounds, sourceVars, laneVars,
      linkVars, coordVars, slotVars, sinkVars
<1>1. /\ next \in Sources /\ stage = "walk" /\ published /\ blamed = 0
      /\ \A s \in Sources : Done(s) /\ Locked(s) = slot[s]
      /\ \A l \in Lanes : lane[l] = "exited" /\ round[l] = "walk"
  <2>1. next \in Sources
    BY DEF TypeOK, Sources, CommitFile
  <2>2. stage = "walk" /\ blamed = 0 /\ \A l \in Lanes : Reported(l, 0)
    BY DEF Protocol, AllReported, Blaming, CommitFile
  <2>3. published
    BY <2>2 DEF Data, Bundle
  <2>4. QED
    BY <2>1, <2>2, <2>3, Settled DEF Reported
<1>2. slot' = slot
  BY <1>1 DEF TypeOK, CommitFile
<1>3. out[next] # "none" <=> next \in Walkable
  BY <1>1 DEF TypeOK, Data, Walked, Walkable
<1>4. TypeOK'
  <2>1. next' \in 1..NumSources + 1
    BY <1>1 DEF Sources, CommitFile
  <2>2. committed' \subseteq Sources
    BY <1>1 DEF TypeOK, CommitFile
  <2>3. QED
    BY <1>2, <2>1, <2>2 DEF TypeOK, CommitFile
<1>5. Protocol'
  BY <1>1 DEF TypeOK, Protocol, Spawning, Awaiting, AllReported, Blaming, Ending, Reported,
     CommitFile
<1>6. Slots' /\ Refs' /\ Walked' /\ Bundle'
  BY <1>2 DEF Data, Slots, Refs, Walked, Bundle, Done, Walkable, CommitFile
<1>7. committed' = {s \in Walkable : s < next'}
  <2>1. committed = {s \in Walkable : s < next} /\ next' = next + 1
    BY DEF Data, Sinks, CommitFile
  <2>2. committed' = IF next \in Walkable THEN committed \cup {next} ELSE committed
    BY <1>1, <1>3 DEF CommitFile
  <2>3. \A s \in Walkable : s < next + 1 <=> s < next \/ s = next
    BY <1>1 DEF TypeOK, Walkable, Sources
  <2>4. QED
    BY <2>1, <2>2, <2>3
<1>8. Sinks'
  BY <1>1, <1>7 DEF TypeOK, Protocol, Ending, Sinks, Walkable, CommitFile
<1>9. QED
  BY <1>1, <1>2, <1>3, <1>4, <1>5, <1>6, <1>7, <1>8 DEF Protocol, Data

\* After the loop all walkable files are committed.
LEMMA ReturnOkInv == ASSUME Inv, ReturnOk PROVE Inv'
<1> USE PhaseAssumption, OwnerIsLane, Queues DEF Inv, Lanes, Rounds, sourceVars, laneVars,
      linkVars, coordVars, slotVars, sinkVars
<1>1. TypeOK'
  BY DEF TypeOK, ReturnOk, Sources, Shard, Retained
<1>2. Protocol'
  BY DEF TypeOK, Protocol, Spawning, Awaiting, AllReported, Blaming, Ending, Unborn, Owes,
     Called, Reported, Stopping, Orphan, Gone, After, ReturnOk
<1>3. Slots' /\ Refs' /\ Walked' /\ Bundle'
  BY DEF TypeOK, Data, Slots, Refs, Walked, Bundle, Walkable, ReturnOk, Sources, Shard,
     Retained, Done
<1>4. Sinks'
  <2>1. committed = {s \in Walkable : s < next}
    BY DEF Data, Sinks, ReturnOk
  <2>2. \A s \in Walkable : s < next
    BY DEF TypeOK, Walkable, Sources, ReturnOk
  <2>3. committed' = Walkable'
    BY <2>1, <2>2 DEF ReturnOk, Walkable
  <2>4. \A l \in Lanes : lane[l] = "exited"
    BY DEF Protocol, AllReported, Reported, ReturnOk
  <2>5. blamed = 0
    BY DEF Protocol, Blaming, ReturnOk
  <2>6. QED
    BY <2>3, <2>4, <2>5 DEF Sinks, Walkable, ReturnOk
<1>5. QED
  BY <1>1, <1>2, <1>3, <1>4 DEF Protocol, Data

\* Wherever the coordinator panics, its lanes are orphans that can only end.
LEMMA CoordinatorPanicsInv == ASSUME Inv, CoordinatorPanics PROVE Inv'
<1> USE PhaseAssumption, OwnerIsLane, Queues DEF Inv, Lanes, Rounds, sourceVars, laneVars,
      linkVars, coordVars, slotVars, sinkVars
<1>1. TypeOK'
  <2>1. panics' \in 0..MaxPanics
    BY DEF TypeOK, CoordinatorPanics
  <2>2. QED
    BY <2>1 DEF TypeOK, CoordinatorPanics
<1>2. Protocol'
  BY DEF TypeOK, Protocol, Spawning, Awaiting, AllReported, Blaming, Ending, Unborn, Owes,
     Called, Reported, Stopping, Orphan, Gone, After, CoordinatorPanics
<1>3. Slots' /\ Refs' /\ Walked' /\ Bundle' /\ Sinks'
  BY DEF TypeOK, Data, Slots, Refs, Walked, Bundle, Sinks, Walkable, CoordinatorPanics, Sources,
     Shard, Retained, Done, Protocol, AllReported, Reported, Blaming
<1>4. QED
  BY <1>1, <1>2, <1>3 DEF Protocol, Data

\* All lanes have ended, and nobody is blamed.
LEMMA CatchUnwindInv == ASSUME Inv, CatchUnwind PROVE Inv'
<1> USE PhaseAssumption, OwnerIsLane, Queues DEF Inv, Lanes, Rounds, sourceVars, laneVars,
      linkVars, coordVars, slotVars, sinkVars
<1>1. TypeOK'
  BY DEF TypeOK, CatchUnwind, Sources, Shard, Retained
<1>2. Protocol'
  BY DEF TypeOK, Protocol, Spawning, Awaiting, AllReported, Blaming, Ending, Unborn, Owes,
     Called, Reported, Stopping, Orphan, Gone, After, CatchUnwind
<1>3. Slots' /\ Refs' /\ Walked' /\ Bundle' /\ Sinks'
  BY DEF TypeOK, Data, Slots, Refs, Walked, Bundle, Sinks, Walkable, CatchUnwind, Sources,
     Shard, Retained, Done
<1>4. QED
  BY <1>1, <1>2, <1>3 DEF Protocol, Data

\* Every step keeps the invariant, a stuttering one too.
LEMMA NextInv == Inv /\ [Next]_vars => Inv'
<1> SUFFICES ASSUME Inv, [Next]_vars PROVE Inv'
  OBVIOUS
<1>1. ASSUME NEW l \in Lanes, LaneWorks(l) \/ LanePanics(l) PROVE Inv'
  BY <1>1, RecordFileInv, StoreRefsInv, WalkFileInv, RendezvousInv, FinishInv, ReceiveVerdictInv,
    ReceiveHangupInv, LanePanicsInv DEF LaneWorks
<1>2. CASE CoordinatorWorks \/ CoordinatorPanics
  BY <1>2, SpawnLaneInv, AwaitReportInv, AbortRoundInv, PublishInv, BuildGraphInv, ResolveAllInv,
    JoinAllInv, CommitFileInv, ReturnOkInv, CatchUnwindInv, CoordinatorPanicsInv
    DEF CoordinatorWorks
<1>3. CASE UNCHANGED vars
  <2>1. TypeOK'
    BY <1>3 DEF Inv, TypeOK, vars, sourceVars, laneVars, linkVars, coordVars, slotVars, sinkVars,
      Shard, Sources
  <2>2. Protocol'
    BY <1>3 DEF Inv, Protocol, Spawning, Awaiting, AllReported, Blaming, Ending,
      Unborn, Owes, Called, Reported, Stopping, Orphan, Gone, After,
      vars, laneVars, linkVars, coordVars
  <2>3. Data'
    BY <1>3 DEF Inv, Data, Slots, Refs, Walked, Bundle, Sinks, Done, Walkable, vars, sourceVars,
      laneVars, coordVars, slotVars, sinkVars
  <2>4. QED
    BY <2>1, <2>2, <2>3 DEF Inv
<1>4. QED
  BY <1>1, <1>2, <1>3 DEF Next

\* The inductive invariant holds in every reachable state.
THEOREM InvHolds == Spec => []Inv
BY InitInv, NextInv, PTL DEF Spec

\* Every variable keeps its type; a lane has never two reports on their way.
THEOREM TypeCorrect == Spec => []TypeOK
<1>1. Inv => TypeOK
  BY DEF Inv
<1>2. QED
  BY <1>1, InvHolds, PTL

\* The coordinator works on the slots alone, and no lane outlives run().
THEOREM WorksAlone == Spec => []CoordinatorAlone
<1>1. Inv => CoordinatorAlone
  <2> SUFFICES ASSUME Inv PROVE CoordinatorAlone
    OBVIOUS
  <2>1. coord \in {"publish", "graph", "resolve"}
          => \A l \in Lanes : lane[l] = "waits" /\ verdicts[l] = <<>>
    BY DEF Inv, Protocol, AllReported, Reported
  <2>2. coord \in {"settle", "returned"} => \A l \in Lanes : Gone(l) \/ lane[l] = "unborn"
    BY DEF Inv, Protocol, AllReported, Ending, Reported, Gone, Unborn
  <2>3. QED
    BY <2>1, <2>2 DEF CoordinatorAlone
<1>2. QED
  BY <1>1, InvHolds, PTL

\* Only whole records are merged, those of every source that parses.
THEOREM MergesWhole == Spec => []MergesWholeRecords
<1>1. Inv => MergesWholeRecords
  <2> SUFFICES ASSUME Inv PROVE MergesWholeRecords
    OBVIOUS
  <2>1. coord = "publish" => \A s \in Sources : Done(s)
    BY Settled DEF Inv, Protocol, AllReported
  <2>2. QED
    BY <2>1 DEF Inv, Data, Bundle, Done, MergesWholeRecords
<1>2. QED
  BY <1>1, InvHolds, PTL

\* Refs are collected under a bundle, and files are walked with resolved imports.
THEOREM WalksResolved == Spec => []WalksWhatWasResolved
<1>1. Inv => WalksWhatWasResolved
  BY Working DEF Inv, Data, Bundle, Walkable, WalksWhatWasResolved
<1>2. QED
  BY <1>1, InvHolds, PTL

\* A phase commits everything it was asked for, or it lost a lane or its coordinator;
\* after the loss of a lane it has committed nothing.
THEOREM CommitsAllOrNothing == Spec => []AllOrNothing
<1>1. Inv => AllOrNothing
  <2> SUFFICES ASSUME Inv PROVE AllOrNothing
    OBVIOUS
  <2>1. result = "ok" => \A l \in Lanes : lane[l] = "exited" /\ round[l] = "walk"
    BY DEF Inv, Protocol, AllReported, Reported
  <2>2. result = "ok" => committed = Walkable /\ \A s \in Walkable : out[s] = "whole"
    BY <2>1, OwnerIsLane DEF Inv, TypeOK, Data, Sinks, Walked, Walkable
  <2>3. committed # {} => \A l \in Lanes : lane[l] = "exited"
    BY DEF Inv, Data, Sinks
  <2>4. QED
    BY <2>1, <2>2, <2>3 DEF AllOrNothing, Walkable
<1>2. QED
  BY <1>1, InvHolds, PTL

\* The error names the first lane, in lane order, that panicked, and the stage it did it in.
THEOREM BlamesFirstDead == Spec => []BlamesTheDead
<1>1. Inv => BlamesTheDead
  <2> SUFFICES ASSUME Inv, result = "laneFailure" PROVE BlamesTheDead
    BY DEF BlamesTheDead
  <2>1. blamed \in Lanes
    BY DEF Inv, TypeOK, Protocol, Ending
  <2>2. 1..blamed - 1 \subseteq {l \in Lanes : l < blamed}
    BY <2>1, PhaseAssumption DEF Lanes
  <2>3. blamed # 0
    BY <2>1, PhaseAssumption DEF Lanes
  <2>4. QED
    BY <2>1, <2>2, <2>3 DEF Inv, Protocol, Blaming, BlamesTheDead
<1>2. QED
  BY <1>1, InvHolds, PTL
=============================================================================
