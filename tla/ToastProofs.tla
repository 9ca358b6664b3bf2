----------------------------- MODULE ToastProofs -----------------------------
(***************************************************************************)
(* What TLAPS proves of ToastQueue, for any ids, durations, callbacks and  *)
(* limits, and any number of calls.                                        *)
(*                                                                         *)
(* Each step either renders the store, or does to a toast one of the five  *)
(* things that Life lists and to a wrapper one of those that Turn lists    *)
(* (lemma Steps).  The invariant is proved from that, and does not look at *)
(* the actions again.                                                      *)
(***************************************************************************)
EXTENDS ToastQueue, TLAPS

Records == [at : {"out", "open", "exiting"}, gen : 0..MaxCalls, place : 0..MaxCalls,
            dur : Durations, on : Callbacks \cup {"quiet"}, told : 0..2]
Wrappers == [gen : 0..MaxCalls, dur : Durations, clock : Clocks]

\* The types alone.
Types ==
  /\ toast \in [Ids -> Records]
  /\ screen \in [Ids -> Wrappers]
  /\ limit \in Limits /\ calls \in 0..MaxCalls
  /\ record \in [Ids -> RecordKinds]
  /\ host \in BOOLEAN /\ dirty \in BOOLEAN /\ silent \in BOOLEAN
  /\ cheated \subseteq Ids /\ kept \subseteq Ids

\* A generation and a place are taken from the count of calls, or below it.
Counted == \A i \in Ids : toast[i].gen <= calls /\ toast[i].place <= calls

Hostless == ~host => ~dirty /\ \A i \in Ids : screen[i] = NoWrapper /\ record[i] = "stored"

\* The wrapper of an earlier life never has the generation of a later one.
NotAhead == \A i \in Ids : screen[i].gen <= toast[i].gen

OwnPlace ==
  \A i, j \in Ids : toast[i].at # "out" /\ toast[j].at # "out" /\ i # j =>
                      toast[i].place # toast[j].place

\* A toast that exits has been told, and so has that of a wrapper that leaves.
LeavesOnce ==
  \A i \in Ids :
    /\ toast[i].at = "exiting" => toast[i].told > 0
    /\ screen[i].clock = "leaving" /\ screen[i].gen = toast[i].gen => toast[i].told > 0

\* A wrapper holds another record than the store only until React renders, and one
\* that is marked only if its toast has been told.
Recorded ==
  \A i \in Ids :
    /\ screen[i].clock \in {"none", "leaving"} => record[i] = "stored"
    /\ record[i] # "stored" => dirty
    /\ record[i] = "marked" /\ screen[i].gen = toast[i].gen => toast[i].told > 0

\* A wrapper without a clock is one of a toast without an end; one whose clock has
\* run out is one of a toast that is closed, or kept by its callback.
ClockRuns ==
  \A i \in Ids :
    /\ screen[i].clock = "off" => screen[i].dur = Never
    /\ screen[i].clock = "spent" /\ screen[i].gen = toast[i].gen /\ toast[i].at = "open" => Kept(i)

\* Unless React has yet to render, the wrapper of an open toast is up to date.
UpToDate ==
  host /\ ~dirty => \A i \in Ids : screen[i].clock # "none" /\ toast[i].at = "open" =>
                      screen[i].gen = toast[i].gen /\ screen[i].dur = toast[i].dur

Inv ==
  /\ Types /\ Counted /\ Hostless /\ NotAhead /\ OwnPlace
  /\ LeavesOnce /\ Recorded /\ ClockRuns /\ UpToDate /\ ToldOnce /\ ScreenFollows

-----------------------------------------------------------------------------
\* What one step does to the record of i: nothing; a new duration and new callbacks; a
\* new life; a call of its callback, after which it is open only if the callback has
\* kept it or another one's has aborted; its end, when it has been told.
Same(i) == toast'[i] = toast[i]

Restyled(i) ==
  /\ toast[i].at = "open" /\ toast'[i].at = "open"
  /\ toast'[i].gen = toast[i].gen /\ toast'[i].place = toast[i].place
  /\ toast'[i].told = toast[i].told

Reborn(i) ==
  /\ toast[i].at # "open" /\ toast'[i].at = "open"
  /\ toast'[i].gen = toast[i].gen + 1 /\ toast'[i].told = 0
  /\ \/ toast[i].at = "exiting" /\ toast'[i].place = toast[i].place
     \/ toast'[i].place = calls + 1
  /\ calls' = calls + 1

Addressed(i) ==
  /\ toast[i].at = "open" /\ toast'[i].gen = toast[i].gen
  /\ toast'[i].told > 0 /\ (toast[i].told = 0 => toast'[i].told = 1)
  /\ \/ toast'[i].at = "out" /\ toast'[i].place = 0
     \/ toast'[i].place = toast[i].place /\ toast'[i].dur = toast[i].dur
  /\ toast'[i].at = "open" => i \in kept' \cup cheated'

Left(i) ==
  /\ toast[i].told > 0 \/ toast[i].at # "open"
  /\ toast'[i].at = "out" /\ toast'[i].place = 0
  /\ toast'[i].gen = toast[i].gen /\ toast'[i].told = toast[i].told

Life(i) ==
  \/ Reborn(i)
  \/ /\ Same(i) \/ Restyled(i) \/ Addressed(i) \/ Left(i)
     /\ i \in cheated => i \in cheated'
     /\ i \in kept => i \in kept'

\* What one step does to the wrapper of i.
Turned(i, clocks) ==
  /\ screen'[i].gen = screen[i].gen /\ screen'[i].dur = screen[i].dur
  /\ screen'[i].clock \in clocks

Turn(i) ==
  \/ screen'[i] = screen[i]
  \/ /\ screen'[i] = NoWrapper
     /\ host' => screen[i].clock = "leaving" /\ (toast[i].gen = screen[i].gen => dirty')
  \/ /\ screen[i].clock \in {"running", "spent", "held", "due"}
     /\ \/ Turned(i, {"running", "held", "due"})
        \/ /\ Turned(i, {"leaving"}) /\ record'[i] = "stored" /\ toast'[i] = toast[i]
           /\ toast[i].gen = screen[i].gen => toast[i].told > 0
           /\ toast[i].at = "exiting" \/ dirty
        \/ Turned(i, {"spent"}) /\ (toast'[i].at = "open" => Kept(i)')

\* What one step does to the record that it holds: nothing; it is the store's again, or
\* of no use; it is replaced in the store, marked if the toast is told or has a new life.
Parting(i) ==
  \/ record'[i] \in {record[i], "stored"}
  \/ /\ screen'[i].clock \notin {"none", "leaving"} /\ dirty'
     /\ record'[i] = "marked" => toast'[i].told > 0 \/ Reborn(i)

\* A step in which React renders the store as it is.
Rendering ==
  /\ Types'
  /\ toast' = toast /\ host' /\ ~dirty' /\ ~silent' /\ cheated' = cheated /\ kept' = kept
  /\ calls' \in {calls, calls + 1}
  /\ \A i \in Ids : record'[i] = "stored"
  /\ \E Held \in SUBSET Ids : \A i \in Ids : screen'[i] = Rendered(i, limit', Held)

\* Nothing that a render would show has changed.
Frozen(i) ==
  /\ toast'[i].at = toast[i].at /\ toast'[i].gen = toast[i].gen
  /\ toast'[i].place = toast[i].place /\ toast'[i].dur = toast[i].dur
  /\ i \in kept => i \in kept'

\* Any other step.
Working ==
  /\ Types' /\ Hostless'
  /\ limit' = limit /\ calls' \in {calls, calls + 1}
  /\ \A i \in Ids : Life(i) /\ Turn(i) /\ Parting(i)
  /\ \A i, j \in Ids : Reborn(i) /\ Reborn(j) => i = j
  /\ host' /\ ~dirty' => host /\ ~dirty
  /\ host' /\ ~dirty' => \A i \in Ids : toast'[i].at = "open" =>
       toast[i].at = "open" /\ toast'[i].gen = toast[i].gen /\ toast'[i].dur = toast[i].dur
  /\ host' /\ ~dirty' /\ ~silent' => ~silent /\ \A i \in Ids : Frozen(i)

-----------------------------------------------------------------------------
\* A record at its new place, and told.
LEMMA MovedRecord ==
  ASSUME NEW t \in Records, NEW at \in {"open", "out", "exiting"}
  PROVE  LET r == Moved(t, at)
         IN  /\ r \in Records /\ r.at = at /\ r.gen = t.gen /\ r.told = t.told
             /\ at = "out" => r.place = 0
             /\ at # "out" => r.place = t.place /\ r.dur = t.dur
             /\ at # "out" /\ at = t.at => r = t
<1>1. 0 \in 0..MaxCalls
  BY ToastAssumption
<1>2. CASE at = "out"
  <2>1. Moved(t, at) = [at |-> "out", gen |-> t.gen, place |-> 0, dur |-> Never, on |-> "quiet",
                        told |-> t.told]
    BY <1>2 DEF Moved, Absent
  <2> QED
    BY <1>1, <1>2, <2>1 DEF Records, Durations
<1>3. CASE at # "out"
  <2>1. Moved(t, at) = [at |-> at, gen |-> t.gen, place |-> t.place, dur |-> t.dur,
                        on |-> t.on, told |-> t.told]
    BY <1>3 DEF Moved, Records
  <2> QED
    BY <1>3, <2>1 DEF Records
<1> QED
  BY <1>2, <1>3

LEMMA MovedTold ==
  ASSUME NEW t \in Records, NEW at \in {"open", "out", "exiting"}
  PROVE  LET r == Moved(Told(t), at)
         IN  /\ r \in Records /\ r.at = at /\ r.gen = t.gen
             /\ r.told > 0 /\ (t.told = 0 => r.told = 1)
             /\ at = "out" => r.place = 0
             /\ at # "out" => r.place = t.place /\ r.dur = t.dur
<1> DEFINE told == IF t.told < 2 THEN t.told + 1 ELSE t.told
<1>1. told \in 0..2 /\ told > 0 /\ (t.told = 0 => told = 1)
  BY DEF Records
<1>2. Told(t) = [at |-> t.at, gen |-> t.gen, place |-> t.place, dur |-> t.dur, on |-> t.on,
                 told |-> told]
  BY DEF Told, Records
<1>3. Told(t) \in Records /\ Told(t).gen = t.gen /\ Told(t).told = told
      /\ Told(t).place = t.place /\ Told(t).dur = t.dur
  BY <1>1, <1>2 DEF Records
<1> QED
  BY <1>1, <1>3, MovedRecord

\* What dismiss makes of a record.
LEMMA Dismissed ==
  ASSUME Types, NEW i \in Ids, toast[i].at = "open"
  PROVE  /\ AfterDismiss(i) \in Records
         /\ AfterDismiss(i).gen = toast[i].gen
         /\ \/ AfterDismiss(i).at = "out" /\ AfterDismiss(i).place = 0
            \/ AfterDismiss(i).place = toast[i].place /\ AfterDismiss(i).dur = toast[i].dur
         /\ AfterDismiss(i).told > 0 /\ (toast[i].told = 0 => AfterDismiss(i).told = 1)
         /\ toast[i].on = "throws" => AfterDismiss(i).at = "open"
<1>1. toast[i] \in Records
  BY DEF Types
<1>2. PICK at \in {"open", "out", "exiting"} :
        /\ AfterDismiss(i) = Moved(Told(toast[i]), at)
        /\ toast[i].on = "throws" => at = "open"
  BY <1>1 DEF AfterDismiss
<1> QED
  BY <1>1, <1>2, MovedTold

\* A toast that a step does not touch, and a wrapper that it does not touch.
LEMMA Untouched ==
  ASSUME NEW i \in Ids
  PROVE  /\ toast'[i] = toast[i] /\ (i \in cheated => i \in cheated') /\ (i \in kept => i \in kept')
              => Life(i) /\ Frozen(i)
         /\ screen' = screen => Turn(i)
         /\ record'[i] = record[i] => Parting(i)
  BY DEF Life, Same, Frozen, Turn, Parting

\* The record that a wrapper is left with.
LEMMA PartedRecord ==
  ASSUME Types, NEW i \in Ids, NEW exiting \in BOOLEAN
  PROVE  LET r == Parted(i, exiting)
         IN  /\ r \in RecordKinds
             /\ r = record[i] \/ screen[i].clock \notin {"none", "leaving"}
             /\ r = "marked" => record[i] = "marked" \/ exiting
  BY DEF Types, Parted, RecordKinds

LEMMA ShowWorks ==
  ASSUME Types, Counted, Hostless, NEW i \in Ids, NEW dur \in Durations, NEW on \in Callbacks,
         Show(i, dur, on)
  PROVE  Working
<1> DEFINE t == toast[i]
<1>1. t \in Records /\ MaxCalls \in Nat /\ calls \in 0..MaxCalls /\ calls < MaxCalls
      /\ calls' = calls + 1 /\ t.gen <= calls
  BY ToastAssumption DEF Types, Counted, Show, Called
<1>2. PICK r \in Records :
        /\ toast' = [toast EXCEPT ![i] = r]
        /\ r.at = "open"
        /\ \/ t.at = "open" /\ r.gen = t.gen /\ r.place = t.place /\ r.told = t.told
           \/ t.at = "exiting" /\ r.gen = t.gen + 1 /\ r.place = t.place /\ r.told = 0
           \/ t.at = "out" /\ r.gen = t.gen + 1 /\ r.place = calls + 1 /\ r.told = 0
  <2>1. CASE t.at = "open"
    <3> DEFINE r == [at |-> "open", gen |-> t.gen, place |-> t.place, dur |-> dur,
                     on |-> on, told |-> t.told]
    <3>1. r \in Records
      BY <1>1 DEF Records
    <3>2. toast' = [toast EXCEPT ![i] = r]
      BY <2>1, <1>1 DEF Show, Records
    <3> QED
      BY <2>1, <3>1, <3>2
  <2>2. CASE t.at = "exiting"
    <3> DEFINE r == [at |-> "open", gen |-> t.gen + 1, place |-> t.place, dur |-> dur,
                     on |-> on, told |-> 0]
    <3>1. r \in Records
      BY <1>1 DEF Records
    <3>2. toast' = [toast EXCEPT ![i] = r]
      BY <2>2 DEF Show
    <3> QED
      BY <2>2, <3>1, <3>2
  <2>3. CASE t.at = "out"
    <3> DEFINE r == [at |-> "open", gen |-> t.gen + 1, place |-> calls + 1, dur |-> dur,
                     on |-> on, told |-> 0]
    <3>1. r \in Records
      BY <1>1 DEF Records
    <3>2. toast' = [toast EXCEPT ![i] = r]
      BY <2>3 DEF Show
    <3> QED
      BY <2>3, <3>1, <3>2
  <2> QED
    BY <1>1, <2>1, <2>2, <2>3 DEF Records
<1>3. toast' \in [Ids -> Records] /\ toast'[i] = r
      /\ \A j \in Ids : j # i => toast'[j] = toast[j]
  BY <1>2 DEF Types
<1>4. screen' = screen /\ limit' = limit /\ host' = host /\ dirty' = host /\ silent' = silent
      /\ record' = [record EXCEPT ![i] = Parted(i, toast[i].at = "exiting")]
  BY DEF Show
<1>5. cheated' \subseteq Ids /\ kept' \subseteq Ids
      /\ \A j \in Ids : (j # i \/ t.at = "open") =>
           (j \in cheated => j \in cheated') /\ (j \in kept => j \in kept')
  BY DEF Show, Types
<1>6. /\ record'[i] \in RecordKinds /\ record' \in [Ids -> RecordKinds]
      /\ record'[i] = "marked" => record[i] = "marked" \/ t.at = "exiting"
      /\ record'[i] = record[i] \/ screen[i].clock \notin {"none", "leaving"}
      /\ \A j \in Ids : j # i => record'[j] = record[j]
  BY <1>4, PartedRecord DEF Types
<1>7. Types'
  BY <1>1, <1>3, <1>4, <1>5, <1>6 DEF Types
<1>8. Hostless'
  <2>1. ~host => record'[i] = record[i]
    BY <1>6 DEF Hostless, NoWrapper
  <2> QED
    BY <1>4, <1>6, <2>1 DEF Hostless
<1>9. \A j \in Ids : Parting(j)
  <2>1. Parting(i)
    <3>1. CASE record'[i] = record[i]
      BY <3>1 DEF Parting
    <3>2. CASE record'[i] # record[i]
      <4>1. host /\ dirty'
        BY <1>4, <1>6, <3>2 DEF Hostless, NoWrapper
      <4>2. record'[i] = "marked" => t.at = "exiting"
        BY <1>6, <3>2
      <4>3. t.at = "exiting" => Reborn(i)
        BY <1>1, <1>2, <1>3 DEF Reborn
      <4> QED
        BY <1>4, <1>6, <3>2, <4>1, <4>2, <4>3 DEF Parting
    <3> QED
      BY <3>1, <3>2
  <2> QED
    BY <1>6, <2>1, Untouched
<1>10. Life(i)
  BY <1>1, <1>2, <1>3, <1>5 DEF Life, Restyled, Reborn
<1>11. \A j \in Ids : j # i => Life(j) /\ ~Reborn(j)
  BY <1>3, <1>5, Untouched DEF Reborn
<1>12. \A j \in Ids : Turn(j)
  BY <1>4, Untouched
<1> QED
  BY <1>1, <1>4, <1>7, <1>8, <1>10, <1>11, <1>12, <1>9 DEF Working, Types

\* The record of a toast that is dismissed.
LEMMA DismissLives ==
  ASSUME Types, Hostless, NEW i \in Ids, Dismiss(i), cheated' = cheated, host' = host
  PROVE  /\ toast' \in [Ids -> Records] /\ record' \in [Ids -> RecordKinds] /\ kept' \subseteq Ids
         /\ dirty' \in BOOLEAN /\ (dirty => dirty') /\ (~host => ~dirty' /\ record' = record)
         /\ \A j \in Ids : Life(j) /\ ~Reborn(j)
         /\ \A j \in Ids : j # i => toast'[j] = toast[j] /\ record'[j] = record[j] /\ Frozen(j)
         /\ ~dirty' /\ host => Frozen(i)
         /\ record'[i] = record[i]
              \/ (toast'[i].told > 0 /\ dirty' /\ screen[i].clock \notin {"none", "leaving"})
         /\ toast'[i].at = "open" => Kept(i)'
<1>1. CASE toast[i].at = "open"
  <2>1. /\ toast' = [toast EXCEPT ![i] = AfterDismiss(i)]
        /\ dirty' = (dirty \/ (host /\ toast[i].on # "throws"))
        /\ record' = IF toast[i].on = "again" THEN [record EXCEPT ![i] = Parted(i, Animated(i))]
                     ELSE record
        /\ kept' = IF AfterDismiss(i).at = "open" THEN kept \cup {i} ELSE kept
    BY <1>1 DEF Dismiss
  <2>2. toast' \in [Ids -> Records] /\ toast'[i] = AfterDismiss(i)
        /\ \A j \in Ids : j # i => toast'[j] = toast[j]
    BY <1>1, <2>1, Dismissed DEF Types
  <2>3. kept' \subseteq Ids /\ (\A j \in Ids : j \in kept => j \in kept')
        /\ (toast'[i].at = "open" => i \in kept')
    BY <2>1, <2>2 DEF Types
  <2>4. Addressed(i)
    BY <1>1, <2>2, <2>3, Dismissed DEF Addressed
  <2>5. toast[i].on = "throws" => Frozen(i)
    BY <1>1, <2>2, <2>3, Dismissed DEF Frozen
  <2>6. \A j \in Ids : j # i => Life(j) /\ Frozen(j)
    BY <2>2, <2>3, Untouched
  <2>7. Life(i) /\ \A j \in Ids : ~Reborn(j)
    BY <1>1, <2>2, <2>3, <2>4 DEF Life, Reborn
  <2>8. dirty' \in BOOLEAN /\ (dirty => dirty') /\ (~host => ~dirty')
        /\ (dirty' \/ toast[i].on = "throws" \/ ~host)
    BY <2>1 DEF Types, Hostless
  <2>9. /\ record' \in [Ids -> RecordKinds] /\ \A j \in Ids : j # i => record'[j] = record[j]
        /\ record'[i] = record[i]
             \/ (toast[i].on = "again" /\ screen[i].clock \notin {"none", "leaving"})
    <3>1. Animated(i) \in BOOLEAN
      BY DEF Types, Animated, Visible
    <3> QED
      BY <2>1, <3>1, PartedRecord DEF Types
  <2>10. ~host => record' = record
    <3>1. ~host => record'[i] = record[i]
      BY <2>9 DEF Hostless, NoWrapper
    <3> QED
      BY <2>9, <3>1 DEF Types
  <2>11. toast'[i].told > 0
    BY <1>1, <2>2, Dismissed
  <2> QED
    BY <2>2, <2>3, <2>5, <2>6, <2>7, <2>8, <2>9, <2>10, <2>11 DEF Kept
<1>2. CASE toast[i].at # "open"
  <2>1. toast' = toast /\ dirty' = dirty /\ record' = record /\ kept' = kept
    BY <1>2 DEF Dismiss
  <2>2. \A j \in Ids : Life(j) /\ ~Reborn(j) /\ Frozen(j)
    BY <2>1, Untouched DEF Reborn
  <2> QED
    BY <1>2, <2>1, <2>2 DEF Types, Hostless
<1> QED
  BY <1>1, <1>2

LEMMA DismissOneWorks ==
  ASSUME Types, Hostless, NEW i \in Ids, DismissOne(i)
  PROVE  Working
<1>1. Dismiss(i) /\ toast[i].at = "open" /\ calls' = calls + 1 /\ calls < MaxCalls
      /\ UNCHANGED <<host, limit, screen, silent, cheated>>
  BY DEF DismissOne, Called
<1>2. Types'
  BY <1>1, DismissLives, ToastAssumption DEF Types
<1>3. Hostless' /\ (host' /\ ~dirty' => host /\ ~dirty)
  BY <1>1, DismissLives DEF Hostless
<1>4. \A j \in Ids : Life(j) /\ ~Reborn(j) /\ Turn(j) /\ Parting(j)
  BY <1>1, DismissLives, Untouched DEF Parting
<1>5. host' /\ ~dirty' => \A j \in Ids : Frozen(j)
  BY <1>1, DismissLives
<1> QED
  BY <1>1, <1>2, <1>3, <1>4, <1>5 DEF Working, Frozen

\* The records of the wrappers when callbacks of open toasts have been called.
LEMMA ShownAgainRecords ==
  ASSUME Types, Hostless, NEW told \in SUBSET Ids, record' = ShownAgain(told),
         screen' = screen, host => dirty' \/ \A i \in told : toast[i].on # "again",
         \A i \in told : toast'[i].told > 0
  PROVE  /\ record' \in [Ids -> RecordKinds] /\ \A i \in Ids : Parting(i)
         /\ ~host => \A i \in Ids : record'[i] = record[i]
<1>1. ASSUME NEW i \in Ids
      PROVE  record'[i] \in RecordKinds /\ Parting(i) /\ (~host => record'[i] = record[i])
  <2>1. Animated(i) \in BOOLEAN
    BY DEF Types, Animated, Visible
  <2>2. record'[i] = IF i \in told /\ toast[i].on = "again" THEN Parted(i, Animated(i))
                    ELSE record[i]
    BY DEF ShownAgain
  <2>3. record'[i] \in RecordKinds
    BY <2>1, <2>2, PartedRecord DEF Types
  <2>4. CASE record'[i] = record[i]
    BY <2>3, <2>4 DEF Parting
  <2>5. CASE record'[i] # record[i]
    <3>1. i \in told /\ toast[i].on = "again" /\ screen[i].clock \notin {"none", "leaving"}
      BY <2>1, <2>2, <2>5, PartedRecord
    <3>2. host
      BY <3>1 DEF Hostless, NoWrapper
    <3> QED
      BY <2>3, <3>1, <3>2 DEF Parting
  <2> QED
    BY <2>4, <2>5
<1>2. record' = [i \in Ids |-> record'[i]]
  BY DEF ShownAgain
<1> QED
  BY <1>1, <1>2

LEMMA DismissAllWorks ==
  ASSUME Types, Hostless, DismissAll
  PROVE  Working
<1> DEFINE Open == {i \in Ids : toast[i].at = "open"}
<1>1. calls' = calls + 1 /\ calls < MaxCalls /\ dirty' = host /\ record' = ShownAgain(Open)
      /\ UNCHANGED <<host, limit, screen, silent, cheated, kept>>
  BY DEF DismissAll, Called
<1>2. ASSUME NEW i \in Ids
      PROVE  /\ toast'[i] \in Records /\ Life(i) /\ ~Reborn(i)
             /\ i \in Open => toast'[i].told > 0
  <2>1. toast[i] \in Records
    BY DEF Types
  <2>2. CASE toast[i].at # "open"
    <3>1. PICK at \in {"out", "exiting"} :
            toast'[i] = Moved(toast[i], at) /\ (at = toast[i].at \/ at = "out")
      BY <2>1, <2>2 DEF DismissAll, Records
    <3>2. CASE at = "out"
      <4>1. toast'[i] \in Records /\ Left(i)
        BY <2>1, <2>2, <3>1, <3>2, MovedRecord DEF Left
      <4> QED
        BY <1>1, <2>2, <3>1, <3>2, <4>1 DEF Life, Left, Reborn
    <3>3. CASE at = "exiting"
      <4>1. toast'[i] = toast[i]
        BY <2>1, <3>1, <3>3, MovedRecord
      <4> QED
        BY <1>1, <2>1, <2>2, <4>1 DEF Life, Same, Reborn
    <3> QED
      BY <3>2, <3>3
  <2>3. CASE toast[i].at = "open"
    <3>1. PICK at \in {"exiting", "out"} : toast'[i] = Moved(Told(toast[i]), at)
      BY <2>3 DEF DismissAll
    <3>2. toast'[i] \in Records /\ Addressed(i)
      BY <2>1, <2>3, <3>1, MovedTold DEF Addressed
    <3> QED
      BY <1>1, <2>3, <3>2 DEF Life, Addressed, Reborn
  <2> QED
    BY <2>2, <2>3
<1>3. toast' = [i \in Ids |-> toast'[i]]
  BY DEF DismissAll
<1>4. toast' \in [Ids -> Records]
  BY <1>2, <1>3
<1>5. /\ record' \in [Ids -> RecordKinds] /\ \A i \in Ids : Parting(i)
      /\ ~host => \A i \in Ids : record'[i] = record[i]
  BY <1>1, <1>2, ShownAgainRecords
<1>6. Types'
  BY <1>1, <1>4, <1>5, ToastAssumption DEF Types
<1>7. \A i \in Ids : Turn(i)
  BY <1>1, Untouched
<1>8. Hostless'
  BY <1>1, <1>5 DEF Hostless
<1> QED
  BY <1>1, <1>2, <1>5, <1>6, <1>7, <1>8 DEF Working

LEMMA DismissAllAbortsWorks ==
  ASSUME Types, Hostless, NEW t \in Ids, DismissAllAborts(t)
  PROVE  Working
<1> DEFINE Exiting == {i \in Ahead(t) : Animated(i) /\ toast[i].on = "quiet"}
<1>1. calls' = calls + 1 /\ calls < MaxCalls /\ UNCHANGED <<host, limit, screen>>
      /\ cheated' = cheated \cup Ahead(t) /\ kept' = kept \cup {t}
      /\ record' = ShownAgain(Ahead(t))
      /\ dirty' = (dirty \/ (host /\ \E i \in Ahead(t) : toast[i].on = "again"))
      /\ silent' = (silent \/ Exiting # {})
      /\ toast[t].at = "open"
  BY DEF DismissAllAborts, Called
<1>2. Ahead(t) \subseteq Ids /\ t \notin Ahead(t) /\ \A i \in Ahead(t) : toast[i].at = "open"
  <2>1. toast[t].place \in Int
    BY DEF Types, Records
  <2> QED
    BY <2>1 DEF Ahead
<1>3. ASSUME NEW i \in Ids
      PROVE  /\ toast'[i] \in Records /\ Life(i) /\ ~Reborn(i)
             /\ i \notin Exiting => Frozen(i)
             /\ i \in Ahead(t) => toast'[i].told > 0
             /\ toast'[i].at = "open" => toast[i].at = "open" /\ toast'[i].gen = toast[i].gen
                                          /\ toast'[i].dur = toast[i].dur
  <2>1. toast[i] \in Records /\ (i \in cheated => i \in cheated') /\ (i \in kept => i \in kept')
    BY <1>1 DEF Types
  <2>2. CASE i \in Ahead(t)
    <3>1. PICK at \in {"exiting", "open"} :
            /\ toast'[i] = Moved(Told(toast[i]), at)
            /\ i \notin Exiting => at = "open"
      BY <2>2 DEF DismissAllAborts
    <3>2. toast[i].at = "open" /\ i \in cheated'
      BY <1>1, <1>2, <2>2
    <3>3. /\ toast'[i] \in Records /\ toast'[i].at = at /\ toast'[i].gen = toast[i].gen
          /\ toast'[i].place = toast[i].place /\ toast'[i].dur = toast[i].dur
          /\ toast'[i].told > 0 /\ (toast[i].told = 0 => toast'[i].told = 1)
      BY <2>1, <3>1, MovedTold
    <3>4. Addressed(i)
      BY <3>2, <3>3 DEF Addressed
    <3> QED
      BY <2>1, <3>1, <3>2, <3>3, <3>4 DEF Life, Reborn, Frozen
  <2>3. CASE i = t
    <3>1. toast'[i] = Told(toast[i]) /\ toast[i].at = "open" /\ i \in kept'
      BY <1>1, <1>2, <2>3 DEF DismissAllAborts
    <3>2. Told(toast[i]) = Moved(Told(toast[i]), "open")
      BY <2>1, <3>1 DEF Moved, Told, Records
    <3>3. /\ toast'[i] \in Records /\ toast'[i].at = "open" /\ toast'[i].gen = toast[i].gen
          /\ toast'[i].place = toast[i].place /\ toast'[i].dur = toast[i].dur
          /\ toast'[i].told > 0 /\ (toast[i].told = 0 => toast'[i].told = 1)
      BY <2>1, <3>1, <3>2, MovedTold
    <3>4. Addressed(i)
      BY <3>1, <3>3 DEF Addressed
    <3> QED
      BY <1>2, <2>1, <2>3, <3>1, <3>3, <3>4 DEF Life, Reborn, Frozen
  <2>4. CASE i \notin Ahead(t) /\ i # t
    <3>1. toast'[i] = toast[i]
      BY <2>4 DEF DismissAllAborts
    <3> QED
      BY <2>1, <2>4, <3>1, Untouched DEF Reborn
  <2> QED
    BY <2>2, <2>3, <2>4
<1>4. toast' = [i \in Ids |-> toast'[i]]
  BY DEF DismissAllAborts
<1>5. toast' \in [Ids -> Records]
  BY <1>3, <1>4
<1>6. /\ record' \in [Ids -> RecordKinds] /\ \A i \in Ids : Parting(i)
      /\ ~host => \A i \in Ids : record'[i] = record[i]
  <2>1. host => dirty' \/ \A i \in Ahead(t) : toast[i].on # "again"
    BY <1>1
  <2> QED
    BY <1>1, <1>2, <1>3, <2>1, ShownAgainRecords
<1>7. Types'
  BY <1>1, <1>2, <1>5, <1>6, ToastAssumption DEF Types
<1>8. \A i \in Ids : Turn(i)
  BY <1>1, Untouched
<1>9. Hostless'
  BY <1>1, <1>6 DEF Hostless
<1> QED
  BY <1>1, <1>3, <1>6, <1>7, <1>8, <1>9 DEF Working

-----------------------------------------------------------------------------
\* A wrapper that finds its record marked, and one that renders by itself.
LEMMA LeavesTurns ==
  ASSUME Types, LeavesOnce, Recorded, NEW i \in Ids, Marked(i), Leaves(i), toast' = toast,
         screen[i].clock \in {"running", "spent", "held", "due"}
  PROVE  /\ screen' \in [Ids -> Wrappers] /\ record' \in [Ids -> RecordKinds]
         /\ \A j \in Ids : Turn(j) /\ Parting(j)
<1>1. screen' = [screen EXCEPT ![i].clock = "leaving"] /\ record' = [record EXCEPT ![i] = "stored"]
  BY DEF Leaves
<1>2. screen' \in [Ids -> Wrappers] /\ record' \in [Ids -> RecordKinds]
  BY <1>1 DEF Types, Wrappers, Clocks, RecordKinds
<1>3. /\ screen'[i].gen = screen[i].gen /\ screen'[i].dur = screen[i].dur
      /\ screen'[i].clock = "leaving" /\ record'[i] = "stored"
      /\ \A j \in Ids : j # i => screen'[j] = screen[j] /\ record'[j] = record[j]
  BY <1>1 DEF Types, Wrappers
<1>4. /\ toast[i].gen = screen[i].gen => toast[i].told > 0
      /\ toast[i].at = "exiting" \/ dirty
  BY DEF Marked, LeavesOnce, Recorded
<1>5. Turn(i)
  BY <1>3, <1>4 DEF Turn, Turned
<1> QED
  BY <1>2, <1>3, <1>5 DEF Turn, Parting

LEMMA WakesTurns ==
  ASSUME Types, LeavesOnce, Recorded, NEW i \in Ids, toast' = toast,
         NEW clocks \in SUBSET {"running", "held", "due"}, Wakes(i, clocks),
         screen[i].clock \in {"running", "spent", "held", "due"}
  PROVE  /\ screen' \in [Ids -> Wrappers] /\ record' \in [Ids -> RecordKinds]
         /\ \A j \in Ids : Turn(j) /\ Parting(j)
<1>1. CASE Marked(i)
  BY <1>1, LeavesTurns DEF Wakes
<1>2. CASE ~Marked(i)
  <2>1. PICK clock \in clocks : screen' = [screen EXCEPT ![i].clock = clock]
    BY <1>2 DEF Wakes
  <2>2. record' = record
    BY <1>2 DEF Wakes
  <2>3. screen' \in [Ids -> Wrappers]
    BY <2>1 DEF Types, Wrappers, Clocks
  <2>4. Turned(i, {"running", "held", "due"}) /\ \A j \in Ids : j # i => screen'[j] = screen[j]
    BY <2>1 DEF Types, Wrappers, Turned
  <2> QED
    BY <2>2, <2>3, <2>4 DEF Types, Turn, Parting
<1> QED
  BY <1>1, <1>2

\* A pause or its end changes one wrapper, on a mounted host.
LEMMA PauseWorks ==
  ASSUME Types, Hostless, LeavesOnce, Recorded, NEW i \in Ids, Pause(i) \/ Resume(i)
  PROVE  Working
<1>1. PICK clocks \in SUBSET {"running", "held", "due"} :
        Wakes(i, clocks) /\ screen[i].clock \in {"running", "spent", "held"}
  BY DEF Pause, Resume
<1>2. UNCHANGED <<toast, host, limit, dirty, silent, cheated, kept, calls>>
  BY DEF Pause, Resume
<1>3. /\ screen' \in [Ids -> Wrappers] /\ record' \in [Ids -> RecordKinds]
      /\ \A j \in Ids : Turn(j) /\ Parting(j)
  BY <1>1, <1>2, WakesTurns
<1>4. \A j \in Ids : Life(j) /\ ~Reborn(j) /\ Frozen(j)
  BY <1>2, Untouched DEF Reborn
<1>5. host
  BY <1>1 DEF Hostless, NoWrapper
<1>6. Types' /\ Hostless'
  BY <1>2, <1>3, <1>5 DEF Types, Hostless
<1> QED
  BY <1>2, <1>3, <1>4, <1>6 DEF Working

\* A clock that has run out, or has nothing left, dismisses its toast.
LEMMA SpentWorks ==
  ASSUME Types, Hostless, NEW i \in Ids, screen[i].clock \in {"running", "due"},
         screen' = [screen EXCEPT ![i].clock = "spent"], Dismiss(i),
         UNCHANGED <<host, limit, silent, cheated, calls>>
  PROVE  Working
<1>1. host
  BY DEF Hostless, NoWrapper
<1>2. screen' \in [Ids -> Wrappers]
  BY DEF Types, Wrappers, Clocks
<1>3. Turned(i, {"spent"}) /\ \A j \in Ids : j # i => screen'[j] = screen[j]
  BY DEF Types, Wrappers, Turned
<1>4. toast'[i].at = "open" => Kept(i)'
  BY DismissLives
<1>5. \A j \in Ids : Turn(j)
  BY <1>3, <1>4 DEF Turn
<1>6. Types' /\ Hostless'
  BY <1>1, <1>2, DismissLives DEF Types, Hostless
<1>7. (\A j \in Ids : Life(j) /\ ~Reborn(j)) /\ (dirty => dirty')
  BY DismissLives
<1>8. ~dirty' => \A j \in Ids : Frozen(j)
  BY <1>1, DismissLives
<1>9. \A j \in Ids : Parting(j)
  BY <1>3, DismissLives DEF Parting, Turned
<1> QED
  BY <1>1, <1>5, <1>6, <1>7, <1>8, <1>9 DEF Working, Frozen

\* The host goes away.
LEMMA UnmountTurns ==
  ASSUME Types, Unmount
  PROVE  /\ screen' \in [Ids -> Wrappers] /\ record' \in [Ids -> RecordKinds]
         /\ ~host' /\ ~dirty' /\ ~silent'
         /\ dirty' \in BOOLEAN /\ silent' \in BOOLEAN /\ host' \in BOOLEAN
         /\ Hostless' /\ \A j \in Ids : Turn(j) /\ Parting(j)
<1>1. NoWrapper \in Wrappers
  <2>1. 0 \in 0..MaxCalls
    BY ToastAssumption
  <2> QED
    BY <2>1 DEF NoWrapper, Wrappers, Durations, Clocks
<1>2. /\ screen' = [i \in Ids |-> NoWrapper] /\ record' = [i \in Ids |-> "stored"]
      /\ host' = FALSE /\ dirty' = FALSE /\ silent' = FALSE
  BY DEF Unmount
<1>3. screen' \in [Ids -> Wrappers] /\ record' \in [Ids -> RecordKinds]
  BY <1>1, <1>2 DEF RecordKinds
<1> QED
  BY <1>2, <1>3 DEF Hostless, Turn, Parting

LEMMA HostUnmountsWorks ==
  ASSUME Types, HostUnmounts
  PROVE  Working
<1>1. Unmount /\ calls' = calls + 1 /\ calls < MaxCalls /\ UNCHANGED <<toast, limit, cheated, kept>>
  BY DEF HostUnmounts, Called
<1>2. Types'
  BY <1>1, UnmountTurns, ToastAssumption DEF Types
<1>3. \A j \in Ids : Life(j) /\ ~Reborn(j)
  BY <1>1, Untouched DEF Reborn
<1> QED
  BY <1>1, <1>2, <1>3, UnmountTurns DEF Working

LEMMA ResumeDueWorks ==
  ASSUME Types, Hostless, LeavesOnce, Recorded, NEW i \in Ids, ResumeDue(i)
  PROVE  Working
<1>1. screen[i].clock = "due" /\ UNCHANGED <<limit, cheated, calls>>
  BY DEF ResumeDue
<1>2. host
  BY <1>1 DEF Hostless, NoWrapper
<1>3. CASE Marked(i)
  <2>1. Leaves(i) /\ UNCHANGED <<toast, host, dirty, silent, kept>>
    BY <1>3 DEF ResumeDue
  <2>2. /\ screen' \in [Ids -> Wrappers] /\ record' \in [Ids -> RecordKinds]
        /\ \A j \in Ids : Turn(j) /\ Parting(j)
    BY <1>1, <1>3, <2>1, LeavesTurns
  <2>3. \A j \in Ids : Life(j) /\ ~Reborn(j) /\ Frozen(j)
    BY <1>1, <2>1, Untouched DEF Reborn
  <2>4. Types' /\ Hostless'
    BY <1>1, <1>2, <2>1, <2>2 DEF Types, Hostless
  <2> QED
    BY <1>1, <2>1, <2>2, <2>3, <2>4 DEF Working
<1>4. CASE ~Marked(i) /\ toast[i].at = "open" /\ toast[i].on = "throws"
  <2>1. toast' = [toast EXCEPT ![i] = AfterDismiss(i)] /\ kept' = kept \cup {i} /\ Unmount
    BY <1>4 DEF ResumeDue
  <2>2. toast' \in [Ids -> Records] /\ toast'[i] = AfterDismiss(i)
        /\ \A j \in Ids : j # i => toast'[j] = toast[j]
    BY <1>4, <2>1, Dismissed DEF Types
  <2>3. Addressed(i)
    BY <1>4, <2>1, <2>2, Dismissed DEF Addressed
  <2>4. \A j \in Ids : Life(j) /\ ~Reborn(j)
    BY <1>1, <1>4, <2>1, <2>2, <2>3, Untouched DEF Life, Reborn
  <2>5. Types'
    BY <1>1, <2>1, <2>2, UnmountTurns DEF Types
  <2> QED
    BY <1>1, <2>1, <2>4, <2>5, UnmountTurns DEF Working
<1>5. CASE ~Marked(i) /\ ~(toast[i].at = "open" /\ toast[i].on = "throws")
  <2>1. Dismiss(i) /\ UNCHANGED <<host, silent>> /\ screen' = [screen EXCEPT ![i].clock = "spent"]
    BY <1>5 DEF ResumeDue
  <2> QED
    BY <1>1, <2>1, SpentWorks
<1> QED
  BY <1>3, <1>4, <1>5

LEMMA ExitEndsWorks ==
  ASSUME Types, Hostless, LeavesOnce, Recorded, NEW i \in Ids, ExitEnds(i)
  PROVE  Working
<1>1. /\ screen[i].clock = "leaving" /\ screen' = [screen EXCEPT ![i] = NoWrapper]
      /\ UNCHANGED <<host, limit, silent, record, cheated, kept, calls>>
  BY DEF ExitEnds
<1>2. host
  BY <1>1 DEF Hostless, NoWrapper
<1>3. NoWrapper \in Wrappers
  <2>1. 0 \in 0..MaxCalls
    BY ToastAssumption
  <2> QED
    BY <2>1 DEF NoWrapper, Wrappers, Durations, Clocks
<1>4. screen' \in [Ids -> Wrappers] /\ screen'[i] = NoWrapper
      /\ \A j \in Ids : j # i => screen'[j] = screen[j]
  BY <1>1, <1>3 DEF Types
<1>5. \A j \in Ids : Parting(j)
  BY <1>1 DEF Parting
<1>6. CASE toast[i].gen = screen[i].gen
  <2>1. toast[i].told > 0 /\ toast[i] \in Records
    BY <1>1, <1>6 DEF LeavesOnce, Types
  <2>2. toast' = [toast EXCEPT ![i] = Moved(toast[i], "out")] /\ dirty' = TRUE
    BY <1>6 DEF ExitEnds, Types
  <2>3. toast' \in [Ids -> Records] /\ toast'[i] = Moved(toast[i], "out")
        /\ \A j \in Ids : j # i => toast'[j] = toast[j]
    BY <2>1, <2>2, MovedRecord DEF Types
  <2>4. Left(i)
    BY <2>1, <2>3, MovedRecord DEF Left
  <2>5. \A j \in Ids : Life(j) /\ ~Reborn(j)
    BY <1>1, <2>3, <2>4, Untouched DEF Life, Left, Reborn
  <2>6. \A j \in Ids : Turn(j)
    BY <1>1, <1>4, <2>2 DEF Turn
  <2>7. Types' /\ Hostless'
    BY <1>1, <1>2, <1>4, <2>2, <2>3 DEF Types, Hostless
  <2> QED
    BY <1>1, <1>5, <2>2, <2>5, <2>6, <2>7 DEF Working
<1>7. CASE toast[i].gen # screen[i].gen
  <2>1. toast' = toast /\ dirty' = dirty
    BY <1>7 DEF ExitEnds
  <2>2. \A j \in Ids : Life(j) /\ ~Reborn(j) /\ Frozen(j)
    BY <1>1, <2>1, Untouched DEF Reborn
  <2>3. \A j \in Ids : Turn(j)
    BY <1>1, <1>4, <1>7 DEF Turn
  <2>4. Types' /\ Hostless'
    BY <1>1, <1>2, <1>4, <2>1 DEF Types, Hostless
  <2> QED
    BY <1>1, <1>2, <1>5, <2>1, <2>2, <2>3, <2>4 DEF Working
<1> QED
  BY <1>6, <1>7

-----------------------------------------------------------------------------
\* A wrapper after a render is none, one that plays an exit, the old one, if it is of
\* this generation and duration and does not leave, or one with a clock of its own.
LEMMA RenderedCases ==
  ASSUME Types, NEW i \in Ids, NEW n \in Nat, NEW Held \in SUBSET Ids
  PROVE  LET w == Rendered(i, n, Held)
         IN  /\ w \in Wrappers
             /\ ~Shown(i, n) => w = NoWrapper
             /\ Shown(i, n) /\ toast[i].at = "exiting" =>
                  w.gen = toast[i].gen /\ w.dur = toast[i].dur /\ w.clock = "leaving"
             /\ Shown(i, n) /\ toast[i].at # "exiting" =>
                  /\ toast[i].at = "open" /\ w.gen = toast[i].gen /\ w.dur = toast[i].dur
                  /\ \/ w = screen[i] /\ w.clock \notin {"none", "leaving"}
                     \/ w.clock \in {"running", "held", "due"}
                     \/ w.clock = "off" /\ w.dur = Never
<1> DEFINE w == Rendered(i, n, Held)
<1>1. toast[i] \in Records /\ screen[i] \in Wrappers
  BY DEF Types
<1>2. CASE ~Shown(i, n)
  <2>1. 0 \in 0..MaxCalls
    BY ToastAssumption
  <2>2. NoWrapper \in Wrappers
    BY <2>1 DEF NoWrapper, Wrappers, Durations, Clocks
  <2>3. ~Visible(i, n) /\ toast[i].at # "exiting"
    BY <1>2 DEF Shown
  <2>4. w = NoWrapper
    BY <1>2, <2>3 DEF Rendered
  <2> QED
    BY <1>2, <2>2, <2>4
<1>3. CASE toast[i].at = "exiting"
  <2> DEFINE r == [gen |-> toast[i].gen, dur |-> toast[i].dur, clock |-> "leaving"]
  <2>1. Shown(i, n) /\ ~Visible(i, n)
    BY <1>3 DEF Shown, Visible
  <2>2. w = r
    BY <1>3, <2>1 DEF Rendered
  <2>3. r \in Wrappers
    BY <1>1 DEF Records, Wrappers, Clocks
  <2> QED
    BY <1>3, <2>1, <2>2, <2>3
<1>4. CASE Shown(i, n) /\ toast[i].at # "exiting"
  <2>1. Visible(i, n) /\ toast[i].at = "open"
    BY <1>4 DEF Shown, Visible
  <2>2. w = IF screen[i].clock # "none" /\ screen[i].gen = toast[i].gen
               /\ screen[i].dur = toast[i].dur
            THEN Restored(i, Held) ELSE Fresh(i, Held)
    BY <1>4, <2>1 DEF Rendered
  <2>3. PICK clock \in {"off", "held", "running"} :
          /\ Fresh(i, Held) = [gen |-> toast[i].gen, dur |-> toast[i].dur, clock |-> clock]
          /\ clock = "off" => toast[i].dur = Never
    BY DEF Fresh
  <2>4. Fresh(i, Held) \in Wrappers
    BY <1>1, <2>3 DEF Records, Wrappers, Clocks
  <2>5. /\ Restored(i, Held) \in Wrappers
        /\ Restored(i, Held).gen = screen[i].gen /\ Restored(i, Held).dur = screen[i].dur
        /\ \/ Restored(i, Held) = screen[i] /\ screen[i].clock # "leaving"
           \/ Restored(i, Held).clock \in {"held", "due"}
    BY <1>1 DEF Restored, Wrappers, Clocks
  <2> QED
    BY <1>1, <1>4, <2>1, <2>2, <2>3, <2>4, <2>5
<1> QED
  BY <1>2, <1>3, <1>4

LEMMA RenderWorks ==
  ASSUME Types, NEW n \in Limits, NEW Held \in SUBSET Ids, Render(n, Held), limit' = n,
         UNCHANGED <<toast, cheated, kept>>, host' = TRUE,
         calls' = calls \/ Called
  PROVE  Rendering
<1>1. /\ screen' = [i \in Ids |-> Rendered(i, n, Held)] /\ record' = [i \in Ids |-> "stored"]
      /\ dirty' = FALSE /\ silent' = FALSE
  BY DEF Render
<1>2. n \in Nat
  BY ToastAssumption
<1>3. \A i \in Ids : Rendered(i, n, Held) \in Wrappers
  BY <1>2, RenderedCases
<1>4. screen' \in [Ids -> Wrappers]
  BY <1>1, <1>3
<1>5. calls' \in {calls, calls + 1} /\ calls' \in 0..MaxCalls
  BY ToastAssumption DEF Called, Types
<1>6. Types'
  BY <1>1, <1>4, <1>5 DEF Types, RecordKinds
<1> QED
  BY <1>1, <1>5, <1>6 DEF Rendering

LEMMA Steps ==
  ASSUME Types, Counted, Hostless, LeavesOnce, Recorded, Next
  PROVE  Working \/ Rendering
<1>1. ASSUME NEW i \in Ids, NEW dur \in Durations, NEW on \in Callbacks, Show(i, dur, on)
      PROVE  Working
  BY <1>1, ShowWorks
<1>2. ASSUME NEW i \in Ids, DismissOne(i) \/ DismissAllAborts(i)
      PROVE  Working
  BY <1>2, DismissOneWorks, DismissAllAbortsWorks
<1>3. ASSUME NEW i \in Ids, Expires(i) \/ Pause(i) \/ Resume(i) \/ ResumeDue(i) \/ ExitEnds(i)
      PROVE  Working
  <2>1. CASE Expires(i)
    BY <2>1, SpentWorks DEF Expires
  <2> QED
    BY <1>3, <2>1, PauseWorks, ResumeDueWorks, ExitEndsWorks
<1>4. CASE DismissAll \/ HostUnmounts
  BY <1>4, DismissAllWorks, HostUnmountsWorks
<1>5. ASSUME NEW Held \in SUBSET Ids, Flush(Held)
      PROVE  Rendering
  <2>1. limit \in Limits /\ Render(limit, Held) /\ limit' = limit /\ host' = TRUE
        /\ UNCHANGED <<toast, cheated, kept>> /\ calls' = calls
    BY <1>5 DEF Flush, Types
  <2> QED
    BY <2>1, RenderWorks
<1>6. ASSUME NEW Held \in SUBSET Ids, NEW n \in Limits, SetLimit(n, Held) \/ HostMounts(n, Held)
      PROVE  Rendering
  <2>1. Render(n, Held) /\ limit' = n /\ host' = TRUE /\ UNCHANGED <<toast, cheated, kept>> /\ Called
    BY <1>6 DEF SetLimit, HostMounts, Types
  <2> QED
    BY <2>1, RenderWorks
<1> QED
  BY <1>1, <1>2, <1>3, <1>4, <1>5, <1>6 DEF Next

-----------------------------------------------------------------------------
\* Who is visible depends on what is open and where.
LEMMA FrozenSeen ==
  ASSUME \A i \in Ids : Frozen(i), limit' = limit
  PROVE  \A i \in Ids : Shown(i, limit)' <=> Shown(i, limit)
<1>1. \A i \in Ids : Ahead(i)' = Ahead(i)
  BY DEF Ahead, Frozen
<1> QED
  BY <1>1 DEF Shown, Visible, Frozen

LEMMA WorkingKeeps ==
  ASSUME Inv, Working
  PROVE  Inv'
<1> USE DEF Inv
<1>1. /\ \A i \in Ids : Life(i) /\ Turn(i) /\ Parting(i)
      /\ \A i \in Ids : toast[i] \in Records /\ toast'[i] \in Records
      /\ \A i \in Ids : screen[i] \in Wrappers /\ screen'[i] \in Wrappers
      /\ calls \in Nat /\ calls' \in {calls, calls + 1}
  BY ToastAssumption DEF Working, Types
<1>2. Types' /\ Hostless'
  BY DEF Working
<1>3. Counted'
  <2> SUFFICES ASSUME NEW i \in Ids
               PROVE  toast'[i].gen <= calls' /\ toast'[i].place <= calls'
    BY DEF Counted
  <2>1. toast[i].gen <= calls /\ toast[i].place <= calls
        /\ toast[i].gen \in Int /\ toast[i].place \in Int
    BY <1>1 DEF Counted, Records
  <2> QED
    BY <1>1, <2>1 DEF Life, Same, Restyled, Reborn, Addressed, Left
<1>4. NotAhead'
  <2> SUFFICES ASSUME NEW i \in Ids PROVE screen'[i].gen <= toast'[i].gen
    BY DEF NotAhead
  <2>1. screen[i].gen <= toast[i].gen /\ toast[i].gen \in Nat /\ screen[i].gen \in Nat
    BY <1>1 DEF NotAhead, Records, Wrappers
  <2>2. toast'[i].gen \in {toast[i].gen, toast[i].gen + 1}
    BY <1>1 DEF Life, Same, Restyled, Reborn, Addressed, Left
  <2>3. screen'[i].gen \in {screen[i].gen, 0}
    BY <1>1 DEF Turn, Turned, NoWrapper
  <2> QED
    BY <2>1, <2>2, <2>3
<1>5. OwnPlace'
  <2> SUFFICES ASSUME NEW i \in Ids, NEW j \in Ids, i # j,
                      toast'[i].at # "out", toast'[j].at # "out"
               PROVE  toast'[i].place # toast'[j].place
    BY DEF OwnPlace
  <2>1. \A k \in {i, j} :
          \/ toast[k].at # "out" /\ toast'[k].place = toast[k].place
          \/ Reborn(k) /\ toast'[k].place = calls + 1
    BY <1>1 DEF Life, Same, Restyled, Reborn, Addressed, Left
  <2>2. \A k \in {i, j} : toast[k].place <= calls /\ toast[k].place \in Int
    BY <1>1 DEF Counted, Records
  <2>3. ~(Reborn(i) /\ Reborn(j))
    BY DEF Working
  <2> QED
    BY <1>1, <2>1, <2>2, <2>3 DEF OwnPlace
<1>6. LeavesOnce'
  <2> SUFFICES ASSUME NEW i \in Ids
               PROVE  /\ toast'[i].at = "exiting" => toast'[i].told > 0
                      /\ screen'[i].clock = "leaving" /\ screen'[i].gen = toast'[i].gen =>
                           toast'[i].told > 0
    BY DEF LeavesOnce
  <2>1. toast'[i].at = "exiting" => toast'[i].told > 0
    BY <1>1 DEF LeavesOnce, Life, Same, Restyled, Reborn, Addressed, Left
  <2>2. ASSUME screen'[i].clock = "leaving", screen'[i].gen = toast'[i].gen
        PROVE  toast'[i].told > 0
    <3>1. screen'[i].gen = screen[i].gen
          /\ (screen[i].gen = toast[i].gen => toast[i].told > 0)
      BY <1>1, <2>2 DEF Turn, Turned, NoWrapper, LeavesOnce
    <3>2. screen[i].gen <= toast[i].gen /\ toast[i].gen \in Int /\ screen[i].gen \in Int
      BY <1>1 DEF NotAhead, Records, Wrappers
    <3>3. ~Reborn(i)
      BY <2>2, <3>1, <3>2 DEF Reborn
    <3> QED
      BY <1>1, <2>2, <3>1, <3>3 DEF Life, Same, Restyled, Addressed, Left
  <2> QED
    BY <2>1, <2>2
<1>7. Recorded'
  <2> SUFFICES ASSUME NEW i \in Ids
               PROVE  /\ screen'[i].clock \in {"none", "leaving"} => record'[i] = "stored"
                      /\ record'[i] # "stored" => dirty'
                      /\ record'[i] = "marked" /\ screen'[i].gen = toast'[i].gen =>
                           toast'[i].told > 0
    BY DEF Recorded
  <2>1. screen'[i].clock \in {"none", "leaving"} => record'[i] = "stored"
    <3>1. CASE host'
      BY <1>1, <3>1 DEF Recorded, Turn, Turned, Parting
    <3>2. CASE ~host'
      BY <1>2, <3>2 DEF Hostless
    <3> QED
      BY <3>1, <3>2
  <2>2. record'[i] # "stored" => dirty'
    <3>1. record'[i] # "stored" => host'
      BY <1>2 DEF Hostless
    <3>2. host' /\ dirty => dirty'
      BY DEF Working
    <3> QED
      BY <1>1, <3>1, <3>2 DEF Recorded, Parting
  <2>3. ASSUME record'[i] = "marked", screen'[i].gen = toast'[i].gen
        PROVE  toast'[i].told > 0
    <3>1. screen[i].gen <= toast[i].gen /\ toast[i].gen \in Nat /\ screen[i].gen \in Nat
      BY <1>1 DEF NotAhead, Records, Wrappers
    <3>2. screen'[i].gen = screen[i].gen
      BY <1>1, <2>1, <2>3 DEF Turn, Turned, NoWrapper
    <3>3. ~Reborn(i)
      BY <2>3, <3>1, <3>2 DEF Reborn
    <3>4. CASE record[i] = "marked"
      BY <1>1, <2>3, <3>2, <3>3, <3>4 DEF Recorded, Life, Same, Restyled, Addressed, Left
    <3>5. CASE record[i] # "marked"
      BY <1>1, <2>3, <3>3, <3>5 DEF Parting
    <3> QED
      BY <3>4, <3>5
  <2> QED
    BY <2>1, <2>2, <2>3
<1>8. ClockRuns'
  <2> SUFFICES ASSUME NEW i \in Ids
               PROVE  /\ screen'[i].clock = "off" => screen'[i].dur = Never
                      /\ screen'[i].clock = "spent" /\ screen'[i].gen = toast'[i].gen
                         /\ toast'[i].at = "open" => Kept(i)'
    BY DEF ClockRuns
  <2>1. CASE screen'[i] = screen[i]
    <3>1. screen[i].gen <= toast[i].gen /\ toast[i].gen \in Int /\ screen[i].gen \in Int
      BY <1>1 DEF NotAhead, Records, Wrappers
    <3>2. screen'[i].gen = toast'[i].gen => ~Reborn(i) /\ toast'[i].gen = toast[i].gen
      BY <1>1, <2>1, <3>1 DEF Life, Same, Restyled, Addressed, Left, Reborn
    <3>3. toast'[i].at = "open" /\ ~Reborn(i) =>
            toast[i].at = "open" /\ (Kept(i) => Kept(i)')
      BY <1>1 DEF Life, Same, Restyled, Addressed, Left, Kept
    <3> QED
      BY <2>1, <3>2, <3>3 DEF ClockRuns
  <2>2. CASE screen'[i] # screen[i]
    BY <1>1, <2>2 DEF Turn, Turned, NoWrapper
  <2> QED
    BY <2>1, <2>2
<1>9. UpToDate'
  <2> SUFFICES ASSUME host', ~dirty', NEW i \in Ids, screen'[i].clock # "none",
                      toast'[i].at = "open"
               PROVE  screen'[i].gen = toast'[i].gen /\ screen'[i].dur = toast'[i].dur
    BY DEF UpToDate
  <2>1. host /\ ~dirty /\ toast[i].at = "open" /\ toast'[i].gen = toast[i].gen
        /\ toast'[i].dur = toast[i].dur
    BY DEF Working
  <2>2. screen[i].clock # "none" /\ screen'[i].gen = screen[i].gen
        /\ screen'[i].dur = screen[i].dur
    BY <1>1 DEF Turn, Turned, NoWrapper
  <2> QED
    BY <2>1, <2>2 DEF UpToDate
<1>10. ToldOnce'
  <2> SUFFICES ASSUME NEW i \in Ids, toast'[i].gen > 0
               PROVE  /\ toast'[i].at # "open" => toast'[i].told > 0
                      /\ i \notin cheated' \cup kept' =>
                           toast'[i].told = IF toast'[i].at = "open" THEN 0 ELSE 1
    BY DEF ToldOnce
  <2>1. CASE Reborn(i)
    BY <2>1 DEF Reborn
  <2>2. CASE ~Reborn(i)
    <3>1. toast[i].gen > 0 /\ (i \notin cheated' \cup kept' => i \notin cheated \cup kept)
      BY <1>1, <2>2 DEF Life, Same, Restyled, Addressed, Left
    <3> QED
      BY <1>1, <2>2, <3>1 DEF ToldOnce, Life, Same, Restyled, Addressed, Left
  <2> QED
    BY <2>1, <2>2
<1>11. ScreenFollows'
  <2> SUFFICES ASSUME host', ~dirty', ~silent', NEW i \in Ids
               PROVE  IF Shown(i, limit)'
                      THEN /\ screen'[i].gen = toast'[i].gen /\ screen'[i].dur = toast'[i].dur
                           /\ screen'[i].clock = "leaving" <=> toast'[i].at = "exiting"
                           /\ screen'[i].clock = "off" => toast'[i].dur = Never
                           /\ screen'[i].clock = "spent" => Kept(i)'
                      ELSE screen'[i] = NoWrapper
    BY DEF ScreenFollows
  <2>1. host /\ ~dirty /\ ~silent /\ limit' = limit /\ \A j \in Ids : Frozen(j)
    BY DEF Working
  <2>2. Shown(i, limit)' <=> Shown(i, limit)
    BY <2>1, FrozenSeen
  <2>3. CASE ~Shown(i, limit)
    <3>1. screen[i] = NoWrapper
      BY <2>1, <2>3 DEF ScreenFollows
    <3>2. screen'[i] = NoWrapper
      BY <1>1, <3>1 DEF Turn, NoWrapper
    <3> QED
      BY <2>2, <2>3, <3>2
  <2>4. CASE Shown(i, limit)
    <3>1. /\ screen[i].gen = toast[i].gen /\ screen[i].dur = toast[i].dur
          /\ (screen[i].clock = "leaving") <=> (toast[i].at = "exiting")
          /\ screen[i].clock = "off" => toast[i].dur = Never
          /\ screen[i].clock = "spent" => Kept(i)
      BY <2>1, <2>4 DEF ScreenFollows
    <3>2. /\ toast'[i].gen = toast[i].gen /\ toast'[i].dur = toast[i].dur
          /\ toast'[i].at = toast[i].at /\ (Kept(i) => Kept(i)')
      BY <2>1 DEF Frozen, Kept
    <3>3. CASE screen'[i] = screen[i]
      BY <2>2, <2>4, <3>1, <3>2, <3>3
    <3>4. CASE screen'[i] # screen[i]
      <4>1. screen'[i] # NoWrapper /\ toast[i].at # "exiting"
        BY <1>1, <3>1, <3>4 DEF Turn, Turned, NoWrapper
      <4>2. /\ screen'[i].gen = screen[i].gen /\ screen'[i].dur = screen[i].dur
            /\ \/ screen'[i].clock \in {"running", "held", "due"}
               \/ screen'[i].clock = "spent" /\ (toast'[i].at = "open" => Kept(i)')
        BY <1>1, <2>1, <3>4, <4>1 DEF Turn, Turned
      <4>3. toast[i].at = "open"
        BY <2>4, <4>1 DEF Shown, Visible
      <4> QED
        BY <2>2, <2>4, <3>1, <3>2, <4>1, <4>2, <4>3
    <3> QED
      BY <3>3, <3>4
  <2> QED
    BY <2>3, <2>4
<1> QED
  BY <1>2, <1>3, <1>4, <1>5, <1>6, <1>7, <1>8, <1>9, <1>10, <1>11

LEMMA RenderingKeeps ==
  ASSUME Inv, Rendering
  PROVE  Inv'
<1> USE DEF Inv
<1>1. /\ toast' = toast /\ host' /\ ~dirty' /\ ~silent' /\ cheated' = cheated
      /\ kept' = kept /\ (\A i \in Ids : record'[i] = "stored")
      /\ calls' \in {calls, calls + 1} /\ calls \in Nat /\ limit' \in Nat
      /\ \A i \in Ids : toast[i] \in Records /\ screen[i] \in Wrappers
  BY ToastAssumption DEF Rendering, Types
<1>2. PICK Held \in SUBSET Ids : \A i \in Ids : screen'[i] = Rendered(i, limit', Held)
  BY DEF Rendering
<1>3. ASSUME NEW i \in Ids
      PROVE  /\ ~Shown(i, limit') => screen'[i] = NoWrapper
             /\ Shown(i, limit') /\ toast[i].at = "exiting" =>
                  screen'[i].gen = toast[i].gen /\ screen'[i].dur = toast[i].dur
                  /\ screen'[i].clock = "leaving"
             /\ Shown(i, limit') /\ toast[i].at # "exiting" =>
                  /\ toast[i].at = "open" /\ screen'[i].gen = toast[i].gen
                  /\ screen'[i].dur = toast[i].dur
                  /\ \/ screen'[i] = screen[i] /\ screen'[i].clock \notin {"none", "leaving"}
                     \/ screen'[i].clock \in {"running", "held", "due"}
                     \/ screen'[i].clock = "off" /\ screen'[i].dur = Never
  BY <1>1, <1>2, RenderedCases
<1>4. \A i \in Ids : Shown(i, limit)' <=> Shown(i, limit')
  BY <1>1 DEF Shown, Visible, Ahead
<1>5. Types' /\ Hostless'
  BY <1>1 DEF Rendering, Hostless
<1>6. Counted' /\ OwnPlace' /\ ToldOnce'
  <2>1. \A i \in Ids : toast[i].gen \in Int /\ toast[i].place \in Int
    BY <1>1 DEF Records
  <2> QED
    BY <1>1, <2>1 DEF Counted, OwnPlace, ToldOnce
<1>7. ASSUME NEW i \in Ids
      PROVE  /\ screen'[i].gen <= toast'[i].gen
             /\ screen'[i].clock = "leaving" => toast'[i].at = "exiting"
             /\ screen'[i].clock = "off" => screen'[i].dur = Never
             /\ screen'[i].clock = "spent" => toast[i].at = "open" /\ Kept(i)
             /\ screen'[i].clock # "none" =>
                  screen'[i].gen = toast[i].gen /\ screen'[i].dur = toast[i].dur
  <2>1. toast[i].gen \in Nat
    BY <1>1 DEF Records
  <2>2. CASE ~Shown(i, limit')
    BY <1>1, <1>3, <2>1, <2>2 DEF NoWrapper
  <2>3. CASE toast[i].at = "exiting"
    BY <1>1, <1>3, <2>1, <2>3 DEF Shown
  <2>4. CASE Shown(i, limit') /\ toast[i].at # "exiting"
    BY <1>1, <1>3, <2>1, <2>4 DEF ClockRuns
  <2> QED
    BY <2>2, <2>3, <2>4
<1>8. \A i \in Ids : Kept(i)' <=> Kept(i)
  BY <1>1 DEF Kept
<1>9. NotAhead' /\ LeavesOnce' /\ Recorded' /\ ClockRuns' /\ UpToDate'
  BY <1>1, <1>7, <1>8 DEF NotAhead, LeavesOnce, Recorded, ClockRuns, UpToDate
<1>10. ScreenFollows'
  <2> SUFFICES ASSUME NEW i \in Ids
               PROVE  IF Shown(i, limit)'
                      THEN /\ screen'[i].gen = toast'[i].gen /\ screen'[i].dur = toast'[i].dur
                           /\ screen'[i].clock = "leaving" <=> toast'[i].at = "exiting"
                           /\ screen'[i].clock = "off" => toast'[i].dur = Never
                           /\ screen'[i].clock = "spent" => Kept(i)'
                      ELSE screen'[i] = NoWrapper
    BY DEF ScreenFollows
  <2>1. CASE ~Shown(i, limit')
    BY <1>3, <1>4, <2>1
  <2>2. CASE Shown(i, limit') /\ toast[i].at = "exiting"
    BY <1>1, <1>3, <1>4, <2>2
  <2>3. CASE Shown(i, limit') /\ toast[i].at # "exiting"
    BY <1>1, <1>3, <1>4, <1>7, <1>8, <2>3
  <2> QED
    BY <2>1, <2>2, <2>3
<1> QED
  BY <1>5, <1>6, <1>9, <1>10

LEMMA InvInit == Init => Inv
<1> SUFFICES ASSUME Init PROVE Inv
  OBVIOUS
<1>1. 0 \in 0..MaxCalls /\ 0 \in 0..2
  BY ToastAssumption
<1>2. Absent \in Records /\ NoWrapper \in Wrappers
  BY <1>1 DEF Absent, NoWrapper, Records, Wrappers, Durations, Clocks
<1>3. toast = [i \in Ids |-> Absent] /\ screen = [i \in Ids |-> NoWrapper]
      /\ record = [i \in Ids |-> "stored"]
  BY DEF Init
<1>4. Types
  BY <1>1, <1>2, <1>3 DEF Init, Types, RecordKinds
<1>5. Counted /\ Hostless /\ NotAhead /\ OwnPlace /\ LeavesOnce /\ Recorded /\ ClockRuns /\ UpToDate
      /\ ToldOnce
  BY <1>3 DEF Init, Absent, NoWrapper, Counted, Hostless, NotAhead, OwnPlace, LeavesOnce,
              Recorded, ClockRuns, UpToDate, ToldOnce
<1>6. \A i \in Ids : ~Shown(i, limit)
  BY <1>3 DEF Shown, Visible, Absent
<1>7. ScreenFollows
  BY <1>3, <1>6 DEF ScreenFollows
<1> QED
  BY <1>4, <1>5, <1>7 DEF Inv

\* Every step of the toasts preserves what Inv says.
THEOREM InvHolds == Spec => []Inv
<1>1. Inv /\ [Next]_vars => Inv'
  <2> SUFFICES ASSUME Inv, [Next]_vars PROVE Inv'
    OBVIOUS
  <2>1. CASE Next
    BY <2>1, Steps, WorkingKeeps, RenderingKeeps DEF Inv
  <2>2. CASE UNCHANGED vars
    BY <2>2 DEF vars, Inv, Types, Counted, Hostless, NotAhead, OwnPlace, LeavesOnce, Recorded,
                ClockRuns, UpToDate, ToldOnce, ScreenFollows, Kept, Shown, Visible, Ahead
  <2> QED
    BY <2>1, <2>2
<1> QED
  BY InvInit, <1>1, PTL DEF Spec

\* Types; no two toasts share a place, and nothing is on the screen without a host.
THEOREM TypeCorrect == Spec => []TypeOK
<1>1. Inv => TypeOK
  BY DEF Inv, Types, Counted, Hostless, NotAhead, OwnPlace, TypeOK, Records, Wrappers
<1> QED
  BY <1>1, InvHolds, PTL

\* Once React has rendered, the screen is what the store says.
THEOREM ScreenIsStore == Spec => []ScreenFollows
<1>1. Inv => ScreenFollows
  BY DEF Inv
<1> QED
  BY <1>1, InvHolds, PTL

\* Every life of a toast ends with one call of its callback, and no other.
THEOREM ToldOfTheEnd == Spec => []ToldOnce
<1>1. Inv => ToldOnce
  BY DEF Inv
<1> QED
  BY <1>1, InvHolds, PTL

\* No clock of an earlier life, or of an earlier duration, closes a toast, but
\* between a change of it and React's next render.
THEOREM ClosedByItsOwnClock == Spec => OwnClock
<1>1. Inv => \A i \in Ids :
        (Expires(i) \/ ResumeDue(i)) /\ toast[i].at = "open" /\ toast'[i] # toast[i] =>
          dirty \/ (screen[i].gen = toast[i].gen /\ screen[i].dur = toast[i].dur)
  <2> SUFFICES ASSUME Inv, NEW i \in Ids, Expires(i) \/ ResumeDue(i), toast[i].at = "open", ~dirty
               PROVE  screen[i].gen = toast[i].gen /\ screen[i].dur = toast[i].dur
    OBVIOUS
  <2>1. screen[i].clock \in {"running", "due"}
    BY DEF Expires, ResumeDue
  <2>2. host
    BY <2>1 DEF Inv, Hostless, NoWrapper
  <2> QED
    BY <2>1, <2>2 DEF Inv, UpToDate
<1> QED
  BY <1>1, InvHolds, PTL DEF OwnClock
=============================================================================
