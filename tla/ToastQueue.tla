------------------------------ MODULE ToastQueue ------------------------------
(***************************************************************************)
(* The toasts of a document: the store of toastRuntime.ts, which any code  *)
(* may call at any time, and the host (ToastSystem.tsx) that renders the   *)
(* first ones, runs a clock for each and plays its exit.                   *)
(*                                                                         *)
(* The store changes at once, the screen when React renders.  Until then   *)
(* the clocks and the exits of what is on the screen go on.  They call the *)
(* store back, a clock by the toast's id alone, an exit with the           *)
(* generation that it ended.                                               *)
(*                                                                         *)
(* Time has no amount: a clock that runs may expire, a pause may find it   *)
(* expired.  A new duration always restarts the clock.                     *)
(***************************************************************************)
EXTENDS Integers, FiniteSets

CONSTANTS Ids,
          Times,     \* the durations that end
          Never,     \* duration: false
          Callbacks, \* what onDismiss and onAutoClose do, of those named below
          Limits,    \* values of the prop limit
          MaxCalls   \* calls of the program and changes of the host, in all

ASSUME ToastAssumption ==
  /\ IsFiniteSet(Ids) /\ Never \notin Times
  /\ Callbacks \subseteq {"quiet", "again", "throws"}
  /\ Limits \subseteq Nat /\ MaxCalls \in Nat

VARIABLES
  toast,   \* each id's record in store.toasts, or what is left of it
  host,    \* the host is mounted and subscribed
  limit,   \* store.defaults.limit, and the host's prop
  screen,  \* each id's wrapper
  dirty,   \* a subscriber was called, and React has not rendered since
  silent,  \* the store has changed, nobody was told, and React has not rendered since
  record,  \* each wrapper's record
  cheated, \* the toasts that an aborted dismissAll has told, and left open
  kept,    \* the toasts that their own callback has kept open
  calls

vars == <<toast, host, limit, screen, dirty, silent, record, cheated, kept, calls>>

Durations == Times \cup {Never}

\* A wrapper's clock: no wrapper, no time, running, paused with time left or
\* with none, expired; and a wrapper that plays its exit.
Clocks == {"none", "off", "running", "held", "due", "spent", "leaving"}

\* The record that a wrapper was rendered with, which dismiss marks in place: it is
\* the one in the store, or one that was replaced there, by now marked or not.
RecordKinds == {"stored", "replaced", "marked"}

\* place orders the array store.toasts; told counts the calls of onDismiss and
\* onAutoClose for this generation, two and more being the same.
Absent == [at |-> "out", gen |-> 0, place |-> 0, dur |-> Never, on |-> "quiet", told |-> 0]
NoWrapper == [gen |-> 0, dur |-> Never, clock |-> "none"]

\* The types; each record has a place of its own, a generation names one life of
\* an id, and without a host nothing is on the screen or waits to be rendered.
TypeOK ==
  /\ toast \in [Ids -> [at : {"out", "open", "exiting"}, gen : 0..MaxCalls, place : 0..MaxCalls,
                        dur : Durations, on : Callbacks \cup {"quiet"}, told : 0..2]]
  /\ screen \in [Ids -> [gen : 0..MaxCalls, dur : Durations, clock : Clocks]]
  /\ limit \in Limits /\ calls \in 0..MaxCalls
  /\ record \in [Ids -> RecordKinds]
  /\ host \in BOOLEAN /\ dirty \in BOOLEAN /\ silent \in BOOLEAN
  /\ cheated \subseteq Ids /\ kept \subseteq Ids
  /\ ~host => ~dirty /\ \A i \in Ids : screen[i] = NoWrapper
  /\ \A i \in Ids : screen[i].gen <= toast[i].gen
  /\ \A i, j \in Ids : toast[i].at # "out" /\ toast[j].at # "out" /\ i # j =>
                         toast[i].place # toast[j].place

\* The first call comes before the host is mounted, or after.
Init ==
  /\ toast = [i \in Ids |-> Absent]
  /\ screen = [i \in Ids |-> NoWrapper]
  /\ limit \in Limits
  /\ host \in BOOLEAN /\ dirty = FALSE /\ silent = FALSE
  /\ record = [i \in Ids |-> "stored"] /\ cheated = {} /\ kept = {} /\ calls = 0

Called == calls < MaxCalls /\ calls' = calls + 1

-----------------------------------------------------------------------------
\* The open toasts before i, and whether i is among the first n.
Ahead(i) == {j \in Ids : toast[j].at = "open" /\ toast[j].place < toast[i].place}
Visible(i, n) == toast[i].at = "open" /\ Cardinality(Ahead(i)) < n

\* Whether a toast that is dismissed leaves with an exit.
Animated(i) == host /\ Visible(i, limit)

\* A record at its new place; of one that is gone, what the next life must know.
Moved(t, at) ==
  IF at = "out" THEN [Absent EXCEPT !.gen = t.gen, !.told = t.told] ELSE [t EXCEPT !.at = at]

Told(t) == [t EXCEPT !.told = IF @ < 2 THEN @ + 1 ELSE @]

\* dismiss(id) of an open toast.  The callback comes first.  If it throws, nothing
\* else happens; if it shows the toast again, that replaces the record, and what
\* is marked as exiting is no longer in the store.
AfterDismiss(i) ==
  LET at == CASE toast[i].on = "throws"                 -> "open"
              [] toast[i].on = "again" /\ Animated(i)   -> "open"
              [] toast[i].on # "throws" /\ ~Animated(i) -> "out"
              [] OTHER                                  -> "exiting"
  IN  Moved(Told(toast[i]), at)

\* The record of a wrapper when that of its toast is replaced, marked as exiting or not.
Parted(i, exiting) ==
  CASE record[i] # "stored" \/ screen[i].clock \in {"none", "leaving"} -> record[i]
    [] OTHER -> IF exiting THEN "marked" ELSE "replaced"

Dismiss(i) ==
  \/ /\ toast[i].at = "open"
     /\ toast' = [toast EXCEPT ![i] = AfterDismiss(i)]
     /\ record' = IF toast[i].on = "again" THEN [record EXCEPT ![i] = Parted(i, Animated(i))]
                  ELSE record
     /\ dirty' = (dirty \/ (host /\ toast[i].on # "throws"))
     /\ kept' = IF AfterDismiss(i).at = "open" THEN kept \cup {i} ELSE kept
  \/ /\ toast[i].at # "open"
     /\ UNCHANGED <<toast, record, dirty, kept>>

\* toast.show, and toast.update, which is a show of an id that is open: in place, with
\* the callbacks that it had, or new ones; in the place of a toast that exits, as a new
\* generation; or at the end.
Show(i, dur, on) ==
  /\ Called
  /\ toast' = [toast EXCEPT ![i] =
       CASE @.at = "open"    -> [@ EXCEPT !.dur = dur, !.on = on]
         [] @.at = "exiting" -> [at |-> "open", gen |-> @.gen + 1, place |-> @.place,
                                 dur |-> dur, on |-> on, told |-> 0]
         [] @.at = "out"     -> [at |-> "open", gen |-> @.gen + 1, place |-> calls + 1,
                                 dur |-> dur, on |-> on, told |-> 0]]
  /\ record' = [record EXCEPT ![i] = Parted(i, toast[i].at = "exiting")]
  /\ dirty' = host
  /\ IF toast[i].at = "open" THEN UNCHANGED <<cheated, kept>>
     ELSE cheated' = cheated \ {i} /\ kept' = kept \ {i}
  /\ UNCHANGED <<host, limit, screen, silent>>

\* toast.dismiss(id), a close button, an action, a swipe.
DismissOne(i) ==
  /\ Called
  /\ toast[i].at = "open" /\ Dismiss(i)
  /\ UNCHANGED <<host, limit, screen, silent, cheated>>

\* The records of the wrappers when the callbacks of these toasts have been called.
ShownAgain(told) ==
  [i \in Ids |-> IF i \in told /\ toast[i].on = "again" THEN Parted(i, Animated(i)) ELSE record[i]]

\* dismissAll() when no callback throws: what was visible exits, the others are
\* gone, and so are those that their callback has shown again.
DismissAll ==
  /\ Called
  /\ \A i \in Ids : toast[i].at = "open" => toast[i].on # "throws"
  /\ toast' = [i \in Ids |->
       IF toast[i].at # "open" THEN Moved(toast[i], IF host THEN toast[i].at ELSE "out")
       ELSE Moved(Told(toast[i]), IF Animated(i) /\ toast[i].on = "quiet" THEN "exiting" ELSE "out")]
  /\ record' = ShownAgain({i \in Ids : toast[i].at = "open"})
  /\ dirty' = host
  /\ UNCHANGED <<host, limit, screen, silent, cheated, kept>>

\* dismissAll() when the callback of t throws: those before it have been told,
\* and marked if they were visible, but no subscriber hears of it.
DismissAllAborts(t) ==
  /\ Called
  /\ toast[t].at = "open" /\ toast[t].on = "throws"
  /\ \A i \in Ahead(t) : toast[i].on # "throws"
  /\ toast' = [i \in Ids |->
       IF i \in Ahead(t)
       THEN Moved(Told(toast[i]), IF Animated(i) /\ toast[i].on = "quiet" THEN "exiting" ELSE "open")
       ELSE IF i = t THEN Told(toast[i]) ELSE toast[i]]
  /\ dirty' = (dirty \/ (host /\ \E i \in Ahead(t) : toast[i].on = "again"))
  /\ silent' = (silent \/ \E i \in Ahead(t) : Animated(i) /\ toast[i].on = "quiet")
  /\ record' = ShownAgain(Ahead(t))
  /\ cheated' = cheated \cup Ahead(t)
  /\ kept' = kept \cup {t}
  /\ UNCHANGED <<host, limit, screen>>

-----------------------------------------------------------------------------
\* What the host renders: what exits, and the first n of the others.
Shown(i, n) == toast[i].at = "exiting" \/ Visible(i, n)

\* The wrappers in Held are paused when a render starts their clocks, or have time left
\* when it resumes them.
\*
\* A new clock, or one with a new duration.
Fresh(i, Held) ==
  [gen |-> toast[i].gen, dur |-> toast[i].dur,
   clock |-> CASE toast[i].dur = Never               -> "off"
               [] toast[i].dur # Never /\ i \in Held -> "held"
               [] OTHER                              -> "running"]

\* What had begun to leave and has been shown again gets its clock back.
Restored(i, Held) ==
  CASE screen[i].clock # "leaving" -> screen[i]
    [] screen[i].clock = "leaving" ->
         [screen[i] EXCEPT !.clock = IF i \in Held THEN "held" ELSE "due"]

\* Mutant of Rendered: the key of a wrapper is the id.
RenderedById(i, n, Held) ==
  LET old == screen[i]
  IN  CASE ~Shown(i, n)           -> NoWrapper
        [] toast[i].at = "exiting" -> [gen |-> toast[i].gen, dur |-> toast[i].dur,
                                       clock |-> "leaving"]
        [] Visible(i, n)          ->
             IF old.clock # "none" /\ old.dur = toast[i].dur
             THEN Restored(i, Held) ELSE Fresh(i, Held)

\* The wrapper of i after a render: its key is the id with the generation.
Rendered(i, n, Held) ==
  LET old == screen[i]
  IN  CASE ~Shown(i, n)           -> NoWrapper
        [] toast[i].at = "exiting" -> [gen |-> toast[i].gen, dur |-> toast[i].dur,
                                       clock |-> "leaving"]
        [] Visible(i, n)          ->
             IF old.clock # "none" /\ old.gen = toast[i].gen /\ old.dur = toast[i].dur
             THEN Restored(i, Held) ELSE Fresh(i, Held)

Render(n, Held) ==
  /\ screen' = [i \in Ids |-> Rendered(i, n, Held)]
  /\ record' = [i \in Ids |-> "stored"]
  /\ dirty' = FALSE /\ silent' = FALSE

\* React renders the host, with all effects of that commit.
Flush(Held) ==
  /\ host /\ dirty
  /\ Render(limit, Held)
  /\ UNCHANGED <<toast, host, limit, cheated, kept, calls>>

\* The library's prop changes.
SetLimit(n, Held) ==
  /\ Called
  /\ host /\ n # limit
  /\ limit' = n
  /\ Render(n, Held)
  /\ UNCHANGED <<toast, host, cheated, kept>>

\* The library mounts, or takes over from another one: it renders the store as
\* it is, and subscribes.
HostMounts(n, Held) ==
  /\ Called
  /\ ~host /\ host' = TRUE
  /\ limit' = n
  /\ Render(n, Held)
  /\ UNCHANGED <<toast, cheated, kept>>

\* Mutant of Unmount: the timers outlive the host.
UnmountKeepsTimers == /\ host' = FALSE
                      /\ UNCHANGED <<screen, record>>
                      /\ dirty' = FALSE /\ silent' = FALSE

\* The host goes away, and with it timers and exits; the store stays.
Unmount == /\ host' = FALSE
           /\ screen' = [i \in Ids |-> NoWrapper] /\ record' = [i \in Ids |-> "stored"]
           /\ dirty' = FALSE /\ silent' = FALSE

HostUnmounts ==
  /\ Called
  /\ host /\ Unmount
  /\ UNCHANGED <<toast, limit, cheated, kept>>

\* The timer of a wrapper: dismiss(id, auto), with no generation.
Expires(i) ==
  /\ screen[i].clock = "running"
  /\ screen' = [screen EXCEPT ![i].clock = "spent"]
  /\ Dismiss(i)
  /\ UNCHANGED <<host, limit, silent, cheated, calls>>

\* The record of i's wrapper is marked as exiting: in the store, or by a dismissal
\* whose callback has put another in its place.
Marked(i) == record[i] = "marked" \/ (record[i] = "stored" /\ toast[i].at = "exiting")

\* A wrapper that renders by itself finds that out, and has no more use for the record.
Leaves(i) ==
  /\ screen' = [screen EXCEPT ![i].clock = "leaving"]
  /\ record' = [record EXCEPT ![i] = "stored"]

Wakes(i, clocks) ==
  IF Marked(i) THEN Leaves(i)
  ELSE /\ \E clock \in clocks : screen' = [screen EXCEPT ![i].clock = clock]
       /\ UNCHANGED record

\* Pointer, focus, a hidden document, an overlay: the clock stops.
Pause(i) ==
  /\ \/ screen[i].clock = "running" /\ Wakes(i, {"held", "due"})
     \/ screen[i].clock = "spent" /\ Wakes(i, {"due"})
  /\ UNCHANGED <<toast, host, limit, dirty, silent, cheated, kept, calls>>

\* The clock goes on with what was left.
Resume(i) ==
  /\ screen[i].clock = "held" /\ Wakes(i, {"running"})
  /\ UNCHANGED <<toast, host, limit, dirty, silent, cheated, kept, calls>>

\* Mutant of ResumeDue: the clock goes on, with nothing left, and no timer is set.
ResumeNever(i) ==
  /\ screen[i].clock = "due" /\ Wakes(i, {"spent"})
  /\ UNCHANGED <<toast, host, limit, dirty, silent, cheated, kept, calls>>

\* Nothing was left: the toast is dismissed in an effect, where a callback that
\* throws takes the host down.
ResumeDue(i) ==
  /\ screen[i].clock = "due"
  /\ CASE Marked(i) ->
            Leaves(i) /\ UNCHANGED <<toast, host, dirty, silent, kept>>
       [] ~Marked(i) /\ toast[i].at = "open" /\ toast[i].on = "throws" ->
            /\ toast' = [toast EXCEPT ![i] = AfterDismiss(i)]
            /\ kept' = kept \cup {i}
            /\ Unmount
       [] OTHER ->
            /\ screen' = [screen EXCEPT ![i].clock = "spent"]
            /\ Dismiss(i) /\ UNCHANGED <<host, silent>>
  /\ UNCHANGED <<limit, cheated, calls>>

\* Mutant of ExitEnds: whoever has the id is removed.
ExitEndsById(i) ==
  /\ screen[i].clock = "leaving"
  /\ screen' = [screen EXCEPT ![i] = NoWrapper]
  /\ toast' = [toast EXCEPT ![i] = Moved(@, "out")] /\ dirty' = TRUE
  /\ UNCHANGED <<host, limit, silent, record, cheated, kept, calls>>

\* The exit is over, or there was none to play: remove(id, generation).
ExitEnds(i) ==
  /\ screen[i].clock = "leaving"
  /\ screen' = [screen EXCEPT ![i] = NoWrapper]
  /\ IF toast[i].gen = screen[i].gen
     THEN toast' = [toast EXCEPT ![i] = Moved(@, "out")] /\ dirty' = TRUE
     ELSE UNCHANGED <<toast, dirty>>
  /\ UNCHANGED <<host, limit, silent, record, cheated, kept, calls>>

-----------------------------------------------------------------------------
Next ==
  \/ \E i \in Ids :
       \/ \E dur \in Durations, on \in Callbacks : Show(i, dur, on)
       \/ DismissOne(i) \/ DismissAllAborts(i)
       \/ Expires(i) \/ Pause(i) \/ Resume(i) \/ ResumeDue(i) \/ ExitEnds(i)
  \/ DismissAll \/ HostUnmounts
  \/ \E Held \in SUBSET Ids :
       Flush(Held) \/ \E n \in Limits : SetLimit(n, Held) \/ HostMounts(n, Held)

Spec == Init /\ [][Next]_vars

\* React renders; an exit ends, if by its fallback timer; a pause ends, for nobody keeps
\* the pointer on a toast for ever, and the toaster's prop expand, with which all toasts
\* are paused for good, is left at its default; and a clock, which keeps what it has run
\* when it is paused, expires however often that happens.
FairSpec ==
  /\ Spec
  /\ WF_vars(\E Held \in SUBSET Ids : Flush(Held))
  /\ \A i \in Ids : WF_vars(ExitEnds(i)) /\ WF_vars(Resume(i) \/ ResumeDue(i)) /\ SF_vars(Expires(i))

-----------------------------------------------------------------------------
\* A toast whose own callback has kept it.
Kept(i) == toast[i].at = "open" /\ i \in kept

\* Once React has rendered, the screen is what the store says: each toast that is
\* to be seen has a wrapper of its generation and duration, with a clock that has
\* run out only if the toast's own callback refused it, and no other toast has
\* one; unless an aborted dismissAll has changed the store and notified nobody.
ScreenFollows ==
  host /\ ~dirty /\ ~silent => \A i \in Ids :
    IF Shown(i, limit)
    THEN /\ screen[i].gen = toast[i].gen /\ screen[i].dur = toast[i].dur
         /\ screen[i].clock = "leaving" <=> toast[i].at = "exiting"
         /\ screen[i].clock = "off" => toast[i].dur = Never
         /\ screen[i].clock = "spent" => Kept(i)
    ELSE screen[i] = NoWrapper

\* Every life of a toast ends with one call of its callback, and none is told of
\* an end that does not come: it is told once when it is gone, never while it is
\* open, unless its own callback has kept it, or another one's has aborted a dismissAll.
ToldOnce ==
  \A i \in Ids : toast[i].gen > 0 =>
    /\ toast[i].at # "open" => toast[i].told > 0
    /\ i \notin cheated \cup kept => toast[i].told = IF toast[i].at = "open" THEN 0 ELSE 1

\* A toast is closed by the clock of its own generation and present duration
\* (Toast.md: excess toasts do not expire unseen), unless it has changed since
\* React last rendered.
OwnClock ==
  [][\A i \in Ids : (Expires(i) \/ ResumeDue(i)) /\ toast[i].at = "open" /\ toast'[i] # toast[i] =>
       dirty \/ (screen[i].gen = toast[i].gen /\ screen[i].dur = toast[i].dur)]_vars

\* Who is never going to free his place.
Settled(i) == toast[i].at = "open" /\ (toast[i].dur = Never \/ Kept(i))

\* A toast that has an end or is at its end leaves, if not its callback keeps it,
\* the host goes away, or toasts without end fill the screen before it (FairSpec says
\* why this is not so with the prop expand).
ToastsLeave ==
  \A i \in Ids :
    toast[i].at # "out" /\ ~Settled(i) ~>
      \/ toast[i].at = "out" \/ Settled(i)
      \/ ~host \/ silent
      \/ Cardinality({j \in Ahead(i) : Settled(j)}) >= limit
=============================================================================
