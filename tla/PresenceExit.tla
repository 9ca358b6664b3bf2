----------------------------- MODULE PresenceExit -----------------------------
(***************************************************************************)
(* How elements leave the page (Presence.tsx): a Presence keeps its child  *)
(* in the DOM until the effects of its exit are over, until the Presences  *)
(* nested in it have left, and, inside an Overlay, until the other parts   *)
(* of that Overlay are ready too (usePresenceCoordinator).                 *)
(*                                                                         *)
(* JavaScript runs a turn to its end: the layout effects of a commit, a    *)
(* nested Presence's before those around it, the calls that they make, the *)
(* render of the states that they set, and the microtasks.  A turn is a    *)
(* sequence of steps here, and the page's next move waits until it is      *)
(* Quiet.  What an effect reads meanwhile is the state as last rendered.   *)
(***************************************************************************)
EXTENDS Naturals, FiniteSets

CONSTANTS
  Shapes,   \* pages: for each Presence the flag that is its prop present, the Presences
            \* around it, the Overlay whose coordinator it finds, the exits it may have
  NoOverlay,
  MaxCommits  \* commits and removals in all

Plays == {"instant", "still", "animated"}

ASSUME PresenceAssumption ==
  /\ MaxCommits \in Nat
  /\ \A s \in Shapes : IsFiniteSet(DOMAIN s)
  /\ \A s \in Shapes : \A p \in DOMAIN s :
       /\ s[p].flag # NoOverlay
       /\ s[p].around \subseteq DOMAIN s \ {p}
       /\ \A q \in s[p].around : s[q].around \subseteq s[p].around \ {q}
       /\ s[p].plays \subseteq Plays /\ s[p].plays # {}

VARIABLES
  shape,
  open,      \* the flags; an Overlay has the name of its flag
  hidden,    \* document.visibilityState at the last commit
  removed,   \* Presences whose component the page has taken away
  state,     \* each one's state as last rendered, "absent" when it is not rendered
  want,      \* what setState was last called with
  live,      \* exitIdRef is ahead of firedExitIdRef
  ownDone,   \* isOwnAnimationDoneRef
  effects,   \* of the exit that is played; "over" once the fallback timer has fired too
  pending,   \* pendingDescendantsRef
  finished,  \* finishedParts of each Overlay
  notices,   \* the Overlays whose notifyAllComplete is queued
  todo,      \* layout effects of the present commit that have yet to run
  finishing, \* calls of finishExit under way
  told,      \* those whose onExitComplete was called in this turn
  returned,  \* those that were found present again in this turn
  commits

page == <<shape, hidden, removed, commits>>
vars == <<page, open, state, want, live, ownDone, effects, pending, finished,
          notices, todo, finishing, told, returned>>

Parts == DOMAIN shape
Flags == {shape[p].flag : p \in Parts}
Overlays == {shape[p].overlay : p \in Parts} \ {NoOverlay}
States == {"mounted", "unmountSuspended", "unmounted", "absent"}

Present(p) == open[shape[p].flag]
Exists(p) == state[p] # "absent"
Suspended(p) == state[p] = "unmountSuspended"

\* The next Presence around p, as a set that is empty when there is none.
Parent(p) == {q \in shape[p].around : shape[p].around = shape[q].around \cup {q}}
Nested(p) == {q \in Parts : p \in Parent(q)}

\* registeredParts of an Overlay: the parts, and whatever else finds its coordinator.
RegisteredIn(c, s) == {p \in Parts : shape[p].overlay = c /\ s[p] # "absent"}
Registered(c) == RegisteredIn(c, state)

IsCoordinatorActive(c) == c # NoOverlay /\ ~open[c] /\ Cardinality(Registered(c)) > 1

\* The types; what is not rendered keeps nothing, and nobody waits for what is
\* nested elsewhere.
TypeOK ==
  /\ shape \in Shapes /\ hidden \in BOOLEAN /\ commits \in 0..MaxCommits
  /\ open \in [Flags -> BOOLEAN] /\ removed \subseteq Parts
  /\ state \in [Parts -> States] /\ want \in [Parts -> States]
  /\ live \in [Parts -> BOOLEAN] /\ ownDone \in [Parts -> BOOLEAN]
  /\ effects \in [Parts -> {"none", "running", "ended", "over"}]
  /\ pending \in [Parts -> SUBSET Parts] /\ finished \in [Overlays -> SUBSET Parts]
  /\ notices \subseteq Overlays
  /\ \A p \in Parts : pending[p] \subseteq Nested(p)
  /\ \A c \in Overlays : finished[c] \subseteq Registered(c)
  /\ todo \cup finishing \cup told \cup returned \subseteq Parts
  /\ \A p \in Parts : ~Exists(p) => ~live[p] /\ ~ownDone[p] /\ effects[p] = "none" /\ pending[p] = {}

-----------------------------------------------------------------------------
\* What React renders for p when the states are s and the set gone is taken away:
\* a Presence is there when those around it show their child, and starts as its flag says.
Born(p, s) == IF s[p] # "absent" THEN s[p]
              ELSE IF Present(p) THEN "mounted" ELSE "unmounted"
Rendered(s, gone) ==
  [p \in Parts |-> IF p \in gone \/ \E q \in shape[p].around : q \in gone \/ Born(q, s) = "unmounted"
                   THEN "absent" ELSE Born(p, s)]

Init ==
  /\ shape \in Shapes
  /\ open \in [Flags -> BOOLEAN]
  /\ hidden = FALSE /\ removed = {} /\ commits = 0
  /\ state = Rendered([p \in Parts |-> "absent"], {})
  /\ want = state
  /\ live = [p \in Parts |-> FALSE] /\ ownDone = live
  /\ effects = [p \in Parts |-> "none"]
  /\ pending = [p \in Parts |-> {}]
  /\ finished = [c \in Overlays |-> {}]
  /\ notices = {} /\ todo = {} /\ finishing = {} /\ told = {} /\ returned = {}

\* The Overlay is closed and every one of the parts has reported.  Who reports or
\* unregisters looks at that, and queues the microtask that looks at it again.
AllComplete(c, parts, done) == ~open[c] /\ parts # {} /\ parts \subseteq done

Settled == todo = {} /\ finishing = {} /\ want = state
Quiet == Settled /\ notices = {}

Moves == Quiet /\ commits < MaxCommits /\ commits' = commits + 1 /\ returned' = {}

-----------------------------------------------------------------------------
\* Mutant of Forgets: a new exit finds who was finished in the last one.
ForgetsNobody(opened) == UNCHANGED finished

\* An Overlay that is open forgets who was finished.
Forgets(opened) == finished' = [c \in Overlays |-> IF opened[c] THEN {} ELSE finished[c]]

\* The page changes flags in one commit, all of one state or several at once.
Commit(flags) ==
  /\ Moves
  /\ open' = [f \in Flags |-> IF f \in flags THEN ~open[f] ELSE open[f]]
  /\ hidden' \in BOOLEAN
  /\ todo' = {p \in Parts : Exists(p) /\ shape[p].flag \in flags}
  /\ told' = {}
  /\ Forgets(open')
  /\ UNCHANGED <<shape, removed, state, want, live, ownDone, effects, pending, notices, finishing>>

\* unregisterDescendant and onDescendantExitComplete at the parent of p, when pend is
\* what it will wait for: those that call finishExit because of it.
Released(p, pend) ==
  {q \in Parent(p) : Suspended(q) /\ ownDone[q] /\ pend[q] = {}}

Registering(p) == [q \in Parts |-> IF q \in Parent(p) THEN pending[q] \cup {p} ELSE pending[q]]
Unregistering(p) == [q \in Parts |-> pending[q] \ (IF q \in Parent(p) THEN {p} ELSE {})]

\* The layout effect finds p present again.
Returns(p) ==
  /\ Present(p)
  /\ live' = [live EXCEPT ![p] = FALSE]
  /\ want' = [want EXCEPT ![p] = "mounted"]
  /\ returned' = returned \cup {p}
  /\ pending' = Unregistering(p)
  /\ finishing' = finishing \cup Released(p, pending')
  /\ UNCHANGED <<ownDone, effects, finished, notices>>

\* A document or an element that is not shown: no exit is played.
SkipsExit(p) ==
  /\ hidden \/ "instant" \in shape[p].plays
  /\ finishing' = finishing \cup {p}
  /\ UNCHANGED <<want, ownDone, effects, pending, finished, notices>>

ReportPartFinished(p, c) ==
  /\ finished' = [finished EXCEPT ![c] = @ \cup {p}]
  /\ notices' = IF AllComplete(c, Registered(c), finished[c] \cup {p})
                THEN notices \cup {c} ELSE notices

\* No effect to wait for: at once, unless the coordinator has other parts.
HasNoEffects(p) ==
  LET c == shape[p].overlay IN
  /\ ~hidden /\ "still" \in shape[p].plays
  /\ IF IsCoordinatorActive(c)
     THEN /\ ownDone' = [ownDone EXCEPT ![p] = TRUE]
          /\ ReportPartFinished(p, c)
          /\ pending' = Registering(p)
          /\ want' = [want EXCEPT ![p] = "unmountSuspended"]
          /\ effects' = [effects EXCEPT ![p] = "ended"]
          /\ UNCHANGED finishing
     ELSE /\ finishing' = finishing \cup {p}
          /\ UNCHANGED <<ownDone, finished, notices, pending, want, effects>>

Animates(p) ==
  /\ ~hidden /\ "animated" \in shape[p].plays
  /\ effects' = [effects EXCEPT ![p] = "running"]
  /\ pending' = Registering(p)
  /\ want' = [want EXCEPT ![p] = "unmountSuspended"]
  /\ UNCHANGED <<finishing, ownDone, finished, notices>>

\* The layout effect finds that p has to leave.
BeginsExit(p) ==
  /\ ~Present(p)
  /\ live' = [live EXCEPT ![p] = TRUE]
  /\ SkipsExit(p) \/ HasNoEffects(p) \/ Animates(p)
  /\ UNCHANGED returned

\* Layout effects run from the inside out; a call that one makes runs before the next.
LayoutEffect(p) ==
  /\ finishing = {} /\ p \in todo
  /\ \A q \in todo : p \notin shape[q].around
  /\ todo' = todo \ {p}
  /\ Returns(p) \/ BeginsExit(p)
  /\ UNCHANGED <<page, open, state, told>>

\* Mutant of FinishExit: the parent is not told.
FinishExitAlone(p) ==
  /\ p \in finishing
  /\ finishing' = finishing \ {p}
  /\ live' = [live EXCEPT ![p] = FALSE]
  /\ want' = [want EXCEPT ![p] = IF live[p] THEN "unmounted" ELSE @]
  /\ told' = IF live[p] THEN told \cup {p} ELSE told
  /\ UNCHANGED <<page, open, state, ownDone, effects, pending, finished, notices, todo, returned>>

\* finishExit: once for each exit.
FinishExit(p) ==
  /\ p \in finishing
  /\ IF live[p]
     THEN /\ live' = [live EXCEPT ![p] = FALSE]
          /\ want' = [want EXCEPT ![p] = "unmounted"]
          /\ told' = told \cup {p}
          /\ pending' = Unregistering(p)
          /\ finishing' = (finishing \ {p}) \cup Released(p, pending')
     ELSE finishing' = finishing \ {p} /\ UNCHANGED <<live, want, told, pending>>
  /\ UNCHANGED <<page, open, state, ownDone, effects, finished, notices, todo, returned>>

\* Mutant of Unregisters: a part that unregisters stays among the finished ones.
UnregistersHalf(s) == UNCHANGED <<finished, notices>>

\* What is gone has unregistered.
Unregisters(s) ==
  /\ finished' = [c \in Overlays |-> {p \in finished[c] : s[p] # "absent"}]
  /\ notices' = notices \cup
       {c \in Overlays : /\ \E p \in Registered(c) : s[p] = "absent"
                         /\ AllComplete(c, RegisteredIn(c, s), finished[c])}

\* Who goes with something nested in it, its own effects over: the cleanup of what is
\* nested ends its exit (unregisterDescendant).
EndsWithNested(s) ==
  {p \in Parts : s[p] = "absent" /\ Suspended(p) /\ ownDone[p] /\ live[p]
                 /\ \E q \in Nested(p) : Exists(q)}

\* After(s): the refs once the states s are rendered and their passive effects have run.
\* The state mounted resets isOwnAnimationDoneRef.
After(s) ==
  /\ state' = s /\ want' = s
  /\ live' = [p \in Parts |-> live[p] /\ s[p] # "absent"]
  /\ ownDone' = [p \in Parts |-> ownDone[p] /\ s[p] \notin {"mounted", "absent"}]
  /\ effects' = [p \in Parts |-> IF s[p] = "unmountSuspended" THEN effects[p] ELSE "none"]
  /\ pending' = [p \in Parts |-> {q \in pending[p] : s[q] # "absent"}]
  /\ Unregisters(s)

Render ==
  /\ todo = {} /\ finishing = {} /\ want # state
  /\ LET s == Rendered(want, removed)
     IN  After(s) /\ told' = told \cup EndsWithNested(s)
  /\ UNCHANGED <<page, open, todo, finishing, returned>>

\* The microtask of reportPartFinished and unregisterPart: all parts leave, if they are
\* still complete.
NotifyAllComplete(c) ==
  /\ Settled /\ c \in notices
  /\ notices' = notices \ {c}
  /\ finishing' = {p \in Registered(c) : Suspended(p) /\ AllComplete(c, Registered(c), finished[c])}
  /\ UNCHANGED <<page, open, state, want, live, ownDone, effects, pending, finished, todo, told, returned>>

\* Mutant of HandleExitComplete: it does not wait for what is nested.
HandleExitCompleteHasty(p) ==
  /\ ownDone' = [ownDone EXCEPT ![p] = TRUE]
  /\ IF IsCoordinatorActive(shape[p].overlay)
     THEN ReportPartFinished(p, shape[p].overlay) /\ UNCHANGED finishing
     ELSE finishing' = {p} /\ UNCHANGED <<finished, notices>>

\* Mutant of HandleExitComplete: it does not wait for the other parts of the Overlay.
HandleExitCompleteAlone(p) ==
  /\ ownDone' = [ownDone EXCEPT ![p] = TRUE]
  /\ finishing' = IF pending[p] = {} THEN {p} ELSE {}
  /\ UNCHANGED <<finished, notices>>

HandleExitComplete(p) ==
  /\ ownDone' = [ownDone EXCEPT ![p] = TRUE]
  /\ IF pending[p] # {} THEN UNCHANGED <<finishing, finished, notices>>
     ELSE IF IsCoordinatorActive(shape[p].overlay)
     THEN ReportPartFinished(p, shape[p].overlay) /\ UNCHANGED finishing
     ELSE finishing' = {p} /\ UNCHANGED <<finished, notices>>

Completes(p) ==
  /\ Quiet /\ Suspended(p) /\ ~Present(p)
  /\ HandleExitComplete(p)
  /\ told' = {} /\ returned' = {}
  /\ UNCHANGED <<page, open, state, want, live, pending, todo>>

\* The last effect of p ends or is cancelled; the timer is still to fire, or has fired
\* too early, or is what finds out.
EffectsEnd(p) ==
  /\ effects[p] = "running"
  /\ \E next \in {"ended", "over"} : effects' = [effects EXCEPT ![p] = next]
  /\ Completes(p)

\* The fallback timer of an exit whose effects have ended, and that is held for others.
FallbackTimer(p) ==
  /\ effects[p] = "ended"
  /\ effects' = [effects EXCEPT ![p] = "over"]
  /\ Completes(p)

\* The page takes the component away, in the middle of an exit or not; whoever waited
\* for it is released, the Overlay counts one part less, and what is nested in it goes too.
Remove(p) ==
  /\ Moves /\ Exists(p)
  /\ removed' = removed \cup {p}
  /\ LET s == Rendered(state, removed')
     IN  After(s) /\ told' = EndsWithNested(s)
  /\ finishing' = Released(p, pending')
  /\ UNCHANGED <<shape, open, hidden, todo>>

PageMoves == (\E flags \in SUBSET Flags \ {{}} : Commit(flags)) \/ (\E p \in Parts : Remove(p))

Reacts ==
  \/ \E p \in Parts : LayoutEffect(p) \/ FinishExit(p)
  \/ Render
  \/ \E c \in Overlays : NotifyAllComplete(c)

Next == PageMoves \/ Reacts \/ \E p \in Parts : EffectsEnd(p) \/ FallbackTimer(p)

Spec == Init /\ [][Next]_vars

\* React finishes its turn, and the effects of an exit end: Presence has a timer for
\* those that do not say so.
FairSpec ==
  /\ Spec /\ WF_vars(Reacts)
  /\ \A p \in UNION {DOMAIN s : s \in Shapes} : WF_vars(p \in Parts /\ EffectsEnd(p))
-----------------------------------------------------------------------------
\* Once a turn is over, what is on the page follows the flags: what is mounted is
\* present, what is suspended plays an exit that nobody has ended (usePresence's states
\* under interruptions, stale calls of finishExit and renders of several at once).
FollowsFlag ==
  \A p \in Parts :
    /\ state[p] = "mounted" => Present(p) /\ ~live[p]
    /\ Suspended(p) => ~Present(p) /\ live[p]
    /\ state[p] = "unmounted" => ~Present(p)

\* A Presence waits for exactly those nested in it whose exit is under way: none that was
\* born closed, interrupted or removed strands it (registerDescendant, B-01, PR-NEST-03).
WaitsForWhoExits ==
  \A p \in Parts : Exists(p) => pending[p] = {q \in Nested(p) : Suspended(q)}

\* Who is told of an exit has left.  There is one exception: if something nested in p
\* returns, or leaves at once, in the commit in which p returns, its layout effect
\* releases p, whose own has not yet cancelled its exit (onExitComplete of finishExit).
ToldWhenGone ==
  \A p \in told :
    \/ state[p] \in {"unmounted", "absent"}
    \/ p \in returned /\ Nested(p) \cap (returned \cup told) # {}

\* The page is right when a turn is over, whatever was opened, closed, interrupted and
\* removed before: usePresence as a whole.
QuietPage == Quiet => FollowsFlag /\ WaitsForWhoExits /\ ToldWhenGone

\* An Overlay's part that leaves by the coordinator leaves when no other part of it plays
\* its exit any more, in any exit, the first or a later one (reportPartFinished).  A part
\* with something nested in it may be released by that instead.
SlowerPartHolds ==
  [][\A p \in told' \ told : LET c == shape[p].overlay IN
       shape[p].flag = c /\ ~open[c] /\ Nested(p) = {} /\ effects[p] \in {"ended", "over"}
         => \A q \in Registered(c) : shape[q].flag = c => effects[q] # "running"]_vars

\* Those that share a coordinator with p.
Peers(p) == IF shape[p].overlay = NoOverlay THEN {p}
            ELSE {q \in Parts : shape[q].overlay = shape[p].overlay}

\* A Presence that has played its exit, and shares its coordinator with no other, holds
\* until those nested in it have left, if it is not taken away together with them
\* (handleExitComplete, pendingDescendantsRef).
ParentHolds ==
  [][\A p \in told' \ told :
       effects[p] \in {"ended", "over"} /\ Peers(p) = {p}
         => \A q \in Nested(p) : Suspended(q) /\ Exists(q)' => q \in told' \cup returned']_vars

\* The exits that this code brings to an end: of a Presence whose coordinator has no other
\* parts; or has, and all report.  One does not report that is not driven by the Overlay's
\* own flag (registerPart knows no difference), that leaves at once because of its style, or
\* that is released by what is nested in it (onDescendantExitComplete): the parts that have
\* reported then wait for ever.  Those nested in p must end as well.
EndsAlone(p) ==
  \/ Peers(p) = {p}
  \/ \A q \in Peers(p) : /\ Nested(q) = {} /\ shape[q].flag = shape[p].overlay
                         /\ "instant" \notin shape[q].plays
Sound(p) == \A q \in Parts : q = p \/ p \in shape[q].around => EndsAlone(q)

\* Such an exit ends, by whichever of the ways out of unmountSuspended: it is unmounted, or
\* shown again (an Overlay's isolation and focus are released only then).
ExitsEnd ==
  \A p \in UNION {DOMAIN s : s \in Shapes} :
    (p \in Parts /\ Suspended(p) /\ Sound(p)) ~> ~(p \in Parts /\ Suspended(p))
=============================================================================
