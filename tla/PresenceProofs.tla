---------------------------- MODULE PresenceProofs ----------------------------
(***************************************************************************)
(* Facts about Presences on any page: however many there are, however they *)
(* are nested, whatever Overlays and flags they share.                     *)
(***************************************************************************)
EXTENDS PresenceExit, FiniteSetTheorems, TLAPS

\* What the assumption says of a page, in the terms of the module.
LEMMA PageFacts ==
  ASSUME shape \in Shapes
  PROVE  /\ IsFiniteSet(Parts)
         /\ \A p \in Parts :
              /\ shape[p].around \subseteq Parts \ {p}
              /\ \A q \in shape[p].around : shape[q].around \subseteq shape[p].around
              /\ Parent(p) \subseteq shape[p].around
              /\ \A q \in Parts : q \in Nested(p) <=> p \in Parent(q)
              /\ Nested(p) \subseteq Parts
              /\ shape[p].flag \in Flags /\ shape[p].flag # NoOverlay
              /\ shape[p].overlay \in Overlays \cup {NoOverlay}
  BY PresenceAssumption DEF PresenceAssumption, Parts, Parent, Nested, Flags, Overlays

\* A page keeps its shape.
LEMMA ShapeKept ==
  ASSUME shape' = shape
  PROVE  /\ Parts' = Parts /\ Flags' = Flags /\ Overlays' = Overlays
         /\ \A p \in Parts : /\ Parent(p)' = Parent(p) /\ Nested(p)' = Nested(p)
                             /\ Peers(p)' = Peers(p)
  BY DEF Parts, Flags, Overlays, Parent, Nested, Peers

\* What React renders is in something that it renders.
LEMMA RenderFacts ==
  ASSUME shape \in Shapes, NEW s \in [Parts -> States], NEW gone, NEW p \in Parts
  PROVE  LET r == Rendered(s, gone) IN
         /\ r[p] \in States
         /\ r[p] # "absent" =>
              /\ r[p] = Born(p, s)
              /\ \A q \in shape[p].around : r[q] # "absent" /\ q \in Parts
<1> DEFINE r == Rendered(s, gone)
<1>1. ASSUME NEW q \in Parts PROVE Born(q, s) \in States \ {"absent"}
  BY DEF Born, States
<1>2. ASSUME NEW q \in Parts
      PROVE  r[q] = IF q \in gone \/ \E o \in shape[q].around : o \in gone \/ Born(o, s) = "unmounted"
                      THEN "absent" ELSE Born(q, s)
  BY DEF Rendered
<1>3. r[p] \in States
  BY <1>1, <1>2 DEF States
<1>4. ASSUME r[p] # "absent", NEW q \in shape[p].around PROVE r[q] # "absent" /\ q \in Parts
  <2>1. q \in Parts /\ shape[q].around \subseteq shape[p].around
    BY PageFacts
  <2>2. q \notin gone /\ \A o \in shape[q].around : o \notin gone /\ Born(o, s) # "unmounted"
    BY <1>2, <1>4, <2>1
  <2>q. QED
    BY <1>1, <1>2, <2>1, <2>2
<1>5. r[p] # "absent" => r[p] = Born(p, s)
  BY <1>2
<1>q. QED
  BY <1>3, <1>4, <1>5

LEMMA RenderedType ==
  ASSUME shape \in Shapes, NEW s \in [Parts -> States], NEW gone
  PROVE  Rendered(s, gone) \in [Parts -> States]
<1>1. \A p \in Parts : Rendered(s, gone)[p] \in States
  BY RenderFacts
<1>q. QED
  BY <1>1 DEF Rendered

-----------------------------------------------------------------------------
(***************************************************************************)
(* Types.                                                                  *)
(***************************************************************************)

\* What is rendered is rendered in something; only what is rendered has a layout effect
\* to run, or a state to set.
Rooted ==
  /\ \A p \in Parts : Exists(p) => \A q \in shape[p].around : Exists(q)
  /\ \A p \in todo : Exists(p)
  /\ \A p \in Parts : want[p] = "absent" <=> ~Exists(p)

Whole == TypeOK /\ Rooted

\* The refs after a render: what has left the page, and whatever is nested in it, keeps
\* nothing and is waited for by nobody.
LEMMA AfterWhole ==
  ASSUME Whole, UNCHANGED <<shape, open, hidden>>, commits' \in 0..MaxCommits,
         removed' \subseteq Parts, NEW s \in {state, want}, NEW gone, After(Rendered(s, gone)),
         todo = {}, todo' = {}, finishing' \cup told' \cup returned' \subseteq Parts
  PROVE  Whole'
<1>a. TypeOK /\ Rooted
  BY DEF Whole
<1>b. /\ Parts' = Parts /\ Flags' = Flags /\ Overlays' = Overlays
      /\ \A p \in Parts : Nested(p)' = Nested(p)
  BY ShapeKept
<1>c. state' \in [Parts -> States] /\ want' = state'
  BY <1>a, RenderedType DEF After, TypeOK
<1>d. \A p \in Parts : state'[p] # "absent" => \A q \in shape[p].around : state'[q] # "absent"
  BY <1>a, RenderFacts DEF After, TypeOK
<1>e. \A p \in Parts : \A q \in Nested(p) : q \in Parts /\ p \in shape[q].around
  BY <1>a, PageFacts DEF TypeOK
<1>1. live' \in [Parts -> BOOLEAN] /\ ownDone' \in [Parts -> BOOLEAN]
  BY <1>a DEF After, TypeOK
<1>2. effects' \in [Parts -> {"none", "running", "ended", "over"}]
  BY <1>a DEF After, TypeOK
<1>3. pending' \in [Parts -> SUBSET Parts] /\ \A p \in Parts : pending'[p] \subseteq Nested(p)
  BY <1>a DEF After, TypeOK
<1>4. /\ finished' \in [Overlays -> SUBSET Parts]
      /\ \A c \in Overlays : \A p \in finished'[c] : shape[p].overlay = c /\ state'[p] # "absent"
      /\ notices' \subseteq Overlays
  BY <1>a DEF After, Unregisters, TypeOK, Registered, RegisteredIn
<1>5. \A p \in Parts : state'[p] = "absent" =>
        ~live'[p] /\ ~ownDone'[p] /\ effects'[p] = "none" /\ pending'[p] = {}
  <2> SUFFICES ASSUME NEW p \in Parts, state'[p] = "absent"
               PROVE  ~live'[p] /\ ~ownDone'[p] /\ effects'[p] = "none" /\ pending'[p] = {}
    OBVIOUS
  <2>1. ~live'[p] /\ ~ownDone'[p] /\ effects'[p] = "none"
    BY DEF After
  <2>2. \A q \in pending'[p] : q \in Nested(p) /\ state'[q] # "absent"
    BY <1>a DEF After, TypeOK
  <2>3. \A q \in Nested(p) : state'[q] = "absent"
    BY <1>d, <1>e
  <2>q. QED
    BY <2>1, <2>2, <2>3
<1>6. TypeOK'
  <2>1. \A c \in Overlays : finished'[c] \subseteq Registered(c)'
    BY <1>a, <1>b, <1>4 DEF TypeOK, Registered, RegisteredIn
  <2>q. QED
    BY <1>a, <1>b, <1>c, <1>1, <1>2, <1>3, <1>4, <1>5, <2>1 DEF TypeOK, Exists
<1>7. Rooted'
  BY <1>b, <1>c, <1>d DEF Rooted, Exists
<1>q. QED
  BY <1>6, <1>7 DEF Whole

\* Who waits for p, or is released by it, is around it.
LEMMA Releases ==
  ASSUME Whole, NEW p \in Parts, NEW pend
  PROVE  /\ Released(p, pend) \subseteq Parts
         /\ \A q \in Released(p, pend) : p \in Nested(q) /\ Suspended(q) /\ pend[q] = {}
  BY PageFacts DEF Whole, TypeOK, Released, Nested, Parts

LEMMA PendingKept ==
  ASSUME Whole, NEW p \in Parts
  PROVE  /\ Unregistering(p) \in [Parts -> SUBSET Parts]
         /\ \A q \in Parts : Unregistering(p)[q] = pending[q] \ {p}
         /\ Registering(p) \in [Parts -> SUBSET Parts]
         /\ \A q \in Parts : Registering(p)[q] = IF q \in Parent(p) THEN pending[q] \cup {p} ELSE pending[q]
  BY PageFacts DEF Whole, TypeOK, Unregistering, Registering

\* A layout effect of a Presence keeps the types, whichever way it goes.
LEMMA EffectWhole == ASSUME Whole, NEW p \in Parts, LayoutEffect(p) PROVE Whole'
<1>a. TypeOK /\ Rooted /\ p \in Parts
  BY DEF Whole
<1>b. /\ Parts' = Parts /\ Flags' = Flags /\ Overlays' = Overlays
      /\ \A q \in Parts : Nested(q)' = Nested(q)
      /\ UNCHANGED <<shape, hidden, removed, commits, open, state, told>>
  BY ShapeKept DEF LayoutEffect, page
<1>c. /\ p \in todo /\ Exists(p) /\ want[p] # "absent" /\ todo' = todo \ {p}
      /\ \A q \in Parent(p) : q \in Parts /\ p \in Nested(q) /\ Exists(q)
  BY <1>a, PageFacts DEF LayoutEffect, Rooted, TypeOK
<1>d. /\ live' \in [Parts -> BOOLEAN] /\ want' \in [Parts -> States]
      /\ ownDone' \in [Parts -> BOOLEAN]
      /\ effects' \in [Parts -> {"none", "running", "ended", "over"}]
      /\ \A q \in Parts \ {p} : /\ live'[q] = live[q] /\ want'[q] = want[q]
                                /\ ownDone'[q] = ownDone[q] /\ effects'[q] = effects[q]
      /\ want'[p] # "absent"
  <2>1. CASE Returns(p)
    BY <1>a, <1>c, <2>1 DEF Returns, TypeOK, States
  <2>2. CASE BeginsExit(p) /\ SkipsExit(p)
    BY <1>a, <1>c, <2>2 DEF BeginsExit, SkipsExit, TypeOK
  <2>3. CASE BeginsExit(p) /\ HasNoEffects(p)
    <3>1. live' = [live EXCEPT ![p] = TRUE]
      BY <2>3 DEF BeginsExit
    <3>2. \/ UNCHANGED <<ownDone, want, effects>>
          \/ /\ ownDone' = [ownDone EXCEPT ![p] = TRUE]
             /\ want' = [want EXCEPT ![p] = "unmountSuspended"]
             /\ effects' = [effects EXCEPT ![p] = "ended"]
      BY <2>3 DEF HasNoEffects
    <3>3. CASE UNCHANGED <<ownDone, want, effects>>
      BY <1>a, <1>c, <3>1, <3>3 DEF TypeOK
    <3>4. CASE /\ ownDone' = [ownDone EXCEPT ![p] = TRUE]
               /\ want' = [want EXCEPT ![p] = "unmountSuspended"]
               /\ effects' = [effects EXCEPT ![p] = "ended"]
      BY <1>a, <1>c, <3>1, <3>4 DEF TypeOK, States
    <3>q. QED
      BY <3>2, <3>3, <3>4
  <2>4. CASE BeginsExit(p) /\ Animates(p)
    BY <1>a, <1>c, <2>4 DEF BeginsExit, Animates, TypeOK, States
  <2>q. QED
    BY <2>1, <2>2, <2>3, <2>4 DEF LayoutEffect, BeginsExit
<1>e. finishing' \cup returned' \cup todo' \subseteq Parts
  BY <1>a, Releases DEF LayoutEffect, Returns, BeginsExit, SkipsExit, HasNoEffects, Animates, TypeOK
<1>f. /\ pending' \in [Parts -> SUBSET Parts]
      /\ \A q \in Parts : /\ pending'[q] \subseteq pending[q] \cup (IF q \in Parent(p) THEN {p} ELSE {})
  <2>1. pending' = pending \/ pending' = Registering(p) \/ pending' = Unregistering(p)
    BY DEF LayoutEffect, Returns, BeginsExit, SkipsExit, HasNoEffects, Animates
  <2>2. CASE pending' = pending
    BY <1>a, <2>2 DEF TypeOK
  <2>3. CASE pending' = Registering(p)
    BY <2>3, PendingKept
  <2>4. CASE pending' = Unregistering(p)
    BY <2>4, PendingKept
  <2>q. QED
    BY <2>1, <2>2, <2>3, <2>4
<1>g. /\ finished' \in [Overlays -> SUBSET Parts]
      /\ \A c \in Overlays : finished'[c] \subseteq finished[c] \cup (IF c = shape[p].overlay THEN {p} ELSE {})
      /\ notices' \subseteq Overlays
  <2>1. \/ UNCHANGED <<finished, notices>>
        \/ IsCoordinatorActive(shape[p].overlay) /\ ReportPartFinished(p, shape[p].overlay)
    BY DEF LayoutEffect, Returns, BeginsExit, SkipsExit, HasNoEffects, Animates
  <2>q. QED
    BY <1>a, <2>1, PageFacts DEF TypeOK, IsCoordinatorActive, ReportPartFinished
<1>1. \A q \in Parts : pending'[q] \subseteq Nested(q)
  BY <1>a, <1>c, <1>f DEF TypeOK
<1>2. \A c \in Overlays : finished'[c] \subseteq Registered(c)'
  BY <1>a, <1>b, <1>c, <1>g DEF TypeOK, Registered, RegisteredIn, Exists
<1>3. \A q \in Parts : state[q] = "absent" =>
        ~live'[q] /\ ~ownDone'[q] /\ effects'[q] = "none" /\ pending'[q] = {}
  BY <1>a, <1>c, <1>d, <1>f DEF TypeOK, Exists
<1>4. TypeOK'
  BY <1>a, <1>b, <1>d, <1>e, <1>f, <1>g, <1>1, <1>2, <1>3 DEF TypeOK, Exists
<1>5. Rooted'
  BY <1>a, <1>b, <1>c, <1>d DEF Rooted, Exists
<1>q. QED
  BY <1>4, <1>5 DEF Whole

LEMMA WholeInit == Init => Whole
<1> SUFFICES ASSUME Init PROVE Whole
  OBVIOUS
<1>1. [p \in Parts |-> "absent"] \in [Parts -> States] /\ shape \in Shapes
  BY DEF Init, States
<1>2. state \in [Parts -> States] /\ want = state
  BY <1>1, RenderedType DEF Init
<1>3. \A p \in Parts : Exists(p) => \A q \in shape[p].around : Exists(q)
  BY <1>1, RenderFacts DEF Init, Exists
<1>4. TypeOK
  <2>1. commits \in 0..MaxCommits
    BY PresenceAssumption DEF Init, PresenceAssumption
  <2>2. /\ live \in [Parts -> BOOLEAN] /\ ownDone \in [Parts -> BOOLEAN]
        /\ effects \in [Parts -> {"none", "running", "ended", "over"}]
        /\ pending \in [Parts -> SUBSET Parts] /\ finished \in [Overlays -> SUBSET Parts]
    BY DEF Init
  <2>3. \A p \in Parts : ~live[p] /\ ~ownDone[p] /\ effects[p] = "none" /\ pending[p] = {}
    BY DEF Init
  <2>4. \A c \in Overlays : finished[c] = {}
    BY DEF Init
  <2>5. /\ open \in [Flags -> BOOLEAN] /\ hidden \in BOOLEAN
        /\ removed \cup todo \cup finishing \cup told \cup returned \subseteq Parts
    BY DEF Init
  <2>6. notices \subseteq Overlays
    BY DEF Init
  <2>q. QED
    BY <1>1, <1>2, <2>1, <2>2, <2>3, <2>4, <2>5, <2>6 DEF TypeOK
<1>5. Rooted
  BY <1>2, <1>3 DEF Init, Rooted, Exists
<1>q. QED
  BY <1>4, <1>5 DEF Whole

LEMMA WholeStep == Whole /\ [Next]_vars => Whole'
<1> SUFFICES ASSUME Whole, [Next]_vars PROVE Whole'
  OBVIOUS
<1>a. TypeOK /\ Rooted
  BY DEF Whole
<1>k. ASSUME shape' = shape
      PROVE  /\ Parts' = Parts /\ Flags' = Flags /\ Overlays' = Overlays
             /\ \A p \in Parts : Nested(p)' = Nested(p)
  BY <1>k, ShapeKept
<1>1. ASSUME NEW flags \in SUBSET Flags, Commit(flags) PROVE Whole'
  <2>1. shape' = shape
    BY <1>1 DEF Commit
  <2>2. commits' \in 0..MaxCommits
    BY <1>1, <1>a, PresenceAssumption DEF Commit, Moves, TypeOK, PresenceAssumption
  <2>3. open' \in [Flags -> BOOLEAN] /\ todo' \subseteq Parts /\ \A p \in todo' : Exists(p)
    BY <1>1, <1>a DEF Commit, TypeOK
  <2>4. /\ finished' \in [Overlays -> SUBSET Parts]
        /\ \A c \in Overlays : finished'[c] \subseteq finished[c]
    BY <1>1, <1>a DEF Commit, Forgets, TypeOK
  <2>q. QED
    BY <1>1, <1>a, <1>k, <2>1, <2>2, <2>3, <2>4
    DEF Commit, Moves, Whole, TypeOK, Rooted, Exists, Registered, RegisteredIn
<1>2. ASSUME NEW p \in Parts, Remove(p) PROVE Whole'
  <2>1. commits' \in 0..MaxCommits /\ todo = {} /\ state \in {state, want}
    BY <1>2, <1>a, PresenceAssumption DEF Remove, Moves, Quiet, Settled, TypeOK, PresenceAssumption
  <2>2. finishing' \cup told' \cup returned' \subseteq Parts
    BY <1>2, Releases DEF Remove, Moves, EndsWithNested
  <2>3. UNCHANGED <<shape, open, hidden>> /\ todo' = {} /\ removed' \subseteq Parts
        /\ After(Rendered(state, removed'))
    BY <1>2, <1>a, <2>1 DEF Remove, TypeOK
  <2>4. PICK gone : gone = removed'
    OBVIOUS
  <2>q. QED
    BY <2>1, <2>2, <2>3, <2>4, AfterWhole
<1>3. ASSUME NEW p \in Parts, LayoutEffect(p) PROVE Whole'
  BY <1>3, EffectWhole
<1>4. ASSUME NEW p \in Parts, FinishExit(p) PROVE Whole'
  <2>1. UNCHANGED <<page, open, state, ownDone, effects, finished, notices, todo, returned>>
    BY <1>4 DEF FinishExit
  <2>2. /\ live' \in [Parts -> BOOLEAN] /\ want' \in [Parts -> States]
        /\ finishing' \cup told' \subseteq Parts /\ pending' \in [Parts -> SUBSET Parts]
        /\ \A q \in Parts : pending'[q] \subseteq pending[q] /\ (~live[q] => ~live'[q])
        /\ \A q \in Parts : want'[q] = "absent" <=> want[q] = "absent"
    <3>1. CASE live[p]
      <4>1. want[p] # "absent" /\ finishing' \subseteq Parts /\ told' \subseteq Parts
        BY <1>4, <1>a, <3>1, Releases DEF FinishExit, TypeOK, Rooted
      <4>2. pending' \in [Parts -> SUBSET Parts] /\ \A q \in Parts : pending'[q] \subseteq pending[q]
        BY <1>4, <3>1, PendingKept DEF FinishExit
      <4>3. live' = [live EXCEPT ![p] = FALSE] /\ want' = [want EXCEPT ![p] = "unmounted"]
        BY <1>4, <3>1 DEF FinishExit
      <4>4. live' \in [Parts -> BOOLEAN] /\ \A q \in Parts : ~live[q] => ~live'[q]
        BY <1>a, <4>3 DEF TypeOK
      <4>5. /\ want' \in [Parts -> States]
            /\ \A q \in Parts : want'[q] = "absent" <=> want[q] = "absent"
        BY <1>a, <4>1, <4>3 DEF TypeOK, States
      <4>q. QED
        BY <4>1, <4>2, <4>4, <4>5
    <3>2. CASE ~live[p]
      BY <1>4, <1>a, <3>2 DEF FinishExit, TypeOK
    <3>q. QED
      BY <3>1, <3>2
  <2>q. QED
    BY <1>a, <1>k, <2>1, <2>2 DEF page, Whole, TypeOK, Rooted, Exists, Registered, RegisteredIn
<1>5. CASE Render
  <2>1. UNCHANGED <<shape, open, hidden, commits, removed>> /\ todo = {} /\ todo' = {}
        /\ finishing' \cup told' \cup returned' \subseteq Parts /\ After(Rendered(want, removed))
    BY <1>5, <1>a DEF Render, page, TypeOK, EndsWithNested
  <2>q. QED
    BY <1>a, <2>1, AfterWhole DEF TypeOK
<1>6. ASSUME NEW c \in Overlays, NotifyAllComplete(c) PROVE Whole'
  BY <1>6, <1>a, <1>k DEF NotifyAllComplete, page, Whole, TypeOK, Rooted, Exists, Registered, RegisteredIn
<1>7. ASSUME NEW p \in Parts, EffectsEnd(p) \/ FallbackTimer(p) PROVE Whole'
  <2>1. /\ effects' \in [Parts -> {"none", "running", "ended", "over"}]
        /\ \A q \in Parts \ {p} : effects'[q] = effects[q]
    BY <1>7, <1>a DEF EffectsEnd, FallbackTimer, TypeOK
  <2>2. Completes(p)
    BY <1>7 DEF EffectsEnd, FallbackTimer
  <2>3. /\ ownDone' \in [Parts -> BOOLEAN] /\ \A q \in Parts \ {p} : ownDone'[q] = ownDone[q]
        /\ finishing' \subseteq Parts /\ told' = {} /\ returned' = {}
        /\ finished' \in [Overlays -> SUBSET Parts]
        /\ \A c \in Overlays : finished'[c] \subseteq finished[c] \cup (IF c = shape[p].overlay THEN {p} ELSE {})
        /\ notices' \subseteq Overlays
    BY <2>2, <1>a, PageFacts DEF Completes, HandleExitComplete, ReportPartFinished, TypeOK, IsCoordinatorActive
  <2>4. Exists(p) /\ UNCHANGED <<page, open, state, want, live, pending, todo>>
    BY <2>2 DEF Completes, Suspended, Exists
  <2>5. \A c \in Overlays : finished'[c] \subseteq Registered(c)'
    BY <1>a, <2>3, <2>4 DEF page, TypeOK, Registered, RegisteredIn, Exists, Parts
  <2>q. QED
    BY <1>a, <1>k, <2>1, <2>3, <2>4, <2>5 DEF page, Whole, TypeOK, Rooted, Exists
<1>8. CASE UNCHANGED vars
  BY <1>8, <1>a, <1>k DEF vars, page, Whole, TypeOK, Rooted, Exists, Registered, RegisteredIn
<1>q. QED
  BY <1>1, <1>2, <1>3, <1>4, <1>5, <1>6, <1>7, <1>8 DEF Next, PageMoves, Reacts

\* The types hold, on any page.
THEOREM Typed == Spec => []TypeOK
  BY WholeInit, WholeStep, PTL DEF Spec, Whole

-----------------------------------------------------------------------------
(***************************************************************************)
(* A page whose turn is over.                                              *)
(***************************************************************************)

\* The layout effect of p is to run: its flag has just changed, and nothing of p knows
\* yet, though an exit that it is about to cancel may meanwhile be over.
Awake(p) ==
  \/ /\ Present(p) /\ state[p] \in {"unmountSuspended", "unmounted"}
     /\ want[p] = (IF live[p] THEN "unmountSuspended" ELSE "unmounted")
  \/ ~Present(p) /\ state[p] = "mounted" /\ want[p] = "mounted" /\ ~live[p]

\* p follows its flag, or is about to call finishExit for an exit that it skips.
Asleep(p) ==
  IF Present(p) THEN want[p] = "mounted" /\ ~live[p]
  ELSE \/ live[p] /\ want[p] = "unmountSuspended"
       \/ live[p] /\ want[p] = "mounted" /\ p \in finishing
       \/ ~live[p] /\ want[p] = "unmounted"

Stages == \A p \in Parts : Exists(p) => IF p \in todo THEN Awake(p) ELSE Asleep(p)

\* A parent waits for those that have asked to be suspended.
Awaits == \A p \in Parts : pending[p] = {q \in Nested(p) : want[q] = "unmountSuspended"}

\* Something nested in p has returned, or was told, in this turn.
Freed(p) == \E q \in Nested(p) : q \in returned \cup told

\* Whoever was told is on its way out, or returns after all, as ToldWhenGone has it: only
\* what is nested in p can end the exit of p before the layout effect of p runs.
Goodbyes ==
  /\ \A p \in told : \/ p \notin todo /\ ~Present(p) /\ want[p] \in {"unmounted", "absent"}
                     \/ (p \in todo /\ Present(p)) \/ p \in returned
  /\ \A p \in told : p \in todo \cup returned => Freed(p)
  /\ \A p \in finishing \cap todo : Freed(p)
  /\ \A p \in returned : Present(p) /\ p \notin todo

PageInv == Whole /\ Stages /\ Awaits /\ Goodbyes

\* A render leaves every Presence in the stage that it asked for, or puts it on the page in
\* the stage that its flag says; who has left is waited for by nobody.
LEMMA AfterPage ==
  ASSUME Whole, Stages, Awaits, UNCHANGED <<shape, open>>, todo = {}, todo' = {}, finishing = {},
         NEW gone, After(Rendered(want, gone))
  PROVE  /\ Stages' /\ Awaits'
         /\ \A p \in EndsWithNested(Rendered(want, gone)) :
              p \in Parts /\ ~Present(p)' /\ want'[p] = "absent"
<1>a. TypeOK /\ Rooted
  BY DEF Whole
<1>b. Parts' = Parts /\ \A p \in Parts : Nested(p)' = Nested(p) /\ Nested(p) \subseteq Parts
  BY <1>a, ShapeKept, PageFacts DEF TypeOK
<1>c. /\ state' = Rendered(want, gone) /\ want' = state'
      /\ \A p \in Parts : live'[p] = (live[p] /\ state'[p] # "absent")
      /\ \A p \in Parts : pending'[p] = {q \in pending[p] : state'[q] # "absent"}
  BY DEF After
<1>d. \A p \in Parts : state'[p] # "absent" => state'[p] = Born(p, want)
  BY <1>a, <1>c, RenderFacts DEF TypeOK
<1>1. ASSUME NEW p \in Parts, state'[p] # "absent" PROVE Asleep(p)'
  <2>1. CASE want[p] = "absent"
    <3>1. ~live[p] /\ ~live'[p]
      BY <1>a, <1>c, <2>1 DEF TypeOK, Rooted
    <3>2. want'[p] = IF Present(p) THEN "mounted" ELSE "unmounted"
      BY <1>1, <1>c, <1>d, <2>1 DEF Born
    <3>q. QED
      BY <3>1, <3>2 DEF Asleep, Present
  <2>2. CASE want[p] # "absent"
    <3>1. Asleep(p)
      BY <1>a, <2>2 DEF Rooted, Stages
    <3>2. want'[p] = want[p] /\ live'[p] = live[p]
      BY <1>1, <1>a, <1>c, <1>d, <2>2 DEF Born, TypeOK
    <3>q. QED
      BY <3>1, <3>2 DEF Asleep, Present
  <2>q. QED
    BY <2>1, <2>2
<1>2. ASSUME NEW q \in Parts
      PROVE  want'[q] = "unmountSuspended" <=> want[q] = "unmountSuspended" /\ state'[q] # "absent"
  BY <1>c, <1>d DEF Born
<1>3. Awaits'
  BY <1>b, <1>c, <1>2 DEF Awaits
<1>4. ASSUME NEW p \in EndsWithNested(Rendered(want, gone))
      PROVE  p \in Parts /\ ~Present(p)' /\ want'[p] = "absent"
  <2>1. p \in Parts /\ Exists(p) /\ live[p] /\ want'[p] = "absent"
    BY <1>c, <1>4 DEF EndsWithNested, Suspended, Exists
  <2>2. ~Present(p)
    BY <2>1 DEF Stages, Asleep
  <2>q. QED
    BY <2>1, <2>2 DEF Present
<1>q. QED
  BY <1>b, <1>1, <1>3, <1>4 DEF Stages, Exists

\* A layout effect brings its Presence in line with its flag.
LEMMA EffectPage ==
  ASSUME PageInv, NEW p \in Parts, LayoutEffect(p)
  PROVE  Stages' /\ Awaits' /\ Goodbyes'
<1>a. TypeOK /\ Rooted /\ Stages /\ Awaits /\ Goodbyes
  BY DEF PageInv, Whole
<1>b. /\ Parts' = Parts /\ \A q \in Parts : Nested(q)' = Nested(q) /\ Nested(q) \subseteq Parts
      /\ \A q \in Parts : q \in Parent(p) <=> p \in Nested(q)
  BY <1>a, ShapeKept, PageFacts DEF LayoutEffect, page, TypeOK
<1>c. /\ UNCHANGED <<shape, open, state, told>> /\ p \in todo /\ todo' = todo \ {p}
      /\ finishing = {} /\ Exists(p) /\ Awake(p)
  BY <1>a DEF LayoutEffect, page, Rooted, Stages
<1>1. CASE Returns(p)
  <2>1. /\ Present(p) /\ returned' = returned \cup {p} /\ pending' = Unregistering(p)
        /\ live' = [live EXCEPT ![p] = FALSE] /\ want' = [want EXCEPT ![p] = "mounted"]
        /\ finishing' = finishing \cup Released(p, pending')
    BY <1>1 DEF Returns
  <2>2. Stages'
    BY <1>a, <1>b, <1>c, <2>1 DEF Stages, Awake, Asleep, Present, Exists, TypeOK
  <2>3. Awaits'
    BY <1>a, <1>b, <2>1, PendingKept DEF Awaits, PageInv, TypeOK
  <2>4. \A q \in finishing' : q \in Parts /\ p \in Nested(q)
    BY <1>a, <1>c, <2>1, Releases DEF PageInv
  <2>5. \A q \in Parts : (Freed(q) => Freed(q)') /\ (p \in Nested(q) => Freed(q)')
    BY <1>b, <1>c, <2>1 DEF Freed
  <2>6. told \cup todo \subseteq Parts
    BY <1>a DEF TypeOK
  <2>7. \A q \in told : q # p => want'[q] = want[q]
    BY <1>a, <2>1 DEF TypeOK
  <2>q. QED
    BY <1>a, <1>c, <2>1, <2>2, <2>3, <2>4, <2>5, <2>6, <2>7 DEF Goodbyes, Present
<1>2. CASE BeginsExit(p)
  <2>1. ~Present(p) /\ live' = [live EXCEPT ![p] = TRUE] /\ returned' = returned
    BY <1>2 DEF BeginsExit
  <2>2. want[p] = "mounted" /\ ~live[p]
    BY <1>c, <2>1 DEF Awake
  <2>3. \/ want' = want /\ pending' = pending /\ finishing' = {p}
        \/ /\ want' = [want EXCEPT ![p] = "unmountSuspended"]
           /\ pending' = Registering(p) /\ finishing' = {}
    BY <1>2, <1>c DEF BeginsExit, SkipsExit, HasNoEffects, Animates
  <2>4. Stages'
    BY <1>a, <1>b, <1>c, <2>1, <2>2, <2>3 DEF Stages, Awake, Asleep, Present, Exists, TypeOK
  <2>5. Awaits'
    <3>1. CASE want' = want /\ pending' = pending
      BY <1>a, <1>b, <3>1 DEF Awaits
    <3>2. CASE want' = [want EXCEPT ![p] = "unmountSuspended"] /\ pending' = Registering(p)
      <4>1. \A q \in Parts : pending'[q] = IF p \in Nested(q) THEN pending[q] \cup {p} ELSE pending[q]
        BY <1>b, <3>2, PendingKept DEF PageInv
      <4>2. want'[p] = "unmountSuspended" /\ \A q \in Parts \ {p} : want'[q] = want[q]
        BY <1>a, <3>2 DEF TypeOK
      <4>3. ASSUME NEW q \in Parts PROVE pending'[q] = {r \in Nested(q) : want'[r] = "unmountSuspended"}
        <5>1. pending[q] = {r \in Nested(q) : want[r] = "unmountSuspended"} /\ Nested(q) \subseteq Parts
          BY <1>a, <1>b DEF Awaits
        <5>q. QED
          BY <4>1, <4>2, <5>1
      <4>q. QED
        BY <1>b, <4>3 DEF Awaits
    <3>q. QED
      BY <2>3, <3>1, <3>2
  <2>6. \A q \in Parts : Freed(q) => Freed(q)'
    BY <1>b, <1>c, <2>1 DEF Freed
  <2>7. \A q \in told : q \in Parts /\ (q # p => want'[q] = want[q])
    BY <1>a, <2>3 DEF TypeOK
  <2>8. p \notin told \/ p \in returned
    BY <1>a, <1>c, <2>1 DEF Goodbyes
  <2>q. QED
    BY <1>a, <1>c, <2>1, <2>3, <2>4, <2>5, <2>6, <2>7, <2>8 DEF Goodbyes, Present, TypeOK
<1>q. QED
  BY <1>1, <1>2 DEF LayoutEffect

\* finishExit ends an exit for the Presence and for the one around it.
LEMMA FinishPage ==
  ASSUME PageInv, NEW p \in Parts, FinishExit(p)
  PROVE  Stages' /\ Awaits' /\ Goodbyes'
<1>a. TypeOK /\ Rooted /\ Stages /\ Awaits /\ Goodbyes
  BY DEF PageInv, Whole
<1>b. /\ Parts' = Parts /\ \A q \in Parts : Nested(q)' = Nested(q) /\ Nested(q) \subseteq Parts
      /\ \A q \in Parts : q \in Parent(p) <=> p \in Nested(q)
  BY <1>a, ShapeKept, PageFacts DEF FinishExit, page, TypeOK
<1>c. UNCHANGED <<shape, open, state, todo, returned>> /\ p \in finishing
  BY DEF FinishExit, page
<1>1. CASE ~live[p]
  <2>1. UNCHANGED <<live, want, told, pending>> /\ finishing' = finishing \ {p}
    BY <1>1 DEF FinishExit
  <2>q. QED
    BY <1>a, <1>b, <1>c, <1>1, <2>1 DEF Stages, Awake, Asleep, Present, Exists, Awaits, Goodbyes, Freed, TypeOK
<1>2. CASE live[p]
  <2>1. /\ live' = [live EXCEPT ![p] = FALSE] /\ want' = [want EXCEPT ![p] = "unmounted"]
        /\ told' = told \cup {p} /\ pending' = Unregistering(p)
        /\ finishing' = (finishing \ {p}) \cup Released(p, pending')
    BY <1>2 DEF FinishExit
  <2>2. Exists(p) /\ IF p \in todo THEN Awake(p) ELSE Asleep(p)
    BY <1>a, <1>2 DEF TypeOK, Stages
  <2>3. p \in todo <=> Present(p)
    BY <1>2, <2>2 DEF Awake, Asleep
  <2>4. Stages'
    <3>1. IF p \in todo' THEN Awake(p)' ELSE Asleep(p)'
      BY <1>a, <1>2, <1>c, <2>1, <2>2, <2>3 DEF Awake, Asleep, Present, TypeOK
    <3>2. ASSUME NEW q \in Parts \ {p}, Exists(q) PROVE IF q \in todo' THEN Awake(q)' ELSE Asleep(q)'
      <4>1. want'[q] = want[q] /\ live'[q] = live[q] /\ (q \in finishing => q \in finishing')
        BY <1>a, <2>1 DEF TypeOK
      <4>2. IF q \in todo THEN Awake(q) ELSE Asleep(q)
        BY <1>a, <3>2 DEF Stages
      <4>q. QED
        BY <1>c, <4>1, <4>2 DEF Awake, Asleep, Present
    <3>q. QED
      BY <1>b, <1>c, <3>1, <3>2 DEF Stages, Exists
  <2>5. Awaits'
    BY <1>a, <1>b, <2>1, PendingKept DEF Awaits, PageInv, TypeOK
  <2>6. \A q \in Parts : (Freed(q) => Freed(q)') /\ (p \in Nested(q) => Freed(q)')
    BY <1>b, <1>c, <2>1 DEF Freed
  <2>7. \A q \in finishing' : q \in finishing \/ (q \in Parts /\ p \in Nested(q))
    BY <1>a, <2>1, Releases DEF PageInv
  <2>8. \A q \in told : q \in Parts /\ (q # p => want'[q] = want[q])
    BY <1>a, <2>1 DEF TypeOK
  <2>9. want'[p] = "unmounted"
    BY <1>a, <2>1 DEF TypeOK
  <2>10. p \in todo => Freed(p)
    BY <1>a, <1>c DEF Goodbyes
  <2>11. /\ \A q \in told' : \/ q \notin todo' /\ ~Present(q)' /\ want'[q] \in {"unmounted", "absent"}
                             \/ (q \in todo' /\ Present(q)') \/ q \in returned'
    BY <1>a, <1>c, <2>1, <2>3, <2>8, <2>9 DEF Goodbyes, Present
  <2>12. \A q \in told' : q \in todo' \cup returned' => Freed(q)'
    <3>1. p \notin returned
      BY <1>a, <2>3 DEF Goodbyes
    <3>q. QED
      BY <1>a, <1>c, <2>1, <2>6, <2>8, <2>10, <3>1 DEF Goodbyes
  <2>13. \A q \in finishing' \cap todo' : Freed(q)'
    BY <1>a, <1>c, <2>6, <2>7 DEF Goodbyes, TypeOK
  <2>q. QED
    BY <1>a, <1>c, <2>4, <2>5, <2>11, <2>12, <2>13 DEF Goodbyes, Present
<1>q. QED
  BY <1>1, <1>2

LEMMA PageInit == Init => PageInv
<1> SUFFICES ASSUME Init PROVE PageInv
  OBVIOUS
<1>a. Whole
  BY WholeInit
<1>b. \A p \in Parts : Exists(p) => state[p] = IF Present(p) THEN "mounted" ELSE "unmounted"
  <2> SUFFICES ASSUME NEW p \in Parts, Exists(p)
               PROVE  state[p] = IF Present(p) THEN "mounted" ELSE "unmounted"
    OBVIOUS
  <2>1. shape \in Shapes /\ [q \in Parts |-> "absent"] \in [Parts -> States]
    BY DEF Init, States
  <2>2. state[p] = Born(p, [q \in Parts |-> "absent"])
    BY <2>1, RenderFacts DEF Init, Exists
  <2>q. QED
    BY <2>2 DEF Born
<1>c. /\ want = state /\ todo = {} /\ finishing = {} /\ told = {} /\ returned = {}
      /\ \A p \in Parts : ~live[p] /\ pending[p] = {}
  BY DEF Init
<1>1. Stages
  BY <1>b, <1>c DEF Stages, Asleep
<1>2. \A p \in Parts : state[p] # "unmountSuspended"
  BY <1>b DEF Exists
<1>3. Awaits
  BY <1>a, <1>c, <1>2, PageFacts DEF Awaits, Whole, TypeOK
<1>q. QED
  BY <1>a, <1>c, <1>1, <1>3 DEF PageInv, Goodbyes

LEMMA PageStep == PageInv /\ [Next]_vars => PageInv'
<1> SUFFICES ASSUME PageInv, [Next]_vars PROVE Stages' /\ Awaits' /\ Goodbyes'
  BY WholeStep DEF PageInv
<1>a. TypeOK /\ Rooted /\ Stages /\ Awaits /\ Goodbyes /\ Whole
  BY DEF PageInv, Whole
<1>k. ASSUME shape' = shape PROVE Parts' = Parts /\ \A p \in Parts : Nested(p)' = Nested(p)
  BY <1>k, ShapeKept
<1>1. ASSUME NEW flags \in SUBSET Flags, Commit(flags) PROVE Stages' /\ Awaits' /\ Goodbyes'
  <2>1. /\ UNCHANGED <<shape, state, want, live, pending, finishing>> /\ told' = {} /\ returned' = {}
        /\ todo = {} /\ finishing = {} /\ want = state
    BY <1>1 DEF Commit, Moves, Quiet, Settled
  <2>2. \A p \in Parts : p \in todo' <=> Exists(p) /\ shape[p].flag \in flags
    BY <1>1 DEF Commit
  <2>3. \A p \in Parts : Present(p)' = IF shape[p].flag \in flags THEN ~Present(p) ELSE Present(p)
    BY <1>1, <1>a, <2>1, PageFacts DEF Commit, Present, TypeOK
  <2>4. Stages'
    BY <1>a, <1>k, <2>1, <2>2, <2>3 DEF Stages, Awake, Asleep, Exists
  <2>q. QED
    BY <1>a, <1>k, <2>1, <2>4 DEF Awaits, Goodbyes
<1>2. ASSUME NEW p \in Parts, Remove(p) PROVE Stages' /\ Awaits' /\ Goodbyes'
  <2>1. /\ UNCHANGED <<shape, open>> /\ todo = {} /\ todo' = {} /\ finishing = {} /\ want = state
        /\ After(Rendered(state, removed')) /\ returned' = {}
        /\ told' = EndsWithNested(Rendered(state, removed'))
    BY <1>2 DEF Remove, Moves, Quiet, Settled
  <2>2. PICK gone : gone = removed'
    OBVIOUS
  <2>q. QED
    BY <1>a, <2>1, <2>2, AfterPage DEF Goodbyes
<1>3. ASSUME NEW p \in Parts, LayoutEffect(p) PROVE Stages' /\ Awaits' /\ Goodbyes'
  BY <1>3, EffectPage
<1>4. ASSUME NEW p \in Parts, FinishExit(p) PROVE Stages' /\ Awaits' /\ Goodbyes'
  BY <1>4, FinishPage
<1>5. CASE Render
  <2>1. /\ UNCHANGED <<shape, open, returned, finishing>> /\ todo = {} /\ todo' = {}
        /\ finishing = {} /\ After(Rendered(want, removed))
        /\ told' = told \cup EndsWithNested(Rendered(want, removed))
    BY <1>5 DEF Render, page
  <2>2. ASSUME NEW p \in told, ~Present(p), want[p] \in {"unmounted", "absent"}
        PROVE  want'[p] \in {"unmounted", "absent"}
    <3>1. p \in Parts /\ want'[p] = Rendered(want, removed)[p]
      BY <1>a, <2>1, <2>2 DEF After, TypeOK
    <3>2. want'[p] = "absent" \/ want'[p] = Born(p, want)
      BY <1>a, <3>1, RenderFacts DEF TypeOK
    <3>q. QED
      BY <2>2, <3>2 DEF Born
  <2>3. told \subseteq Parts /\ \A p \in returned : Present(p)
    BY <1>a DEF TypeOK, Goodbyes
  <2>4. Stages' /\ Awaits'
    BY <1>a, <2>1, AfterPage
  <2>5. ASSUME NEW p \in EndsWithNested(Rendered(want, removed))
        PROVE  ~Present(p)' /\ want'[p] = "absent" /\ p \notin returned
    BY <1>a, <2>1, <2>3, AfterPage DEF Present
  <2>6. \A p \in Parts : Freed(p) => Freed(p)'
    BY <1>k, <2>1 DEF Freed, page
  <2>q. QED
    BY <1>a, <2>1, <2>2, <2>3, <2>4, <2>5, <2>6 DEF Goodbyes, Present
<1>6. ASSUME NEW c \in Overlays, NotifyAllComplete(c) PROVE Stages' /\ Awaits' /\ Goodbyes'
  <2>1. UNCHANGED <<shape, open, state, want, live, pending, todo, told, returned>>
        /\ todo = {} /\ finishing = {}
    BY <1>6 DEF NotifyAllComplete, page, Settled
  <2>q. QED
    BY <1>a, <1>k, <2>1 DEF Stages, Awake, Asleep, Present, Exists, Awaits, Goodbyes, Freed, TypeOK
<1>7. ASSUME NEW p \in Parts, EffectsEnd(p) \/ FallbackTimer(p) PROVE Stages' /\ Awaits' /\ Goodbyes'
  <2>1. UNCHANGED <<shape, open, state, want, live, pending, todo>> /\ told' = {} /\ returned' = {}
        /\ todo = {} /\ finishing = {}
    BY <1>7 DEF EffectsEnd, FallbackTimer, Completes, page, Quiet, Settled
  <2>q. QED
    BY <1>a, <1>k, <2>1 DEF Stages, Awake, Asleep, Present, Exists, Awaits, Goodbyes, TypeOK
<1>8. CASE UNCHANGED vars
  BY <1>8, <1>a, <1>k DEF vars, page, Stages, Awake, Asleep, Present, Exists, Awaits, Goodbyes, Freed, TypeOK
<1>q. QED
  BY <1>1, <1>2, <1>3, <1>4, <1>5, <1>6, <1>7, <1>8 DEF Next, PageMoves, Reacts

\* Once a turn is over, every Presence of any page follows its flag, waits for exactly
\* those nested in it that play their exit, and has told only of exits that are over.
THEOREM QuietIsRight == Spec => []QuietPage
<1>1. PageInv => QuietPage
  <2> SUFFICES ASSUME PageInv, Quiet PROVE FollowsFlag /\ WaitsForWhoExits /\ ToldWhenGone
    BY DEF QuietPage
  <2>a. /\ TypeOK /\ Rooted /\ Stages /\ Awaits /\ Goodbyes
        /\ todo = {} /\ finishing = {} /\ want = state
    BY DEF PageInv, Whole, Quiet, Settled
  <2>1. \A p \in Parts : Exists(p) => Asleep(p)
    BY <2>a DEF Stages
  <2>2. FollowsFlag
    BY <2>a, <2>1 DEF FollowsFlag, Asleep, Exists, Suspended
  <2>3. WaitsForWhoExits
    BY <2>a DEF WaitsForWhoExits, Awaits, Suspended
  <2>4. ToldWhenGone
    BY <2>a DEF ToldWhenGone, Goodbyes, Freed
  <2>q. QED
    BY <2>2, <2>3, <2>4
<1>q. QED
  BY <1>1, PageInit, PageStep, PTL DEF Spec

-----------------------------------------------------------------------------
(***************************************************************************)
(* Who leaves when: the parts of an Overlay, and what is around others.    *)
(***************************************************************************)

\* Nothing plays an exit while it stays.
Rests == \A p \in Parts : state[p] = "mounted" /\ want[p] = "mounted" => effects[p] = "none"

\* What was suspended, and has asked for something else, has returned or was told.
Leavers == \A p \in Parts : Suspended(p) /\ want[p] # "unmountSuspended" => p \in told \cup returned

\* An Overlay that is open has nobody finished.  A part that is counted among the finished
\* has others beside it; if its flag is that of the Overlay it has played its exit.
Counted ==
  \A c \in Overlays :
    /\ open[c] => finished[c] = {}
    /\ \A p \in finished[c] : /\ Peers(p) # {p}
                              /\ shape[p].flag = c => p \notin todo /\ effects[p] # "running"

\* Who is about to call finishExit after its effects have ended.
Ends(p) == p \in finishing /\ effects[p] \in {"ended", "over"}

\* A part with no other beside it waits for nobody any more.
Alone == \A p \in Parts : Ends(p) /\ Peers(p) = {p} => pending[p] = {}

\* A part that nothing nested can release leaves when no other plays its exit.
Together ==
  \A p \in Parts :
    Ends(p) /\ shape[p].flag = shape[p].overlay /\ ~Present(p) /\ Nested(p) = {} =>
      \A q \in Parts : shape[q].overlay = shape[p].overlay /\ shape[q].flag = shape[p].flag
                         => effects[q] # "running"

HoldInv == PageInv /\ Rests /\ Leavers /\ Counted /\ Alone /\ Together

\* An active coordinator has other parts, and with one that is not there are none.
LEMMA PartsCount ==
  ASSUME Whole, NEW p \in Parts, Exists(p), shape[p].overlay # NoOverlay
  PROVE  /\ IsCoordinatorActive(shape[p].overlay) => Peers(p) # {p}
         /\ ~open[shape[p].overlay] /\ ~IsCoordinatorActive(shape[p].overlay)
              => Registered(shape[p].overlay) = {p}
<1> DEFINE R == Registered(shape[p].overlay)
<1>1. p \in R /\ R \subseteq Peers(p) /\ IsFiniteSet(R) /\ Cardinality(R) \in Nat
  <2>1. IsFiniteSet(Parts) /\ R \subseteq Parts
    BY PageFacts DEF Whole, TypeOK, Registered, RegisteredIn
  <2>2. p \in R /\ R \subseteq Peers(p)
    BY DEF Registered, RegisteredIn, Exists, Peers
  <2>3. IsFiniteSet(R)
    BY <2>1, FS_Subset
  <2>q. QED
    BY <2>2, <2>3, FS_CardinalityType
<1>2. ASSUME Peers(p) = {p} PROVE Cardinality(R) = 1
  <2>1. R = {p}
    BY <1>1, <1>2
  <2>q. QED
    BY <2>1, FS_Singleton
<1>3. ASSUME Cardinality(R) <= 1 PROVE R = {p}
  <2>1. Cardinality(R \ {p}) = Cardinality(R) - 1 /\ IsFiniteSet(R \ {p})
    BY <1>1, FS_RemoveElement
  <2>2. Cardinality(R \ {p}) \in Nat
    BY <2>1, FS_CardinalityType
  <2>3. Cardinality(R \ {p}) = 0
    BY <1>1, <1>3, <2>1, <2>2
  <2>4. R \ {p} = {}
    BY <2>1, <2>3, FS_EmptySet
  <2>q. QED
    BY <1>1, <2>4
<1>q. QED
  BY <1>1, <1>2, <1>3 DEF IsCoordinatorActive

\* After a render nobody plays an exit that it has not asked for, nobody has left without
\* a word, and an Overlay that is open has nobody finished.
LEMMA AfterHold ==
  ASSUME Whole, Counted, UNCHANGED <<shape, open>>, todo' = {}, NEW gone, NEW s, After(Rendered(s, gone))
  PROVE  Rests' /\ Leavers' /\ Counted'
<1>a. TypeOK
  BY DEF Whole
<1>b. Parts' = Parts /\ Overlays' = Overlays /\ \A p \in Parts : Peers(p)' = Peers(p)
  BY ShapeKept
<1>c. /\ want' = state'
      /\ \A p \in Parts : effects'[p] = IF state'[p] = "unmountSuspended" THEN effects[p] ELSE "none"
      /\ \A c \in Overlays : finished'[c] \subseteq finished[c]
  BY DEF After, Unregisters
<1>1. Rests' /\ Leavers'
  BY <1>b, <1>c DEF Rests, Leavers, Suspended
<1>2. \A c \in Overlays : finished'[c] \subseteq Parts
  BY <1>a, <1>c DEF TypeOK
<1>3. ASSUME NEW c \in Overlays, NEW p \in finished'[c]
      PROVE  Peers(p) # {p} /\ (shape[p].flag = c => effects'[p] # "running")
  BY <1>c, <1>2, <1>3 DEF Counted
<1>4. Counted'
  BY <1>b, <1>c, <1>2, <1>3 DEF Counted
<1>q. QED
  BY <1>1, <1>4

LEMMA EffectHold ==
  ASSUME HoldInv, NEW p \in Parts, LayoutEffect(p)
  PROVE  Rests' /\ Leavers' /\ Counted' /\ Alone' /\ Together'
<1>a. /\ TypeOK /\ Rooted /\ Stages /\ Whole /\ PageInv
      /\ Rests /\ Leavers /\ Counted /\ Alone /\ Together
  BY DEF HoldInv, PageInv, Whole
<1>b. /\ Parts' = Parts /\ Overlays' = Overlays
      /\ \A q \in Parts : Nested(q)' = Nested(q) /\ Peers(q)' = Peers(q)
  BY ShapeKept DEF LayoutEffect, page
<1>c. /\ UNCHANGED <<shape, open, state, told>> /\ p \in todo /\ todo' = todo \ {p}
      /\ finishing = {} /\ Exists(p) /\ Awake(p)
  BY <1>a DEF LayoutEffect, page, Rooted, Stages
<1>1. CASE Returns(p)
  <2>1. /\ Present(p) /\ returned' = returned \cup {p} /\ UNCHANGED <<effects, finished>>
        /\ want' = [want EXCEPT ![p] = "mounted"]
        /\ finishing' = Released(p, pending')
    BY <1>1, <1>c DEF Returns
  <2>2. state[p] # "mounted" /\ want'[p] = "mounted" /\ \A q \in Parts \ {p} : want'[q] = want[q]
    BY <1>a, <1>c, <2>1 DEF Awake, TypeOK
  <2>3. Rests' /\ Leavers'
    BY <1>a, <1>b, <1>c, <2>1, <2>2 DEF Rests, Leavers, Suspended
  <2>4. Counted'
    BY <1>a, <1>b, <1>c, <2>1, <2>2 DEF Counted, Present, TypeOK
  <2>5. \A q \in finishing' : q \in Parts /\ p \in Nested(q) /\ pending'[q] = {}
    BY <1>a, <2>1, Releases
  <2>q. QED
    BY <1>b, <2>3, <2>4, <2>5 DEF Alone, Together, Ends
<1>2. CASE BeginsExit(p) /\ finishing' = {p} /\ UNCHANGED <<want, effects, finished>>
  <2>1. effects[p] = "none" /\ ~Present(p) /\ returned' = returned
    BY <1>a, <1>c, <1>2 DEF BeginsExit, Awake, Rests
  <2>2. Rests' /\ Leavers' /\ Counted'
    BY <1>a, <1>b, <1>c, <1>2, <2>1 DEF Rests, Leavers, Suspended, Counted, Present, TypeOK
  <2>q. QED
    BY <1>b, <1>2, <2>1, <2>2 DEF Alone, Together, Ends
<1>3. CASE BeginsExit(p) /\ finishing' = {} /\ want' = [want EXCEPT ![p] = "unmountSuspended"]
  <2>1. ~Present(p) /\ returned' = returned
    BY <1>3 DEF BeginsExit
  <2>2. want'[p] = "unmountSuspended" /\ \A q \in Parts \ {p} : want'[q] = want[q] /\ effects'[q] = effects[q]
    BY <1>a, <1>3, <1>c DEF BeginsExit, SkipsExit, HasNoEffects, Animates, TypeOK
  <2>3. Rests' /\ Leavers'
    BY <1>a, <1>b, <1>c, <2>1, <2>2 DEF Rests, Leavers, Suspended
  <2>4. \/ UNCHANGED finished
        \/ /\ IsCoordinatorActive(shape[p].overlay) /\ effects'[p] = "ended"
           /\ finished' = [finished EXCEPT ![shape[p].overlay] = @ \cup {p}]
    BY <1>a, <1>3 DEF BeginsExit, SkipsExit, HasNoEffects, ReportPartFinished, Animates, TypeOK
  <2>5. \A c \in Overlays : \A q \in finished'[c] :
          \/ q \in finished[c]
          \/ q = p /\ effects'[p] = "ended" /\ Peers(p) # {p} /\ ~open[c]
    BY <1>a, <1>c, <2>4, PartsCount DEF TypeOK, IsCoordinatorActive
  <2>6. Counted'
    BY <1>a, <1>b, <1>c, <2>1, <2>2, <2>5 DEF Counted, Present, TypeOK
  <2>q. QED
    BY <1>b, <1>3, <2>3, <2>6 DEF Alone, Together, Ends
<1>q. QED
  BY <1>c, <1>1, <1>2, <1>3 DEF LayoutEffect, BeginsExit, SkipsExit, HasNoEffects, Animates

LEMMA FinishHold ==
  ASSUME HoldInv, NEW p \in Parts, FinishExit(p)
  PROVE  Rests' /\ Leavers' /\ Counted' /\ Alone' /\ Together'
<1>a. /\ TypeOK /\ Rooted /\ Stages /\ Whole /\ PageInv
      /\ Rests /\ Leavers /\ Counted /\ Alone /\ Together
  BY DEF HoldInv, PageInv, Whole
<1>b. /\ Parts' = Parts /\ Overlays' = Overlays
      /\ \A q \in Parts : Nested(q)' = Nested(q) /\ Peers(q)' = Peers(q)
  BY ShapeKept DEF FinishExit, page
<1>c. UNCHANGED <<shape, open, state, effects, finished, todo, returned>> /\ p \in finishing
  BY DEF FinishExit, page
<1>1. CASE ~live[p]
  <2>1. UNCHANGED <<live, want, told, pending>> /\ finishing' = finishing \ {p}
    BY <1>1 DEF FinishExit
  <2>2. Rests' /\ Leavers' /\ Counted'
    BY <1>a, <1>b, <1>c, <2>1 DEF Rests, Leavers, Suspended, Counted, Present, TypeOK
  <2>3. Alone' /\ Together'
    BY <1>a, <1>b, <1>c, <2>1 DEF Alone, Together, Ends, Present
  <2>q. QED
    BY <2>2, <2>3
<1>2. CASE live[p]
  <2>1. /\ want' = [want EXCEPT ![p] = "unmounted"]
        /\ told' = told \cup {p} /\ pending' = Unregistering(p)
        /\ finishing' = (finishing \ {p}) \cup Released(p, pending')
    BY <1>2 DEF FinishExit
  <2>2. want'[p] = "unmounted" /\ \A q \in Parts \ {p} : want'[q] = want[q]
    BY <1>a, <2>1 DEF TypeOK
  <2>3. Present(p) => p \in todo
    BY <1>a, <1>2 DEF TypeOK, Stages, Asleep
  <2>4. Rests' /\ Leavers'
    BY <1>a, <1>b, <1>c, <2>1, <2>2 DEF Rests, Leavers, Suspended
  <2>5. Counted'
    BY <1>a, <1>b, <1>c, <2>2, <2>3 DEF Counted, Present, TypeOK
  <2>6. \A q \in finishing' : q \in finishing \/ (p \in Nested(q) /\ pending'[q] = {})
    BY <1>a, <2>1, Releases
  <2>7. \A q \in Parts : pending[q] = {} => pending'[q] = {}
    BY <1>a, <2>1, PendingKept
  <2>8. Alone'
    BY <1>a, <1>b, <1>c, <2>6, <2>7 DEF Alone, Ends
  <2>9. Together'
    BY <1>a, <1>b, <1>c, <2>6 DEF Together, Ends, Present
  <2>q. QED
    BY <2>4, <2>5, <2>8, <2>9
<1>q. QED
  BY <1>1, <1>2

LEMMA HoldInit == Init => HoldInv
<1> SUFFICES ASSUME Init PROVE Rests /\ Leavers /\ Counted /\ Alone /\ Together
  BY PageInit DEF HoldInv
<1>1. /\ want = state /\ finishing = {} /\ \A p \in Parts : effects[p] = "none"
      /\ \A c \in Overlays : finished[c] = {}
  BY DEF Init
<1>q. QED
  BY <1>1 DEF Rests, Leavers, Suspended, Counted, Alone, Together, Ends

LEMMA HoldStep == HoldInv /\ [Next]_vars => HoldInv'
<1> DEFINE Holds == Rests /\ Leavers /\ Counted /\ Alone /\ Together
<1> SUFFICES ASSUME HoldInv, [Next]_vars PROVE Holds'
  BY PageStep DEF HoldInv
<1>a. /\ TypeOK /\ Rooted /\ Stages /\ Whole /\ PageInv
      /\ Rests /\ Leavers /\ Counted /\ Alone /\ Together
  BY DEF HoldInv, PageInv, Whole
<1>k. ASSUME shape' = shape
      PROVE  /\ Parts' = Parts /\ Overlays' = Overlays
             /\ \A q \in Parts : Nested(q)' = Nested(q) /\ Peers(q)' = Peers(q)
  BY <1>k, ShapeKept
<1>e. ASSUME finishing' = {} PROVE Alone' /\ Together'
  BY <1>e DEF Alone, Together, Ends
<1>1. ASSUME NEW flags \in SUBSET Flags, Commit(flags) PROVE Holds'
  <2>1. /\ UNCHANGED <<shape, state, want, effects, finishing>>
        /\ todo = {} /\ finishing = {} /\ want = state
    BY <1>1 DEF Commit, Moves, Quiet, Settled
  <2>2. Rests' /\ Leavers'
    BY <1>a, <1>k, <2>1 DEF Rests, Leavers, Suspended
  <2>3. ASSUME NEW c \in Overlays, NEW p \in finished'[c]
        PROVE  /\ p \in finished[c] /\ p \in Parts
               /\ shape[p].flag = c => p \notin todo'
    <3>1. p \in finished[c] /\ p \in Parts /\ ~open'[c]
      BY <1>1, <1>a, <2>3 DEF Commit, Forgets, TypeOK
    <3>2. ~open[c]
      BY <3>1 DEF HoldInv, Counted
    <3>3. ASSUME c \in Flags PROVE c \notin flags
      BY <1>1, <3>1, <3>2, <3>3 DEF Commit
    <3>q. QED
      BY <1>1, <1>a, <3>1, <3>3, PageFacts DEF Commit, TypeOK
  <2>4. Counted'
    BY <1>1, <1>a, <1>k, <2>1, <2>3 DEF Counted, Commit, Forgets
  <2>q. QED
    BY <1>e, <2>1, <2>2, <2>4
<1>2. ASSUME NEW p \in Parts, Remove(p) PROVE Holds'
  <2>1. /\ UNCHANGED <<shape, open>> /\ todo' = {}
        /\ After(Rendered(state, removed')) /\ finishing' = Released(p, pending')
    BY <1>2 DEF Remove, Moves, Quiet, Settled
  <2>2. PICK gone : gone = removed'
    OBVIOUS
  <2>3. Rests' /\ Leavers' /\ Counted'
    BY <1>a, <2>1, <2>2, AfterHold
  <2>4. \A q \in finishing' : p \in Nested(q) /\ pending'[q] = {}
    BY <1>a, <2>1, Releases
  <2>q. QED
    BY <1>k, <2>1, <2>3, <2>4 DEF Alone, Together, Ends
<1>3. ASSUME NEW p \in Parts, LayoutEffect(p) PROVE Holds'
  BY <1>3, EffectHold
<1>4. ASSUME NEW p \in Parts, FinishExit(p) PROVE Holds'
  BY <1>4, FinishHold
<1>5. CASE Render
  <2>1. UNCHANGED <<shape, open>> /\ todo' = {} /\ After(Rendered(want, removed)) /\ finishing' = {}
    BY <1>5 DEF Render, page
  <2>q. QED
    BY <1>a, <1>e, <2>1, AfterHold
<1>6. ASSUME NEW c \in Overlays, NotifyAllComplete(c) PROVE Holds'
  <2>1. /\ UNCHANGED <<shape, open, state, want, effects, pending, finished, todo, told, returned>>
        /\ finishing' # {} => ~open[c] /\ Registered(c) \subseteq finished[c]
        /\ finishing' \subseteq Registered(c) /\ want = state /\ c \in Overlays
    BY <1>6 DEF NotifyAllComplete, AllComplete, Settled, page
  <2>2. Rests' /\ Leavers' /\ Counted'
    BY <1>a, <1>k, <2>1 DEF Rests, Leavers, Suspended, Counted, Present, TypeOK
  <2>3. \A q \in finishing' : Peers(q) # {q} /\ shape[q].overlay = c
    BY <1>a, <2>1 DEF Counted, Registered, RegisteredIn
  <2>4. finishing' # {} => \A q \in Parts :
          shape[q].overlay = c /\ shape[q].flag = c => effects[q] # "running"
    BY <1>a, <2>1 DEF Counted, Registered, RegisteredIn, Exists, TypeOK
  <2>q. QED
    BY <1>k, <2>1, <2>2, <2>3, <2>4 DEF Alone, Together, Ends
<1>7. ASSUME NEW p \in Parts, EffectsEnd(p) \/ FallbackTimer(p) PROVE Holds'
  <2>1. Completes(p)
    BY <1>7 DEF EffectsEnd, FallbackTimer
  <2>2. /\ UNCHANGED <<shape, open, state, want, pending, todo>>
        /\ Exists(p) /\ Suspended(p) /\ ~Present(p) /\ HandleExitComplete(p)
        /\ todo = {} /\ finishing = {} /\ want = state
    BY <2>1 DEF Completes, page, Quiet, Settled, Suspended, Exists
  <2>3. effects'[p] \in {"ended", "over"} /\ \A q \in Parts \ {p} : effects'[q] = effects[q]
    BY <1>7, <1>a DEF EffectsEnd, FallbackTimer, TypeOK
  <2>4. Rests' /\ Leavers'
    BY <1>a, <1>k, <2>2, <2>3 DEF Rests, Leavers, Suspended
  <2>5. \A c \in Overlays : \A q \in finished'[c] : q \in finished[c] \/ (q = p /\ Peers(p) # {p} /\ ~open[c])
    BY <1>a, <2>2, PartsCount DEF HandleExitComplete, ReportPartFinished, TypeOK, IsCoordinatorActive
  <2>6. Counted'
    BY <1>a, <1>k, <2>2, <2>3, <2>5 DEF Counted, Present, TypeOK
  <2>7. CASE finishing' = {}
    BY <1>e, <2>4, <2>6, <2>7
  <2>8. CASE finishing' # {}
    <3>1. finishing' = {p} /\ pending[p] = {} /\ ~IsCoordinatorActive(shape[p].overlay)
      BY <2>2, <2>8 DEF HandleExitComplete
    <3>2. Alone'
      BY <1>k, <2>2, <3>1 DEF Alone, Ends
    <3>3. ASSUME shape[p].flag = shape[p].overlay, NEW q \in Parts, shape[q].overlay = shape[p].overlay
          PROVE  effects'[q] # "running"
      <4>1. shape[p].overlay # NoOverlay /\ ~open[shape[p].overlay]
        BY <1>a, <2>2, <3>3, PageFacts DEF Present, TypeOK
      <4>2. Registered(shape[p].overlay) = {p}
        BY <1>a, <2>2, <3>1, <4>1, PartsCount
      <4>3. q = p \/ ~Exists(q)
        BY <3>3, <4>2 DEF Registered, RegisteredIn, Exists
      <4>q. QED
        BY <1>a, <2>3, <4>3 DEF TypeOK
    <3>4. Together'
      BY <1>k, <2>2, <3>1, <3>3 DEF Together, Ends
    <3>q. QED
      BY <2>4, <2>6, <3>2, <3>4
  <2>q. QED
    BY <2>7, <2>8
<1>8. CASE UNCHANGED vars
  BY <1>8, <1>a, <1>k DEF vars, page, Rests, Leavers, Suspended, Counted, Present, Alone, Together, Ends, TypeOK
<1>q. QED
  BY <1>1, <1>2, <1>3, <1>4, <1>5, <1>6, <1>7, <1>8 DEF Next, PageMoves, Reacts

\* Who is told is told by finishExit, or goes together with what is nested in it.
LEMMA ToldBy ==
  ASSUME Whole, [Next]_vars, NEW p \in told' \ told
  PROVE  /\ p \in Parts
         /\ \/ FinishExit(p) /\ live[p]
            \/ /\ Nested(p) # {}
               /\ \A q \in Nested(p) : ~Exists(q)'
<1>a. TypeOK /\ Rooted
  BY DEF Whole
<1>1. ASSUME NEW s \in {state, want}, NEW gone, After(Rendered(s, gone)),
             p \in EndsWithNested(Rendered(s, gone))
      PROVE  p \in Parts /\ Nested(p) # {} /\ \A q \in Nested(p) : ~Exists(q)'
  <2>1. p \in Parts /\ Nested(p) # {} /\ Rendered(s, gone)[p] = "absent"
    BY <1>1 DEF EndsWithNested
  <2>2. ASSUME NEW q \in Nested(p) PROVE Rendered(s, gone)[q] = "absent"
    <3>1. q \in Parts /\ p \in shape[q].around /\ s \in [Parts -> States]
      BY <1>a, <1>1, <2>1, PageFacts DEF TypeOK
    <3>q. QED
      BY <1>a, <2>1, <3>1, RenderFacts DEF TypeOK
  <2>q. QED
    BY <1>1, <2>1, <2>2 DEF After, Exists
<1>2. ASSUME NEW q \in Parts, Remove(q) PROVE p \in EndsWithNested(Rendered(state, removed'))
  BY <1>2 DEF Remove
<1>3. CASE Render
  BY <1>1, <1>3 DEF Render
<1>4. CASE \E q \in Parts : Remove(q)
  <2>1. After(Rendered(state, removed'))
    BY <1>4 DEF Remove
  <2>2. PICK gone : gone = removed'
    OBVIOUS
  <2>q. QED
    BY <1>1, <1>2, <1>4, <2>1, <2>2
<1>5. CASE \E q \in Parts : FinishExit(q)
  BY <1>5 DEF FinishExit
<1>q. QED
  BY <1>3, <1>4, <1>5 DEF Next, PageMoves, Reacts, Commit, LayoutEffect,
     NotifyAllComplete, EffectsEnd, FallbackTimer, Completes, vars

\* A part of an Overlay leaves by the coordinator when no other part plays its exit, in
\* this exit and in every later one, on any page.
THEOREM SlowerPart == Spec => SlowerPartHolds
<1> DEFINE A == \A p \in told' \ told : LET c == shape[p].overlay IN
       shape[p].flag = c /\ ~open[c] /\ Nested(p) = {} /\ effects[p] \in {"ended", "over"}
         => \A q \in Registered(c) : shape[q].flag = c => effects[q] # "running"
<1>1. HoldInv /\ [Next]_vars => A
  <2> SUFFICES ASSUME HoldInv, [Next]_vars, NEW p \in told' \ told PROVE
        LET c == shape[p].overlay IN
        shape[p].flag = c /\ ~open[c] /\ Nested(p) = {} /\ effects[p] \in {"ended", "over"}
          => \A q \in Registered(c) : shape[q].flag = c => effects[q] # "running"
    OBVIOUS
  <2>1. Nested(p) = {} => p \in Parts /\ p \in finishing
    BY ToldBy DEF HoldInv, PageInv, FinishExit
  <2>q. QED
    BY <2>1 DEF HoldInv, Together, Ends, Present, Registered, RegisteredIn
<1>q. QED
  BY <1>1, HoldInit, HoldStep, PTL DEF Spec, SlowerPartHolds

\* A Presence alone with its coordinator, on any page, is told after those nested in it:
\* whoever of them plays an exit, and is not taken away, was told before, or has returned.
THEOREM ParentLast == Spec => ParentHolds
<1> DEFINE A == \A p \in told' \ told :
       effects[p] \in {"ended", "over"} /\ Peers(p) = {p}
         => \A q \in Nested(p) : Suspended(q) /\ Exists(q)' => q \in told' \cup returned'
<1>1. HoldInv /\ [Next]_vars => A
  <2> SUFFICES ASSUME HoldInv, [Next]_vars, NEW p \in told' \ told,
                      effects[p] \in {"ended", "over"}, Peers(p) = {p},
                      NEW q \in Nested(p), Suspended(q), Exists(q)'
               PROVE  q \in told' \cup returned'
    OBVIOUS
  <2>1. p \in Parts /\ FinishExit(p) /\ live[p] /\ p \in finishing
    BY ToldBy DEF HoldInv, PageInv, FinishExit
  <2>2. pending[p] = {} /\ q \in Parts
    BY <2>1, PageFacts DEF HoldInv, Alone, Ends, PageInv, Whole, TypeOK
  <2>3. want[q] # "unmountSuspended"
    BY <2>1, <2>2 DEF HoldInv, PageInv, Awaits
  <2>4. q \in told \cup returned
    BY <2>2, <2>3 DEF HoldInv, Leavers
  <2>q. QED
    BY <2>1, <2>4 DEF FinishExit
<1>q. QED
  BY <1>1, HoldInit, HoldStep, PTL DEF Spec, ParentHolds
=============================================================================
