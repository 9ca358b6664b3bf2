-------------------------- MODULE StagedCommitProofs --------------------------
(***************************************************************************)
(* What TLAPS proves of StagedCommit, for any folder, any outputs, any     *)
(* preserved paths, and any number of syncs and crashes.                   *)
(*                                                                         *)
(* First what is needed of paths, then what each operation on the folder   *)
(* leaves alone, then the invariant: one part for each stage of a sync and *)
(* of the writer, since each relies on what the stage before it has left.  *)
(***************************************************************************)
EXTENDS StagedCommit, SequenceTheorems, TLAPS

\* A path below the folder that is neither preserved nor the writer's: a file
\* there goes unless it is staged.  The folders of preserved paths are among them.
Swept(p) == ~IsPreserved(p) /\ \A t \in Tmps : ~Under(p, t)

\* The types alone.
Typed ==
  /\ live \in [Paths -> Node]
  /\ DOMAIN stage \subseteq Paths /\ \A p \in DOMAIN stage : stage[p] \in Contents
  /\ want \in Outputs \cup {Empty} /\ prior \in [Paths -> Node]
  /\ pc \in {"idle", "assemble", "commit", "stale", "drop"}
  /\ outcome \in {"none", "ok", "failed", "threw", "crashed"}
  /\ todo \subseteq staged /\ staged \subseteq Paths
  /\ at \in todo \cup {<<>>}
  /\ walk \subseteq Paths \cup {<<>>} /\ victims \subseteq Paths
  /\ wstep \in {"idle", "scheduled", "write", "swap", "ready", "failed"}
  /\ wtmp \in Tmps \cup {Tasty} /\ wleft \subseteq Chunks
  /\ cached \in BOOLEAN /\ swept \in BOOLEAN
  /\ landed \in {"nothing", "mkdtemp", "chunks", "rm", "rename"}
  /\ syncs \in 0 .. MaxSyncs /\ crashes \in 0 .. MaxCrashes

\* What a place of the sync tells by itself.
Placed ==
  /\ ~Committing => landed = "nothing"
  /\ pc # "idle" => outcome = "none"
  /\ pc # "commit" => todo = {} /\ at = <<>>
  /\ pc # "stale" => walk = {} /\ victims = {}

\* Before the commit the stage holds files of this output alone, and the folder
\* is as the sync has found it.
Assembled ==
  pc = "assemble" =>
    /\ DOMAIN stage \subseteq DOMAIN want
    /\ \A p \in Paths : Ours(p) => live[p] = prior[p]

\* From then on each file of the output is still to be committed, or is live.
Committed ==
  /\ Committing =>
       /\ staged = DOMAIN want
       /\ \A p \in todo : p \in DOMAIN stage /\ stage[p] = want[p]
       /\ \A p \in staged \ todo : live[p] = want[p]
  /\ at # <<>> => live[at] = Nothing

\* The stale pass has listed what is not staged, or will list a directory above
\* it.  What it has listed is a file, or the writer has taken it away.
Listed ==
  pc = "stale" =>
    /\ \A p \in victims :
         /\ ~IsPreserved(p) /\ live[p] # Directory
         /\ landed \in {"nothing", "mkdtemp", "chunks"} => IsFile(live, p)
         /\ \A q \in DOMAIN want : ~Under(q, p)
    /\ \A p \in Paths \ DOMAIN want : Swept(p) /\ IsFile(live, p) =>
         p \in victims \/ \E d \in walk : IsStrictPrefix(d, p)

\* After it the folder mirrors the output.
Mirrored == pc = "drop" => \A p \in Paths : Ours(p) =>
  IF p \in DOMAIN want THEN live[p] = want[p]
  ELSE IF \E q \in DOMAIN want : p \in Ancestors(q) THEN live[p] = Directory
  ELSE live[p] = Nothing \/ (PruneSkipped(p) /\ live[p] = Directory)

\* No file is in the way of mkdir once the writer may run.
Roofed == pc = "drop" \/ wstep # "idle" => \A p \in Ancestors(Tasty) : ~IsFile(live, p)

\* What the writer has written is there, unless a stale pass has met it.
TmpWhole == \A c \in Chunks \ wleft : live[Append(wtmp, c)] = Built

Writing ==
  /\ wstep \in {"write", "swap"} => wtmp \in Tmps /\ live[wtmp] = Directory
  /\ wstep = "write" => \A c \in wleft : live[Append(wtmp, c)] = Nothing
  /\ wstep = "swap" => wleft = {}
  /\ wstep \in {"write", "swap"} => swept \/ TmpWhole
  /\ wstep = "ready" => swept \/ TastyWhole
  /\ cached => /\ wstep = "idle" /\ live[Append(Tasty, Manifest)] # Nothing
               /\ swept \/ TastyWhole

Inv ==
  /\ Typed /\ WellFormed(live) /\ Placed
  /\ Assembled /\ Committed /\ Listed /\ Mirrored /\ Roofed /\ Writing
  /\ MirrorsOutput /\ FailedKeepsLastGood /\ OldFilesStay

-----------------------------------------------------------------------------
(***************************************************************************)
(* Paths                                                                   *)
(***************************************************************************)
Names == UNION {{p[i] : i \in DOMAIN p} : p \in Paths}
Anywhere == Paths \cup {<<>>}

LEMMA PathsAreSequences ==
  /\ Anywhere \subseteq Seq(Names)
  /\ \A p \in Anywhere : Len(p) \in Nat /\ (p \in Paths => Len(p) > 0)
  /\ <<>> \notin Paths /\ Len(<<>>) = 0
  /\ \A p \in Seq(Names) : Len(p) \in Nat /\ (Len(p) = 0 => p = <<>>)
<1>1. Paths \subseteq Seq(Names) /\ <<>> \notin Paths
  BY CommitAssumption DEF Names
<1>2. <<>> \in Seq(Names) /\ Len(<<>>) = 0 /\ \A p \in Seq(Names) : p # <<>> => Len(p) \in Nat \ {0}
  BY EmptySeq
<1>3. ASSUME NEW p \in Seq(Names)
      PROVE  Len(p) \in Nat /\ (p # <<>> => Len(p) > 0)
  BY <1>2
<1> QED
  BY <1>1, <1>2, <1>3 DEF Anywhere

\* A prefix, element by element.
LEMMA UnderIs ==
  ASSUME NEW p \in Seq(Names), NEW q \in Seq(Names)
  PROVE  Under(q, p) <=> (Len(p) <= Len(q) /\ \A i \in 1 .. Len(p) : p[i] = q[i])
<1>1. /\ Len(p) \in Nat /\ Len(q) \in Nat
      /\ \A i \in 1 .. Len(p) : p[i] \in Names
      /\ \A i \in 1 .. Len(q) : q[i] \in Names
  BY LenProperties, ElementOfSeq
<1>2. SubSeq(p, 1, Len(p)) = p
  BY SubSeqFull
<1>3. ASSUME Len(p) <= Len(q)
      PROVE  /\ SubSeq(q, 1, Len(p)) \in Seq(Names) /\ Len(SubSeq(q, 1, Len(p))) = Len(p)
             /\ \A i \in 1 .. Len(p) : SubSeq(q, 1, Len(p))[i] = q[i]
  <2>1. 1 \in Int /\ Len(p) \in Int /\ \A i \in 1 .. Len(p) : q[i] \in Names
    BY <1>1, <1>3
  <2>2. /\ SubSeq(q, 1, Len(p)) \in Seq(Names)
        /\ Len(SubSeq(q, 1, Len(p))) = IF 1 <= Len(p) THEN Len(p) - 1 + 1 ELSE 0
        /\ \A i \in 1 .. Len(p) - 1 + 1 : SubSeq(q, 1, Len(p))[i] = q[1 + i - 1]
    BY <2>1, SubSeqProperties
  <2> QED
    BY <1>1, <2>2
<1>4. ASSUME Under(q, p)
      PROVE  Len(p) <= Len(q) /\ \A i \in 1 .. Len(p) : p[i] = q[i]
  <2>1. Len(p) <= Len(q) /\ p = SubSeq(q, 1, Len(p))
    BY <1>2, <1>4 DEF Under, IsPrefix
  <2> QED
    BY <1>3, <2>1
<1>5. ASSUME Len(p) <= Len(q), \A i \in 1 .. Len(p) : p[i] = q[i]
      PROVE  Under(q, p)
  <2> DEFINE s == SubSeq(q, 1, Len(p))
  <2>1. s \in Seq(Names) /\ Len(p) = Len(s) /\ \A i \in 1 .. Len(p) : p[i] = s[i]
    BY <1>3, <1>5
  <2> HIDE DEF s
  <2>2. p = s
    BY <2>1, SeqEqual
  <2> QED
    BY <1>2, <1>5, <2>2 DEF Under, IsPrefix, s
<1> QED
  BY <1>4, <1>5

\* The order of prefixes.
LEMMA UnderOrder ==
  /\ \A p \in Seq(Names) : Under(p, p) /\ Under(p, <<>>)
  /\ \A p, q, r \in Seq(Names) : Under(p, q) /\ Under(q, r) => Under(p, r)
  /\ \A p, q \in Seq(Names) : Under(p, q) => Len(q) <= Len(p) /\ (Len(p) = Len(q) => p = q)
  /\ \A p, q, r \in Seq(Names) : Under(p, q) /\ Under(p, r) /\ Len(q) <= Len(r) => Under(r, q)
  /\ \A p, q, r \in Seq(Names) : Under(p, q) /\ Under(p, r) => Under(q, r) \/ Under(r, q)
<1>1. \A p \in Seq(Names) : Len(p) \in Nat
  BY LenProperties
<1>2. <<>> \in Seq(Names) /\ Len(<<>>) = 0
  BY EmptySeq
<1>3. \A p \in Seq(Names) : Under(p, p) /\ Under(p, <<>>)
  <2> SUFFICES ASSUME NEW p \in Seq(Names) PROVE Under(p, p) /\ Under(p, <<>>)
    OBVIOUS
  <2>1. Under(p, p)
    BY <1>1, UnderIs
  <2>2. Len(<<>>) <= Len(p) /\ \A i \in 1 .. Len(<<>>) : <<>>[i] = p[i]
    BY <1>1, <1>2
  <2>3. Under(p, <<>>)
    BY <1>2, <2>2, UnderIs
  <2> QED
    BY <2>1, <2>3
<1>4. ASSUME NEW p \in Seq(Names), NEW q \in Seq(Names), NEW r \in Seq(Names),
             Under(p, q), Under(q, r)
      PROVE  Under(p, r)
  <2>1. Len(q) <= Len(p) /\ \A i \in 1 .. Len(q) : q[i] = p[i]
    BY <1>4, UnderIs
  <2>2. Len(r) <= Len(q) /\ \A i \in 1 .. Len(r) : r[i] = q[i]
    BY <1>4, UnderIs
  <2>3. Len(r) <= Len(p) /\ \A i \in 1 .. Len(r) : r[i] = p[i]
    BY <1>1, <2>1, <2>2
  <2> QED
    BY <2>3, UnderIs
<1>5. ASSUME NEW p \in Seq(Names), NEW q \in Seq(Names), Under(p, q)
      PROVE  Len(q) <= Len(p) /\ (Len(p) = Len(q) => p = q)
  <2>1. Len(q) <= Len(p) /\ \A i \in 1 .. Len(q) : q[i] = p[i]
    BY <1>5, UnderIs
  <2> QED
    BY <2>1, SeqEqual
<1>6. ASSUME NEW p \in Seq(Names), NEW q \in Seq(Names), NEW r \in Seq(Names),
             Under(p, q), Under(p, r), Len(q) <= Len(r)
      PROVE  Under(r, q)
  <2>1. \A i \in 1 .. Len(q) : q[i] = p[i]
    BY <1>6, UnderIs
  <2>2. \A i \in 1 .. Len(r) : r[i] = p[i]
    BY <1>6, UnderIs
  <2>3. \A i \in 1 .. Len(q) : q[i] = r[i]
    BY <1>1, <1>6, <2>1, <2>2
  <2> QED
    BY <1>6, <2>3, UnderIs
<1>7. \A p, q, r \in Seq(Names) : Under(p, q) /\ Under(p, r) => Under(q, r) \/ Under(r, q)
  <2>1. \A q, r \in Seq(Names) : Len(q) <= Len(r) \/ Len(r) <= Len(q)
    BY <1>1
  <2> QED
    BY <1>6, <2>1
<1> QED
  BY <1>3, <1>4, <1>5, <1>6, <1>7

\* The parent of a path is the longest path above it, and on the way down from a
\* path above it there is one that is an entry of that path.
LEMMA ParentIs ==
  ASSUME NEW p \in Paths
  PROVE  /\ Parent(p) \in Anywhere /\ Len(Parent(p)) = Len(p) - 1
         /\ IsStrictPrefix(Parent(p), p)
         /\ \A q \in Anywhere : IsStrictPrefix(q, p) <=> Under(Parent(p), q)
<1> DEFINE n == Len(p)
           m == Parent(p)
<1>1. p \in Seq(Names) /\ n \in Nat /\ n > 0 /\ Anywhere \subseteq Seq(Names)
      /\ \A q \in Anywhere : Len(q) \in Nat
  BY PathsAreSequences DEF Anywhere
<1>2. \A i \in 1 .. n : p[i] \in Names
  BY <1>1, ElementOfSeq
<1>3. m = SubSeq(p, 1, n - 1)
  BY DEF Parent, Front
<1>4. /\ m \in Seq(Names)
      /\ Len(m) = n - 1
      /\ \A i \in 1 .. n - 1 : m[i] = p[i]
  <2>1. 1 \in Int /\ n - 1 \in Int /\ \A i \in 1 .. n - 1 : p[i] \in Names
    BY <1>1, <1>2
  <2>2. /\ SubSeq(p, 1, n - 1) \in Seq(Names)
        /\ Len(SubSeq(p, 1, n - 1)) = IF 1 <= n - 1 THEN n - 1 - 1 + 1 ELSE 0
        /\ \A i \in 1 .. n - 1 - 1 + 1 : SubSeq(p, 1, n - 1)[i] = p[1 + i - 1]
    BY <2>1, SubSeqProperties
  <2>3. n - 1 - 1 + 1 = n - 1 /\ (~(1 <= n - 1) => n - 1 = 0)
    <3>1. n \in Nat /\ n > 0
      BY <1>1
    <3> HIDE DEF n
    <3> QED
      BY <3>1
  <2>4. \A i \in 1 .. n - 1 : 1 + i - 1 = i
    BY <1>1
  <2> QED
    BY <1>3, <2>2, <2>3, <2>4
<1> HIDE DEF m
<1>5. m \in Anywhere
  <2>1. CASE n = 1
    <3>1. Len(m) = 0
      BY <1>4, <2>1
    <3>2. m = <<>>
      BY <1>4, <3>1, PathsAreSequences
    <3> QED
      BY <3>2 DEF Anywhere
  <2>2. CASE n > 1
    <3>1. n - 1 \in 1 .. n
      BY <1>1, <2>2
    <3>2. SubSeq(p, 1, n - 1) \in Paths
      BY <3>1, CommitAssumption
    <3> QED
      BY <1>3, <3>2 DEF Anywhere
  <2>3. n = 1 \/ n > 1
    BY <1>1
  <2> QED
    BY <2>1, <2>2, <2>3
<1>6. Under(p, m)
  <2>1. Len(m) <= n /\ \A i \in 1 .. Len(m) : m[i] = p[i]
    BY <1>1, <1>4
  <2> QED
    BY <1>1, <1>4, <2>1, UnderIs
<1>7. m # p
  BY <1>1, <1>4
<1>8. ASSUME NEW q \in Anywhere
      PROVE  IsStrictPrefix(q, p) <=> Under(m, q)
  <2>0. q \in Seq(Names) /\ Len(q) \in Nat
    BY <1>1, <1>8
  <2>1. ASSUME IsStrictPrefix(q, p) PROVE Under(m, q)
    <3>1. Under(p, q) /\ q # p
      BY <2>1 DEF IsStrictPrefix, Under
    <3>2. Len(q) <= n /\ Len(q) # n
      BY <1>1, <2>0, <3>1, UnderOrder
    <3>3. Len(q) <= Len(m)
      BY <1>1, <1>4, <2>0, <3>2
    <3> QED
      BY <1>1, <1>4, <1>6, <2>0, <3>1, <3>3, UnderOrder
  <2>2. ASSUME Under(m, q) PROVE IsStrictPrefix(q, p)
    <3>1. Under(p, q)
      BY <1>1, <1>4, <1>6, <2>0, <2>2, UnderOrder
    <3>2. Len(q) <= Len(m)
      BY <1>4, <2>0, <2>2, UnderOrder
    <3>3. q # p
      BY <1>1, <1>4, <2>0, <3>2
    <3> QED
      BY <3>1, <3>3 DEF IsStrictPrefix, Under
  <2> QED
    BY <2>1, <2>2
<1>9. IsStrictPrefix(m, p)
  BY <1>6, <1>7 DEF IsStrictPrefix, Under
<1> QED
  BY <1>4, <1>5, <1>8, <1>9 DEF m

LEMMA WayDown ==
  ASSUME NEW d \in Anywhere, NEW p \in Paths, IsStrictPrefix(d, p)
  PROVE  \E e \in Paths : Parent(e) = d /\ Under(p, e) /\ Under(e, d)
<1> DEFINE n == Len(d) + 1
           e == SubSeq(p, 1, n)
<1>1. /\ p \in Seq(Names) /\ d \in Seq(Names) /\ Len(d) \in Nat /\ Len(p) \in Nat
      /\ Anywhere \subseteq Seq(Names)
  BY PathsAreSequences DEF Anywhere
<1>2. Under(p, d) /\ d # p
  BY DEF IsStrictPrefix, Under
<1>3. Len(d) <= Len(p) /\ Len(d) # Len(p)
  BY <1>1, <1>2, UnderOrder
<1>4. n \in 1 .. Len(p) /\ n \in Int /\ 1 \in Int /\ 1 <= n
  BY <1>1, <1>3
<1>5. e \in Paths
  BY <1>4, CommitAssumption
<1>6. \A i \in 1 .. n : p[i] \in Names
  BY <1>1, <1>4, ElementOfSeq
<1>7. e \in Seq(Names) /\ Len(e) = n /\ \A i \in 1 .. n : e[i] = p[i]
  <2>1. /\ e \in Seq(Names) /\ Len(e) = IF 1 <= n THEN n - 1 + 1 ELSE 0
        /\ \A i \in 1 .. n - 1 + 1 : e[i] = p[1 + i - 1]
    BY <1>4, <1>6, SubSeqProperties
  <2> QED
    BY <1>4, <2>1
<1> HIDE DEF e
<1>8. Under(p, e)
  BY <1>1, <1>4, <1>7, UnderIs
<1>9. Under(e, d)
  BY <1>1, <1>2, <1>3, <1>7, <1>8, UnderOrder
<1>10. Under(Parent(e), d) /\ Len(Parent(e)) = Len(d) /\ Parent(e) \in Seq(Names)
  <2>1. e # d
    BY <1>1, <1>7
  <2>2. IsStrictPrefix(d, e)
    BY <1>9, <2>1 DEF IsStrictPrefix, Under
  <2>3. Under(Parent(e), d) /\ Parent(e) \in Anywhere /\ Len(Parent(e)) = Len(e) - 1
    BY <1>5, <2>2, ParentIs
  <2> QED
    BY <1>1, <1>7, <2>3
<1>11. Parent(e) = d
  BY <1>1, <1>10, UnderOrder
<1> QED
  BY <1>5, <1>8, <1>9, <1>11

\* The same on the paths of the folder alone, where Ancestors is the strict order.
LEMMA Tree ==
  /\ \A p, q \in Paths : q \in Ancestors(p) <=> (Under(p, q) /\ p # q)
  /\ \A p \in Paths : Under(p, p) /\ ~Under(<<>>, p)
  /\ \A p, q, r \in Paths : Under(p, q) /\ Under(q, r) => Under(p, r)
  /\ \A p, q \in Paths : Under(p, q) /\ Under(q, p) => p = q
  /\ \A p, q, r \in Paths : Under(p, q) /\ Under(p, r) => Under(q, r) \/ Under(r, q)
  /\ \A p \in Paths : Ancestors(p) \subseteq Paths
<1>1. /\ Paths \subseteq Seq(Names) /\ <<>> \in Seq(Names) /\ Len(<<>>) = 0
      /\ \A p \in Seq(Names) : Len(p) \in Nat
      /\ \A p \in Paths : Len(p) > 0
  BY PathsAreSequences DEF Anywhere
<1>2. \A p, q \in Paths : q \in Ancestors(p) <=> (Under(p, q) /\ p # q)
  BY DEF Ancestors, IsStrictPrefix, Under
<1>3. ASSUME NEW p \in Paths, NEW q \in Paths, Under(p, q), Under(q, p)
      PROVE  p = q
  <2>1. Len(p) <= Len(q) /\ Len(q) <= Len(p) /\ Len(p) \in Nat /\ Len(q) \in Nat
    BY <1>1, <1>3, UnderOrder
  <2> QED
    BY <1>1, <1>3, <2>1, UnderOrder
<1>4. ASSUME NEW p \in Paths PROVE ~Under(<<>>, p)
  <2>1. Under(<<>>, p) => Len(p) <= 0
    BY <1>1, UnderOrder
  <2>2. Len(p) \in Nat /\ Len(p) > 0
    BY <1>1
  <2> QED
    BY <2>1, <2>2
<1>5. \A p \in Paths : Under(p, p)
  BY <1>1, UnderOrder
<1>6. \A p, q, r \in Paths : Under(p, q) /\ Under(q, r) => Under(p, r)
  BY <1>1, UnderOrder
<1>7. \A p, q, r \in Paths : Under(p, q) /\ Under(p, r) => Under(q, r) \/ Under(r, q)
  BY <1>1, UnderOrder
<1>8. \A p \in Paths : Ancestors(p) \subseteq Paths
  BY DEF Ancestors
<1> QED
  BY <1>2, <1>3, <1>4, <1>5, <1>6, <1>7, <1>8

\* The temp dirs are siblings of Tasty.
LEMMA Siblings ==
  /\ Tasty \in Paths /\ IsPreserved(Tasty)
  /\ Parent(Tasty) \in Ancestors(Tasty)
  /\ \A t \in Tmps :
       /\ t \in Paths /\ ~IsPreserved(t) /\ Len(t) = Len(Tasty)
       /\ Ancestors(t) = Ancestors(Tasty)
       /\ ~Under(t, Tasty) /\ ~Under(Tasty, t)
<1>1. Tasty \in Paths /\ IsPreserved(Tasty)
  BY CommitAssumption, Tree DEF IsPreserved
<1>2. Parent(Tasty) \in Ancestors(Tasty)
  BY <1>1, ParentIs, CommitAssumption DEF Ancestors, Anywhere
<1>3. ASSUME NEW t \in Tmps
      PROVE  /\ t \in Paths /\ ~IsPreserved(t) /\ Len(t) = Len(Tasty)
             /\ Ancestors(t) = Ancestors(Tasty)
             /\ ~Under(t, Tasty) /\ ~Under(Tasty, t)
  <2>1. t \in Paths /\ ~IsPreserved(t) /\ Parent(t) = Parent(Tasty)
    BY CommitAssumption
  <2>2. Len(t) \in Nat /\ Len(Tasty) \in Nat /\ Len(t) - 1 = Len(Tasty) - 1
    <3>1. Len(Parent(t)) = Len(t) - 1 /\ Len(Parent(Tasty)) = Len(Tasty) - 1
      BY <1>1, <2>1, ParentIs
    <3>2. Len(t) \in Nat /\ Len(Tasty) \in Nat
      BY <1>1, <2>1, PathsAreSequences DEF Anywhere
    <3> QED
      BY <2>1, <3>1, <3>2
  <2>3. Len(t) = Len(Tasty)
    BY <2>2
  <2>4. ASSUME NEW q \in Paths PROVE q \in Ancestors(t) <=> q \in Ancestors(Tasty)
    <3>1. IsStrictPrefix(q, t) <=> Under(Parent(t), q)
      BY <2>1, ParentIs DEF Anywhere
    <3>2. IsStrictPrefix(q, Tasty) <=> Under(Parent(Tasty), q)
      BY <1>1, ParentIs DEF Anywhere
    <3> QED
      BY <2>1, <3>1, <3>2 DEF Ancestors
  <2>5. Ancestors(t) = Ancestors(Tasty)
    BY <2>4 DEF Ancestors
  <2>6. t # Tasty
    BY <1>1, <2>1
  <2>7. t \in Seq(Names) /\ Tasty \in Seq(Names)
    BY <1>1, <2>1, PathsAreSequences DEF Anywhere
  <2>8. ~Under(t, Tasty) /\ ~Under(Tasty, t)
    BY <2>3, <2>6, <2>7, UnderOrder
  <2> QED
    BY <2>1, <2>3, <2>5, <2>8
<1> QED
  BY <1>1, <1>2, <1>3

\* The files of a build.
LEMMA ChunkPaths ==
  ASSUME NEW t \in Tmps \cup {Tasty}, NEW c \in Chunks
  PROVE  /\ Append(t, c) \in Paths /\ Under(Append(t, c), t) /\ Append(t, c) # t
         /\ Len(Append(t, c)) = Len(t) + 1
         /\ Ancestors(Append(t, c)) = Ancestors(t) \cup {t}
         /\ \A d \in Chunks : Append(t, c) = Append(t, d) => c = d
         /\ \A i \in 1 .. Len(t) : Append(t, c)[i] = t[i]
         /\ Append(t, c)[Len(t) + 1] = c
<1> DEFINE S == Names \cup Chunks
           a == Append(t, c)
<1>1. t \in Paths /\ a \in Paths
  BY Siblings, CommitAssumption
<1>2. t \in Seq(Names) /\ a \in Seq(Names) /\ Len(t) \in Nat
  BY <1>1, PathsAreSequences DEF Anywhere
<1>3. t \in Seq(S)
  BY <1>2, SeqMonotonic
<1>4. \A d \in Chunks : /\ Len(Append(t, d)) = Len(t) + 1
                        /\ \A i \in 1 .. Len(t) : Append(t, d)[i] = t[i]
                        /\ Append(t, d)[Len(t) + 1] = d
  BY <1>3, AppendProperties
<1>5. \A d \in Chunks : a = Append(t, d) => c = d
  BY <1>4
<1>6. Len(a) = Len(t) + 1 /\ \A i \in 1 .. Len(t) : a[i] = t[i]
  BY <1>4
<1>7. a[Len(t) + 1] = c
  BY <1>4
<1> HIDE DEF a
<1>8. Under(a, t)
  <2>1. Len(t) <= Len(a)
    BY <1>2, <1>6
  <2> QED
    BY <1>2, <1>6, <2>1, UnderIs
<1>9. a # t
  BY <1>2, <1>6
<1>10. ASSUME NEW q \in Paths PROVE q \in Ancestors(a) <=> q \in Ancestors(t) \cup {t}
  <2>1. ASSUME q \in Ancestors(a) PROVE Under(t, q)
    <3>1. Under(a, q) /\ q # a
      BY <1>1, <2>1, Tree
    <3>2. q \in Seq(Names) /\ Len(q) \in Nat
      BY PathsAreSequences DEF Anywhere
    <3>3. Len(q) <= Len(a) /\ Len(q) # Len(a)
      BY <1>2, <3>1, <3>2, UnderOrder
    <3>4. Len(q) <= Len(t)
      BY <1>2, <1>6, <3>2, <3>3
    <3> QED
      BY <1>2, <1>8, <3>1, <3>2, <3>4, UnderOrder
  <2>2. ASSUME Under(t, q) PROVE Under(a, q) /\ q # a
    BY <1>1, <1>8, <1>9, <2>2, Tree
  <2> QED
    BY <1>1, <2>1, <2>2, Tree
<1>11. Ancestors(a) = Ancestors(t) \cup {t}
  BY <1>1, <1>10, Tree
<1> QED
  BY <1>1, <1>5, <1>6, <1>7, <1>8, <1>9, <1>11 DEF a

\* Where the rename takes what it moves to Tasty from.
From(t, p) == t \o SubSeq(p, Len(Tasty) + 1, Len(p))

LEMMA FromIs ==
  ASSUME NEW t \in Tmps, NEW p \in Paths, Under(p, Tasty)
  PROVE  /\ From(t, p) \in Paths /\ Len(From(t, p)) = Len(p)
         /\ \A i \in 1 .. Len(p) : From(t, p)[i] = IF i <= Len(Tasty) THEN t[i] ELSE p[i]
<1> DEFINE k == Len(Tasty)
           n == Len(p)
           s == SubSeq(p, k + 1, n)
<1>1. /\ From(t, p) \in Paths
      /\ t \in Paths /\ Tasty \in Paths /\ Len(t) = k
  BY Siblings, CommitAssumption DEF From
<1>2. /\ t \in Seq(Names) /\ p \in Seq(Names) /\ Tasty \in Seq(Names)
      /\ k \in Nat /\ n \in Nat /\ k <= n
  BY <1>1, PathsAreSequences, UnderOrder DEF Anywhere
<1>3. \A i \in k + 1 .. n : p[i] \in Names
  <2>1. \A i \in k + 1 .. n : i \in 1 .. n
    BY <1>2
  <2> QED
    BY <1>2, <2>1, ElementOfSeq
<1>4. /\ s \in Seq(Names) /\ Len(s) = (IF k + 1 <= n THEN n - (k + 1) + 1 ELSE 0)
      /\ \A i \in 1 .. n - (k + 1) + 1 : s[i] = p[k + 1 + i - 1]
  <2>1. k + 1 \in Int /\ n \in Int
    BY <1>2
  <2> QED
    BY <1>3, <2>1, SubSeqProperties
<1> HIDE DEF s, k, n
<1>5. Len(s) = n - k
  BY <1>2, <1>4
<1>6. \A i \in 1 .. n - k : s[i] = p[k + i]
  <2> SUFFICES ASSUME NEW i \in 1 .. n - k PROVE s[i] = p[k + i]
    OBVIOUS
  <2>1. i \in 1 .. n - (k + 1) + 1 /\ k + 1 + i - 1 = k + i
    BY <1>2
  <2> QED
    BY <1>4, <2>1
<1>7. /\ Len(t \o s) = Len(t) + Len(s)
      /\ \A i \in 1 .. Len(t) + Len(s) : (t \o s)[i] = IF i <= Len(t) THEN t[i] ELSE s[i - Len(t)]
  BY <1>2, <1>4, ConcatProperties
<1>8. Len(t) = k /\ From(t, p) = t \o s
  BY <1>1 DEF From, k, s, n
<1>9. Len(From(t, p)) = n
  BY <1>2, <1>5, <1>7, <1>8
<1>10. ASSUME NEW i \in 1 .. n
       PROVE  From(t, p)[i] = IF i <= k THEN t[i] ELSE p[i]
  <2>1. i \in 1 .. Len(t) + Len(s)
    BY <1>2, <1>5, <1>8
  <2>2. CASE i <= k
    BY <1>7, <1>8, <2>1, <2>2
  <2>3. CASE ~(i <= k)
    <3>1. i - k \in 1 .. n - k /\ k + (i - k) = i
      BY <1>2, <2>3
    <3> QED
      BY <1>6, <1>7, <1>8, <2>1, <2>3, <3>1
  <2> QED
    BY <2>2, <2>3
<1> QED
  BY <1>1, <1>9, <1>10 DEF n, k

LEMMA Moves ==
  ASSUME NEW t \in Tmps
  PROVE  /\ From(t, Tasty) = t
         /\ \A c \in Chunks : From(t, Append(Tasty, c)) = Append(t, c)
         /\ \A p, q \in Paths : Under(q, Tasty) /\ Under(p, q) =>
              /\ From(t, p) \in Paths /\ From(t, q) \in Paths
              /\ Under(From(t, p), From(t, q)) /\ (p # q => From(t, p) # From(t, q))
<1>1. t \in Paths /\ Tasty \in Paths /\ Len(t) = Len(Tasty) /\ Under(Tasty, Tasty)
  BY Siblings, Tree
<1>2. Paths \subseteq Seq(Names) /\ \A p \in Paths : Len(p) \in Nat
  BY PathsAreSequences DEF Anywhere
<1>3. From(t, Tasty) = t
  <2>1. /\ From(t, Tasty) \in Paths /\ Len(From(t, Tasty)) = Len(Tasty)
        /\ \A i \in 1 .. Len(Tasty) : From(t, Tasty)[i] = IF i <= Len(Tasty) THEN t[i] ELSE Tasty[i]
    BY <1>1, FromIs
  <2>2. \A i \in 1 .. Len(Tasty) : i <= Len(Tasty)
    BY <1>1, <1>2
  <2>3. \A i \in 1 .. Len(From(t, Tasty)) : From(t, Tasty)[i] = t[i]
    BY <2>1, <2>2
  <2> QED
    BY <1>1, <1>2, <2>1, <2>3, SeqEqual
<1>4. ASSUME NEW c \in Chunks PROVE From(t, Append(Tasty, c)) = Append(t, c)
  <2> DEFINE a == Append(Tasty, c)
             b == Append(t, c)
             f == From(t, a)
  <2>1. /\ a \in Paths /\ Under(a, Tasty) /\ Len(a) = Len(Tasty) + 1
        /\ a[Len(Tasty) + 1] = c
    BY ChunkPaths
  <2>2. /\ b \in Paths /\ Len(b) = Len(t) + 1
        /\ \A i \in 1 .. Len(t) : b[i] = t[i]
        /\ b[Len(t) + 1] = c
    BY ChunkPaths
  <2> HIDE DEF a, b
  <2>3. /\ f \in Paths /\ Len(f) = Len(a)
        /\ \A i \in 1 .. Len(a) : f[i] = IF i <= Len(Tasty) THEN t[i] ELSE a[i]
    BY <2>1, FromIs
  <2> HIDE DEF f
  <2>4. ASSUME NEW i \in 1 .. Len(f) PROVE f[i] = b[i]
    <3>1. CASE i <= Len(Tasty)
      <4>1. i \in 1 .. Len(t) /\ i \in 1 .. Len(a)
        BY <1>1, <1>2, <2>3, <3>1
      <4> QED
        BY <2>2, <2>3, <3>1, <4>1
    <3>2. CASE ~(i <= Len(Tasty))
      <4>1. i = Len(Tasty) + 1 /\ i \in 1 .. Len(a)
        BY <1>1, <1>2, <2>1, <2>3, <3>2
      <4> QED
        BY <1>1, <2>1, <2>2, <2>3, <3>2, <4>1
    <3> QED
      BY <3>1, <3>2
  <2>5. f \in Seq(Names) /\ b \in Seq(Names) /\ Len(f) = Len(b)
    BY <1>1, <1>2, <2>1, <2>2, <2>3
  <2>6. f = b
    BY <2>4, <2>5, SeqEqual
  <2> QED
    BY <2>6 DEF f, a, b
<1>5. ASSUME NEW p \in Paths, NEW q \in Paths, Under(q, Tasty), Under(p, q)
      PROVE  /\ From(t, p) \in Paths /\ From(t, q) \in Paths
             /\ Under(From(t, p), From(t, q)) /\ (p # q => From(t, p) # From(t, q))
  <2> DEFINE f == From(t, p)
             g == From(t, q)
  <2>1. Under(p, Tasty)
    BY <1>1, <1>5, Tree
  <2>2. /\ f \in Paths /\ Len(f) = Len(p)
        /\ \A i \in 1 .. Len(p) : f[i] = IF i <= Len(Tasty) THEN t[i] ELSE p[i]
    BY <2>1, FromIs
  <2>3. /\ g \in Paths /\ Len(g) = Len(q)
        /\ \A i \in 1 .. Len(q) : g[i] = IF i <= Len(Tasty) THEN t[i] ELSE q[i]
    BY <1>5, FromIs
  <2> HIDE DEF f, g
  <2>4. Len(q) <= Len(p) /\ \A i \in 1 .. Len(q) : q[i] = p[i]
    BY <1>2, <1>5, UnderIs
  <2>5. \A i \in 1 .. Len(q) : i \in 1 .. Len(p)
    BY <1>2, <2>4
  <2>6. \A i \in 1 .. Len(g) : g[i] = f[i]
    BY <2>2, <2>3, <2>4, <2>5
  <2>7. Len(g) <= Len(f)
    BY <2>2, <2>3, <2>4
  <2>8. Under(f, g)
    BY <1>2, <2>2, <2>3, <2>6, <2>7, UnderIs
  <2>9. ASSUME f = g PROVE p = q
    <3>1. Len(p) = Len(q)
      BY <2>2, <2>3, <2>9
    <3> QED
      BY <1>2, <1>5, <3>1, UnderOrder
  <2> QED
    BY <2>2, <2>3, <2>8, <2>9 DEF f, g
<1> QED
  BY <1>3, <1>4, <1>5

-----------------------------------------------------------------------------
(***************************************************************************)
(* Folders                                                                 *)
(***************************************************************************)
IsTree(t) == t \in [Paths -> Node] /\ WellFormed(t)

LEMMA Kinds ==
  /\ Nothing \notin Contents /\ Directory \notin Contents /\ Nothing # Directory
  /\ Built \in Contents /\ Contents \subseteq Node /\ Nothing \in Node /\ Directory \in Node
  BY CommitAssumption DEF Node

\* Above what is there, there are directories; below what is not one, nothing.
LEMMA TreeFacts ==
  ASSUME NEW t, IsTree(t), NEW p \in Paths, NEW q \in Paths, Under(p, q), p # q
  PROVE  /\ t[p] # Nothing => t[q] = Directory
         /\ t[q] # Directory => t[p] = Nothing
  BY Tree DEF IsTree, WellFormed

LEMMA WithoutIsTree ==
  ASSUME NEW t, IsTree(t), NEW r \in Paths
  PROVE  IsTree(Without(t, r))
<1> DEFINE u == Without(t, r)
<1>1. /\ u \in [Paths -> Node]
      /\ \A p \in Paths : u[p] = IF Under(p, r) THEN Nothing ELSE t[p]
  BY Kinds DEF Without, IsTree
<1>2. ASSUME NEW p \in Paths, u[p] # Nothing, NEW q \in Ancestors(p)
      PROVE  u[q] = Directory
  <2>1. q \in Paths /\ Under(p, q) /\ ~Under(p, r) /\ t[p] # Nothing
    BY <1>1, <1>2, Tree
  <2>2. ~Under(q, r)
    BY <2>1, Tree
  <2>3. t[q] = Directory
    BY <1>2, <2>1 DEF IsTree, WellFormed
  <2> QED
    BY <1>1, <2>1, <2>2, <2>3
<1> HIDE DEF u
<1>3. IsTree(u)
  BY <1>1, <1>2 DEF IsTree, WellFormed
<1> QED
  BY <1>3 DEF u

LEMMA WithDirsIsTree ==
  ASSUME NEW t, IsTree(t), NEW dirs \in SUBSET Paths,
         \A d \in dirs : Ancestors(d) \subseteq dirs
  PROVE  IsTree(WithDirs(t, dirs))
<1> DEFINE u == WithDirs(t, dirs)
<1>1. /\ u \in [Paths -> Node]
      /\ \A p \in Paths : u[p] = IF p \in dirs THEN Directory ELSE t[p]
  BY Kinds DEF WithDirs, IsTree
<1>2. ASSUME NEW p \in Paths, u[p] # Nothing, NEW q \in Ancestors(p)
      PROVE  u[q] = Directory
  <2>1. q \in Paths
    BY <1>2, Tree
  <2>2. CASE p \in dirs
    BY <1>1, <1>2, <2>1, <2>2
  <2>3. CASE p \notin dirs
    BY <1>1, <1>2, <2>1, <2>3 DEF IsTree, WellFormed
  <2> QED
    BY <2>2, <2>3
<1> HIDE DEF u
<1>3. IsTree(u)
  BY <1>1, <1>2 DEF IsTree, WellFormed
<1> QED
  BY <1>3 DEF u

\* A file comes where there is no directory, but one around it.
LEMMA PutIsTree ==
  ASSUME NEW t, IsTree(t), NEW p \in Paths, NEW v \in Contents,
         t[p] # Directory, \A q \in Ancestors(p) : t[q] = Directory
  PROVE  IsTree([t EXCEPT ![p] = v])
<1> DEFINE u == [t EXCEPT ![p] = v]
<1>1. u \in [Paths -> Node] /\ \A q \in Paths : u[q] = IF q = p THEN v ELSE t[q]
  BY Kinds DEF IsTree
<1>2. ASSUME NEW r \in Paths, u[r] # Nothing, NEW q \in Ancestors(r)
      PROVE  u[q] = Directory
  <2>1. q \in Paths /\ Under(r, q) /\ r # q
    BY <1>2, Tree
  <2>2. CASE r = p
    BY <1>1, <1>2, <2>1, <2>2
  <2>3. CASE r # p
    <3>1. t[r] # Nothing
      BY <1>1, <1>2, <2>3
    <3>2. t[q] = Directory
      BY <2>1, <3>1, TreeFacts
    <3> QED
      BY <1>1, <2>1, <3>2
  <2> QED
    BY <2>2, <2>3
<1> HIDE DEF u
<1>3. IsTree(u)
  BY <1>1, <1>2 DEF IsTree, WellFormed
<1> QED
  BY <1>3 DEF u

\* The rename of a directory t over Tasty.
Renamed(f, t) ==
  [p \in Paths |->
     IF Under(p, t) THEN Nothing
     ELSE IF Under(p, Tasty) THEN f[From(t, p)]
     ELSE f[p]]

LEMMA RenamedIsTree ==
  ASSUME NEW f, IsTree(f), NEW t \in Tmps, f[t] = Directory
  PROVE  IsTree(Renamed(f, t))
<1> DEFINE u == Renamed(f, t)
<1>0. Tasty \in Paths /\ t \in Paths /\ Ancestors(t) = Ancestors(Tasty)
      /\ ~Under(t, Tasty) /\ ~Under(Tasty, t) /\ Under(Tasty, Tasty)
  BY Siblings, Tree
<1>1. \A p \in Paths : Under(p, Tasty) => From(t, p) \in Paths
  BY FromIs
<1>2. /\ u \in [Paths -> Node]
      /\ \A p \in Paths : u[p] = IF Under(p, t) THEN Nothing
                                 ELSE IF Under(p, Tasty) THEN f[From(t, p)] ELSE f[p]
  BY <1>1, Kinds DEF Renamed, IsTree
<1> HIDE DEF u
<1>3. ASSUME NEW p \in Paths, u[p] # Nothing, NEW q \in Ancestors(p)
      PROVE  u[q] = Directory
  <2>1. q \in Paths /\ Under(p, q) /\ p # q /\ ~Under(p, t)
    BY <1>2, <1>3, Tree
  <2>2. ~Under(q, t)
    BY <1>0, <2>1, Tree
  <2>3. CASE Under(q, Tasty)
    <3>1. Under(p, Tasty)
      BY <1>0, <2>1, <2>3, Tree
    <3>2. /\ From(t, p) \in Paths /\ From(t, q) \in Paths
          /\ Under(From(t, p), From(t, q)) /\ From(t, p) # From(t, q)
      BY <2>1, <2>3, Moves
    <3>3. f[From(t, p)] # Nothing
      BY <1>2, <1>3, <2>1, <3>1
    <3>4. f[From(t, q)] = Directory
      BY <3>2, <3>3, TreeFacts
    <3> QED
      BY <1>2, <2>1, <2>2, <2>3, <3>4
  <2>4. CASE ~Under(q, Tasty) /\ Under(p, Tasty)
    <3>1. Under(Tasty, q) /\ q # Tasty
      BY <1>0, <2>1, <2>4, Tree
    <3>2. q \in Ancestors(t)
      BY <1>0, <2>1, <3>1, Tree
    <3>3. f[q] = Directory
      BY <1>0, <3>2, Kinds DEF IsTree, WellFormed
    <3> QED
      BY <1>2, <2>1, <2>2, <2>4, <3>3
  <2>5. CASE ~Under(q, Tasty) /\ ~Under(p, Tasty)
    <3>1. f[p] # Nothing
      BY <1>2, <1>3, <2>1, <2>5
    <3>2. f[q] = Directory
      BY <2>1, <3>1, TreeFacts
    <3> QED
      BY <1>2, <2>1, <2>2, <2>5, <3>2
  <2> QED
    BY <2>3, <2>4, <2>5
<1>4. IsTree(u)
  BY <1>2, <1>3 DEF IsTree, WellFormed
<1> QED
  BY <1>4 DEF u

-----------------------------------------------------------------------------
\* Whose a path is.
LEMMA Whose ==
  /\ \A p, q \in Paths : Under(p, q) /\ IsPreserved(q) => IsPreserved(p)
  /\ \A p \in Paths : Ours(p) => /\ Swept(p)
                                 /\ \A q \in Preserved \cup Tmps : p \notin Ancestors(q)
  /\ \A p \in Paths : Swept(p) => ~Under(p, Tasty) /\ \A t \in Tmps : ~Under(p, t)
  /\ \A p \in Ancestors(Tasty) : Swept(p) /\ ~Ours(p)
<1>1. ASSUME NEW p \in Paths, NEW q \in Paths, Under(p, q), IsPreserved(q)
      PROVE  IsPreserved(p)
  <2>1. PICK r \in Preserved : Under(q, r)
    BY <1>1 DEF IsPreserved
  <2>2. r \in Paths
    BY CommitAssumption
  <2> QED
    BY <1>1, <2>1, <2>2, Tree DEF IsPreserved
<1>2. ASSUME NEW p \in Paths, Ours(p)
      PROVE  Swept(p) /\ \A q \in Preserved \cup Tmps : p \notin Ancestors(q)
  <2>1. \A q \in Preserved : p \notin Ancestors(q)
    BY <1>2 DEF Ours
  <2>2. Tasty \in Preserved
    BY CommitAssumption
  <2>3. \A t \in Tmps : p \notin Ancestors(t)
    BY <2>1, <2>2, Siblings
  <2> QED
    BY <1>2, <2>1, <2>3 DEF Ours, Swept
<1>3. \A p \in Paths : Swept(p) => ~Under(p, Tasty) /\ \A t \in Tmps : ~Under(p, t)
  BY <1>1, Siblings DEF Swept
<1>4. ASSUME NEW p \in Ancestors(Tasty)
      PROVE  Swept(p) /\ ~Ours(p)
  <2>1. p \in Paths /\ Under(Tasty, p) /\ p # Tasty
    BY Siblings, Tree
  <2>2. ~Ours(p)
    BY <2>1, CommitAssumption DEF Ours
  <2>3. \A t \in Tmps : ~Under(p, t)
    BY <2>1, Siblings, Tree
  <2>4. ASSUME IsPreserved(p) PROVE FALSE
    <3>1. PICK t \in Tmps : TRUE
      BY CommitAssumption
    <3>2. t \in Paths /\ ~IsPreserved(t) /\ p \in Ancestors(t)
      BY <3>1, Siblings
    <3>3. Under(t, p)
      BY <2>1, <3>2, Tree
    <3> QED
      BY <1>1, <2>1, <2>4, <3>2, <3>3
  <2> QED
    BY <2>2, <2>3, <2>4 DEF Swept
<1> QED
  BY <1>1, <1>2, <1>3, <1>4

\* What a compile generates is ours.
LEMMA OutputIs ==
  ASSUME NEW out \in Outputs \cup {Empty}, NEW p \in DOMAIN out
  PROVE  /\ p \in Paths /\ out[p] \in Contents /\ Ours(p)
         /\ \A q \in DOMAIN out : p \notin Ancestors(q)
<1>1. out \in Outputs
  BY DEF Empty
<1>2. /\ p \in Paths /\ out[p] \in Contents /\ ~IsPreserved(p)
      /\ \A q \in Preserved \cup Tmps \cup DOMAIN out : ~IsStrictPrefix(p, q)
      /\ \A t \in Tmps : ~Under(p, t)
  BY <1>1, CommitAssumption
<1> QED
  BY <1>2 DEF Ours, Ancestors

\* A path that is ours has none of theirs above or below it.
LEMMA Apart ==
  ASSUME NEW p \in Paths, Ours(p), NEW t \in Tmps \cup {Tasty}
  PROVE  /\ ~Under(p, t) /\ ~Under(t, p)
         /\ \A q \in Paths : Under(q, t) => ~Under(q, p)
         /\ \A q \in Ancestors(t) : ~Under(q, p)
<1>1. t \in Paths /\ Tasty \in Preserved
  BY Siblings, CommitAssumption
<1>2. ~Under(p, t) /\ p \notin Ancestors(t)
  BY <1>1, Whose
<1>3. ~Under(t, p)
  BY <1>1, <1>2, Tree
<1> QED
  BY <1>1, <1>2, <1>3, Tree

-----------------------------------------------------------------------------
(***************************************************************************)
(* The invariant, operation by operation                                   *)
(***************************************************************************)
LEMMA EmptyIs == DOMAIN Empty = {} /\ Empty \in Outputs \cup {Empty}
  BY DEF Empty

LEMMA LiveIsTree ==
  ASSUME Inv PROVE IsTree(live)
  BY DEF Inv, Typed, IsTree

\* What the writer leaves in the folder keeps its part of the invariant as long
\* as nobody touches it.
LEMMA WritingStays ==
  ASSUME Inv, UNCHANGED <<wstep, wtmp, wleft, cached, swept>>,
         \A t \in Tmps \cup {Tasty} : \A p \in Paths : Under(p, t) => live'[p] = live[p]
  PROVE  Writing'
<1>1. wtmp \in Tmps \cup {Tasty} /\ Manifest \in Chunks
  BY CommitAssumption DEF Inv, Typed
<1>2. \A t \in Tmps \cup {Tasty} : t \in Paths /\ Under(t, t)
  BY Siblings, Tree
<1>3. live'[wtmp] = live[wtmp]
  BY <1>1, <1>2
<1>4. \A t \in Tmps \cup {Tasty} : \A c \in Chunks :
        Append(t, c) \in Paths /\ Under(Append(t, c), t)
  BY ChunkPaths
<1>5. \A t \in Tmps \cup {Tasty} : \A c \in Chunks : live'[Append(t, c)] = live[Append(t, c)]
  BY <1>4
<1>6. live'[Append(Tasty, Manifest)] = live[Append(Tasty, Manifest)]
  BY <1>1, <1>5
<1>7. \A c \in wleft : live'[Append(wtmp, c)] = live[Append(wtmp, c)]
  BY <1>1, <1>5 DEF Inv, Typed
<1>8. TmpWhole' <=> TmpWhole
  BY <1>1, <1>5 DEF TmpWhole
<1>9. TastyWhole' <=> TastyWhole
  BY <1>5 DEF TastyWhole
<1> QED
  BY <1>3, <1>6, <1>7, <1>8, <1>9 DEF Inv, Writing

LEMMA BeginKeeps == ASSUME Inv, Begin PROVE Inv'
<1>1. Writing'
  BY WritingStays DEF Begin, writerVars
<1>2. Typed' /\ WellFormed(live')
  BY EmptyIs, CommitAssumption DEF Inv, Typed, Begin, writerVars, staleVars
<1>3. Placed'
  BY DEF Inv, Placed, Begin, writerVars, staleVars, Committing
<1>4. Assembled' /\ Committed' /\ Listed' /\ Mirrored' /\ Roofed'
  BY EmptyIs DEF Inv, Begin, Placed, Assembled, Committed, Listed, Mirrored, Roofed, writerVars,
                 staleVars, Committing
<1>5. MirrorsOutput' /\ FailedKeepsLastGood' /\ OldFilesStay'
  BY DEF Begin, MirrorsOutput, FailedKeepsLastGood, OldFilesStay
<1> QED
  BY <1>1, <1>2, <1>3, <1>4, <1>5 DEF Inv

LEMMA AssembleKeeps ==
  ASSUME Inv, NEW p \in Paths, AssembleFile(p) PROVE Inv'
<1>1. Writing'
  BY WritingStays DEF AssembleFile, writerVars
<1>2. Typed' /\ WellFormed(live')
  <2>1. want[p] \in Contents
    BY OutputIs DEF Inv, Typed, AssembleFile
  <2>2. DOMAIN stage' = DOMAIN stage \cup {p} /\ \A q \in DOMAIN stage' : stage'[q] \in Contents
    BY <2>1 DEF Inv, Typed, AssembleFile
  <2>3. DOMAIN stage' \subseteq Paths
    BY <2>2 DEF Inv, Typed
  <2>4. UNCHANGED <<live, want, prior, pc, outcome, syncs, todo, staged, at, walk, victims,
                    wstep, wtmp, wleft, cached, swept, landed, crashes>>
    BY DEF AssembleFile, writerVars, staleVars, commitVars
  <2> QED
    BY <2>2, <2>3, <2>4 DEF Inv, Typed
<1>3. Placed'
  BY DEF Inv, Placed, AssembleFile, writerVars, staleVars, commitVars, Committing
<1>4. Assembled' /\ Committed' /\ Listed' /\ Mirrored' /\ Roofed'
  BY DEF Inv, AssembleFile, Placed, Assembled, Committed, Listed, Mirrored, Roofed, writerVars,
         staleVars, commitVars, Committing
<1>5. MirrorsOutput' /\ FailedKeepsLastGood' /\ OldFilesStay'
  BY DEF Inv, AssembleFile, MirrorsOutput, FailedKeepsLastGood, OldFilesStay, commitVars
<1> QED
  BY <1>1, <1>2, <1>3, <1>4, <1>5 DEF Inv

LEMMA FailKeeps == ASSUME Inv, FailSync PROVE Inv'
<1>1. Writing'
  BY WritingStays DEF FailSync, writerVars
<1>2. Typed' /\ WellFormed(live')
  BY EmptyIs DEF Inv, Typed, FailSync, writerVars, staleVars, commitVars
<1>3. Placed'
  BY DEF Inv, Placed, FailSync, writerVars, staleVars, commitVars, Committing
<1>4. Assembled' /\ Committed' /\ Listed' /\ Mirrored' /\ Roofed'
  BY DEF Inv, FailSync, Placed, Assembled, Committed, Listed, Mirrored, Roofed, writerVars,
         staleVars, commitVars, Committing
<1>5. MirrorsOutput' /\ FailedKeepsLastGood' /\ OldFilesStay'
  BY DEF Inv, FailSync, Assembled, MirrorsOutput, FailedKeepsLastGood, OldFilesStay
<1> QED
  BY <1>1, <1>2, <1>3, <1>4, <1>5 DEF Inv

LEMMA CollectKeeps == ASSUME Inv, CollectStage PROVE Inv'
<1>1. Writing'
  BY WritingStays DEF CollectStage, writerVars
<1>2. DOMAIN stage = DOMAIN want /\ \A p \in DOMAIN want : stage[p] = want[p]
  BY DEF Inv, CollectStage, Staged, Assembled
<1>3. at = <<>> /\ outcome = "none" /\ walk = {} /\ victims = {}
  BY DEF Inv, Placed, CollectStage
<1>4. Typed' /\ WellFormed(live')
  BY <1>3 DEF Inv, Typed, CollectStage, writerVars, staleVars
<1>5. Placed'
  BY <1>3 DEF Inv, Placed, CollectStage, writerVars, staleVars, Committing
<1>6. Assembled' /\ Committed' /\ Listed' /\ Mirrored' /\ Roofed'
  BY <1>2, <1>3 DEF Inv, CollectStage, Assembled, Committed, Listed, Mirrored, Roofed, writerVars,
                    staleVars, Committing
<1>7. MirrorsOutput' /\ FailedKeepsLastGood'
  BY <1>3 DEF CollectStage, MirrorsOutput, FailedKeepsLastGood
<1>8. OldFilesStay'
  BY DEF Inv, Assembled, CollectStage, OldFilesStay
<1> QED
  BY <1>1, <1>4, <1>5, <1>6, <1>7, <1>8 DEF Inv

LEMMA SkipKeeps ==
  ASSUME Inv, NEW p \in Paths, CommitSkip(p) PROVE Inv'
<1>1. Writing'
  BY WritingStays DEF CommitSkip, writerVars
<1>2. pc = "commit" /\ p \in todo /\ at = <<>> /\ outcome = "none" /\ live[p] = want[p]
  BY DEF Inv, Placed, Committed, Committing, CommitSkip, NextFile
<1>3. Typed' /\ WellFormed(live')
  BY <1>2 DEF Inv, Typed, CommitSkip, writerVars, staleVars, syncVars
<1>4. Placed'
  BY <1>2 DEF Inv, Placed, CommitSkip, writerVars, staleVars, syncVars, Committing
<1>5. Assembled' /\ Committed' /\ Listed' /\ Mirrored' /\ Roofed'
  BY <1>2 DEF Inv, CommitSkip, Assembled, Committed, Listed, Mirrored, Roofed, writerVars,
              staleVars, syncVars, Committing
<1>6. MirrorsOutput' /\ FailedKeepsLastGood'
  BY <1>2 DEF CommitSkip, syncVars, MirrorsOutput, FailedKeepsLastGood
<1>7. OldFilesStay'
  BY <1>2 DEF Inv, CommitSkip, syncVars, OldFilesStay
<1> QED
  BY <1>1, <1>3, <1>4, <1>5, <1>6, <1>7 DEF Inv

LEMMA ThrowKeeps ==
  ASSUME Inv, NEW p \in Paths, CommitThrows(p) PROVE Inv'
<1>1. Writing'
  BY WritingStays DEF CommitThrows
<1>2. pc = "commit" /\ at = <<>> /\ walk = {} /\ victims = {}
  BY DEF Inv, Placed, CommitThrows, NextFile
<1>3. Typed' /\ WellFormed(live')
  BY <1>2, EmptyIs DEF Inv, Typed, CommitThrows, staleVars
<1>4. Placed'
  BY <1>2 DEF Inv, Placed, CommitThrows, staleVars, Committing
<1>5. Assembled' /\ Committed' /\ Listed' /\ Mirrored' /\ Roofed'
  BY <1>2 DEF Inv, CommitThrows, Assembled, Committed, Listed, Mirrored, Roofed, staleVars, Committing
<1>6. MirrorsOutput' /\ FailedKeepsLastGood' /\ OldFilesStay'
  BY DEF CommitThrows, MirrorsOutput, FailedKeepsLastGood, OldFilesStay
<1> QED
  BY <1>1, <1>3, <1>4, <1>5, <1>6 DEF Inv

LEMMA BeginStaleKeeps == ASSUME Inv, BeginStale PROVE Inv'
<1>1. Writing'
  BY WritingStays DEF BeginStale, writerVars
<1>2. pc = "commit" /\ at = <<>> /\ todo = {} /\ outcome = "none" /\ victims = {}
  BY DEF Inv, Placed, BeginStale
<1>3. Typed' /\ WellFormed(live')
  BY <1>2 DEF Inv, Typed, BeginStale, writerVars, commitVars
<1>4. Placed'
  BY <1>2 DEF Inv, Placed, BeginStale, writerVars, commitVars, Committing
<1>5. Listed'
  <2>1. \A q \in Paths : IsStrictPrefix(<<>>, q)
    BY PathsAreSequences, UnderOrder DEF IsStrictPrefix, Under, Anywhere
  <2> QED
    BY <1>2, <2>1 DEF BeginStale, Listed
<1>6. Assembled' /\ Committed' /\ Mirrored' /\ Roofed'
  BY <1>2 DEF Inv, BeginStale, Assembled, Committed, Mirrored, Roofed, writerVars, commitVars, Committing
<1>7. MirrorsOutput' /\ FailedKeepsLastGood'
  BY <1>2 DEF BeginStale, MirrorsOutput, FailedKeepsLastGood
<1>8. OldFilesStay'
  BY <1>2 DEF Inv, BeginStale, commitVars, OldFilesStay
<1> QED
  BY <1>1, <1>3, <1>4, <1>5, <1>6, <1>7, <1>8 DEF Inv

LEMMA ListDirKeeps ==
  ASSUME Inv, NEW d \in Paths \cup {<<>>}, ListDir(d) PROVE Inv'
<1>1. Writing'
  BY WritingStays DEF ListDir, writerVars
<1>2. pc = "stale" /\ d \in walk /\ todo = {} /\ at = <<>> /\ outcome = "none"
  BY DEF Inv, Placed, ListDir
<1>3. \A p \in Entries(live, d) : p \in Paths /\ Parent(p) = d
  BY DEF Entries
<1>4. Typed' /\ WellFormed(live')
  BY <1>2, <1>3 DEF Inv, Typed, ListDir, writerVars, commitVars, syncVars
<1>5. Placed'
  BY <1>2 DEF Inv, Placed, ListDir, writerVars, commitVars, syncVars, Committing
<1>6. staged = DOMAIN want /\ \A q \in DOMAIN want : q \in Paths /\ live[q] \in Contents
  BY <1>2, OutputIs DEF Inv, Typed, Committed, Committing
<1>7. Listed'
  <2>1. ASSUME NEW p \in Entries(live, d), IsFile(live, p), p \notin staged, ~IsPreserved(p),
               NEW q \in DOMAIN want, Under(q, p)
        PROVE  FALSE
    <3>1. p \in Paths /\ q \in Paths /\ p # q /\ live[q] # Nothing /\ live[p] # Directory
      BY <1>3, <1>6, <2>1, Kinds DEF IsFile
    <3> QED
      BY <2>1, <3>1, TreeFacts, LiveIsTree
  <2>2. ASSUME NEW p \in victims'
        PROVE  /\ ~IsPreserved(p) /\ live[p] # Directory
               /\ landed \in {"nothing", "mkdtemp", "chunks"} => IsFile(live, p)
               /\ \A q \in DOMAIN want : ~Under(q, p)
    <3>1. CASE p \in victims
      BY <1>2, <3>1 DEF Inv, Listed
    <3>2. CASE p \notin victims
      <4>1. p \in Entries(live, d) /\ IsFile(live, p) /\ p \notin staged /\ ~IsPreserved(p)
        BY <2>2, <3>2 DEF ListDir
      <4> QED
        BY <2>1, <4>1, Kinds DEF IsFile
    <3> QED
      BY <3>1, <3>2
  <2>3. ASSUME NEW p \in Paths \ DOMAIN want, Swept(p), IsFile(live, p),
               p \notin victims'
        PROVE  \E e \in walk' : IsStrictPrefix(e, p)
    <3>1. p \notin victims
      BY <2>3 DEF ListDir
    <3>2. PICK e \in walk : IsStrictPrefix(e, p)
      BY <1>2, <2>3, <3>1 DEF Inv, Listed
    <3>3. CASE e # d
      BY <3>2, <3>3 DEF ListDir
    <3>4. CASE e = d
      <4>1. d \in Anywhere
        BY DEF Anywhere
      <4>2. PICK f \in Paths : Parent(f) = d /\ Under(p, f)
        BY <3>2, <3>4, <4>1, WayDown
      <4>3. CASE f = p
        <5>1. p \in Entries(live, d) /\ ~IsPreserved(p) /\ p \notin staged
          BY <1>6, <2>3, <4>2, <4>3, Kinds DEF Entries, IsFile, Swept
        <5> QED
          BY <2>3, <5>1 DEF ListDir
      <4>4. CASE f # p
        <5>1. live[f] = Directory
          BY <2>3, <4>2, <4>4, TreeFacts, LiveIsTree, Kinds DEF IsFile
        <5>2. f \in walk'
          BY <4>2, <5>1, Kinds DEF Entries, ListDir
        <5> QED
          BY <4>2, <4>4, <5>2 DEF IsStrictPrefix, Under
      <4> QED
        BY <4>3, <4>4
    <3> QED
      BY <3>3, <3>4
  <2>4. live' = live /\ want' = want /\ landed' = landed
    BY DEF ListDir, syncVars, writerVars
  <2> QED
    BY <2>2, <2>3, <2>4 DEF Listed
<1>8. Assembled' /\ Committed' /\ Mirrored' /\ Roofed'
  BY <1>2 DEF Inv, ListDir, Assembled, Committed, Mirrored, Roofed, writerVars, commitVars, syncVars,
              Committing
<1>9. MirrorsOutput' /\ FailedKeepsLastGood'
  BY <1>2 DEF ListDir, syncVars, MirrorsOutput, FailedKeepsLastGood
<1>10. OldFilesStay'
  BY DEF Inv, ListDir, commitVars, syncVars, OldFilesStay
<1> QED
  BY <1>1, <1>4, <1>5, <1>7, <1>8, <1>9, <1>10 DEF Inv

LEMMA FinishKeeps == ASSUME Inv, Finish PROVE Inv'
<1>1. pc = "drop" /\ todo = {} /\ at = <<>> /\ walk = {} /\ victims = {} /\ live' = live
  BY DEF Inv, Placed, Finish
<1>2. Writing'
  <2>1. CASE wstep' = wstep
    BY <2>1, WritingStays DEF Finish
  <2>2. CASE wstep' # wstep
    BY <1>1, <2>2 DEF Inv, Writing, Finish
  <2> QED
    BY <2>1, <2>2
<1>3. Typed' /\ WellFormed(live')
  BY <1>1, EmptyIs DEF Inv, Typed, Finish, commitVars, staleVars
<1>4. Placed'
  BY <1>1 DEF Inv, Placed, Finish, commitVars, staleVars, Committing
<1>5. Assembled' /\ Committed' /\ Listed' /\ Mirrored'
  BY <1>1 DEF Finish, Assembled, Committed, Listed, Mirrored, commitVars, Committing
<1>6. Roofed'
  BY <1>1 DEF Inv, Roofed, Finish
<1>7. MirrorsOutput'
  BY <1>1 DEF Inv, Mirrored, MirrorsOutput, Finish
<1>8. FailedKeepsLastGood' /\ OldFilesStay'
  BY DEF Finish, FailedKeepsLastGood, OldFilesStay
<1> QED
  BY <1>2, <1>3, <1>4, <1>5, <1>6, <1>7, <1>8 DEF Inv

LEMMA ReadyKeeps == ASSUME Inv, TastyReady PROVE Inv'
<1>1. Writing'
  <2>1. ~cached /\ (swept \/ TastyWhole)
    BY DEF Inv, Writing, TastyReady
  <2>2. live' = live /\ swept' = swept /\ wstep' = "idle"
        /\ (cached' => live[Append(Tasty, Manifest)] # Nothing)
    BY <2>1 DEF TastyReady
  <2>3. TastyWhole' <=> TastyWhole
    BY <2>2 DEF TastyWhole
  <2> QED
    BY <2>1, <2>2, <2>3 DEF Writing
<1>2. pc \in {"idle", "assemble"}
  BY DEF Inv, Typed, TastyReady, Committing
<1>3. Typed' /\ WellFormed(live')
  BY DEF Inv, Typed, TastyReady, syncVars, commitVars, staleVars
<1>4. Placed' /\ Assembled' /\ Committed' /\ Listed' /\ Mirrored' /\ Roofed'
  BY <1>2 DEF Inv, Placed, Assembled, Committed, Listed, Mirrored, Roofed, TastyReady,
              syncVars, commitVars, staleVars, Committing
<1>5. MirrorsOutput' /\ FailedKeepsLastGood' /\ OldFilesStay'
  BY DEF Inv, MirrorsOutput, FailedKeepsLastGood, OldFilesStay, TastyReady, syncVars, commitVars
<1> QED
  BY <1>1, <1>3, <1>4, <1>5 DEF Inv

LEMMA CrashKeeps == ASSUME Inv, Crash PROVE Inv'
<1>0. MaxCrashes \in Nat /\ crashes' \in 0 .. MaxCrashes
  BY CommitAssumption DEF Inv, Typed, Crash
<1>1. Typed' /\ WellFormed(live')
  BY <1>0 DEF Inv, Typed, Crash
<1>2. Placed' /\ Assembled' /\ Committed' /\ Listed' /\ Mirrored' /\ Roofed' /\ Writing'
  BY DEF Placed, Assembled, Committed, Listed, Mirrored, Roofed, Writing, Crash, Committing
<1>3. MirrorsOutput' /\ FailedKeepsLastGood' /\ OldFilesStay'
  BY DEF Inv, MirrorsOutput, FailedKeepsLastGood, OldFilesStay, Crash
<1> QED
  BY <1>1, <1>2, <1>3 DEF Inv

LEMMA StutterKeeps == ASSUME Inv, UNCHANGED vars PROVE Inv'
<1>1. Writing'
  BY WritingStays DEF vars, writerVars
<1>2. Typed' /\ WellFormed(live') /\ Placed'
  BY DEF Inv, Typed, Placed, Committing, vars, syncVars, commitVars, staleVars, writerVars
<1>3. Assembled' /\ Committed' /\ Listed' /\ Mirrored' /\ Roofed'
  BY DEF Inv, Assembled, Committed, Listed, Mirrored, Roofed, Committing,
         vars, syncVars, commitVars, staleVars, writerVars
<1>4. MirrorsOutput' /\ FailedKeepsLastGood' /\ OldFilesStay'
  BY DEF Inv, MirrorsOutput, FailedKeepsLastGood, OldFilesStay, vars, syncVars, commitVars
<1> QED
  BY <1>1, <1>2, <1>3, <1>4 DEF Inv

LEMMA ClearKeeps ==
  ASSUME Inv, NEW p \in Paths, CommitClear(p) PROVE Inv'
<1>1. pc = "commit" /\ p \in todo /\ at = <<>> /\ outcome = "none" /\ p # <<>>
  BY PathsAreSequences DEF Inv, Placed, CommitClear, NextFile
<1>2. p \in DOMAIN want /\ Ours(p) /\ staged = DOMAIN want
      /\ \A q \in DOMAIN want : q \in Paths /\ (Under(q, p) => q = p)
  <2>1. staged = DOMAIN want /\ p \in DOMAIN want
    BY <1>1 DEF Inv, Typed, Committed, Committing
  <2>2. \A q \in DOMAIN want : q \in Paths /\ Ours(q) /\ p \notin Ancestors(q)
    BY <2>1, OutputIs DEF Inv, Typed
  <2> QED
    BY <2>1, <2>2, Tree
<1>3. IsTree(live') /\ \A q \in Paths : live'[q] = IF Under(q, p) THEN Nothing ELSE live[q]
  BY WithoutIsTree, LiveIsTree DEF CommitClear, Without
<1>4. Typed' /\ WellFormed(live')
  BY <1>1, <1>3 DEF Inv, Typed, IsTree, CommitClear, writerVars, staleVars, syncVars
<1>5. Writing'
  <2>1. \A t \in Tmps \cup {Tasty} : \A q \in Paths : Under(q, t) => ~Under(q, p)
    BY <1>2, Apart
  <2> QED
    BY <1>3, <2>1, WritingStays DEF CommitClear, writerVars
<1>6. Placed' /\ Assembled' /\ Listed' /\ Mirrored'
  BY <1>1 DEF Inv, Placed, Assembled, Listed, Mirrored, CommitClear, writerVars, staleVars, syncVars,
              Committing
<1>7. Committed'
  <2>1. \A q \in staged \ todo : live'[q] = live[q]
    BY <1>1, <1>2, <1>3
  <2>2. live'[p] = Nothing
    BY <1>3, Tree
  <2> QED
    BY <1>1, <2>1, <2>2 DEF Inv, Committed, CommitClear, syncVars, Committing
<1>8. Roofed'
  <2>1. \A q \in Ancestors(Tasty) : q \in Paths
    BY Siblings, Tree
  <2> QED
    BY <1>1, <1>3, <2>1, Kinds DEF Inv, Roofed, IsFile, CommitClear, writerVars, syncVars
<1>9. MirrorsOutput' /\ FailedKeepsLastGood'
  BY <1>1 DEF CommitClear, syncVars, MirrorsOutput, FailedKeepsLastGood
<1>10. OldFilesStay'
  BY <1>1, <1>3 DEF Inv, OldFilesStay, CommitClear, syncVars
<1> QED
  BY <1>4, <1>5, <1>6, <1>7, <1>8, <1>9, <1>10 DEF Inv

LEMMA RenameKeeps ==
  ASSUME Inv, NEW p \in Paths, CommitRename(p) PROVE Inv'
<1>1. pc = "commit" /\ p \in todo /\ outcome = "none" /\ p # <<>> /\ at \in {<<>>, p}
  BY PathsAreSequences DEF Inv, Placed, CommitRename
<1>2. /\ staged = DOMAIN want /\ p \in DOMAIN want /\ p \in DOMAIN stage /\ stage[p] = want[p]
      /\ want[p] \in Contents /\ Ours(p) /\ live[p] = Nothing
      /\ \A q \in DOMAIN want : q \in Paths /\ q \notin Ancestors(p) /\ p \notin Ancestors(q)
  <2>1. staged = DOMAIN want /\ p \in DOMAIN want /\ p \in DOMAIN stage /\ stage[p] = want[p]
        /\ live[p] = Nothing
    BY <1>1 DEF Inv, Typed, Committed, Committing, CommitRename
  <2>2. want[p] \in Contents /\ Ours(p)
        /\ \A q \in DOMAIN want : q \in Paths /\ q \notin Ancestors(p) /\ p \notin Ancestors(q)
    BY <2>1, OutputIs DEF Inv, Typed
  <2> QED
    BY <2>1, <2>2
<1>3. /\ IsTree(live')
      /\ \A q \in Paths : live'[q] = IF q = p THEN want[p]
                                     ELSE IF q \in Ancestors(p) THEN Directory ELSE live[q]
  <2> DEFINE u == WithDirs(live, Ancestors(p))
  <2>1. Ancestors(p) \in SUBSET Paths /\ \A d \in Ancestors(p) : Ancestors(d) \subseteq Ancestors(p)
    BY Tree
  <2>2. IsTree(u)
    BY <2>1, WithDirsIsTree, LiveIsTree
  <2>3. \A q \in Paths : u[q] = IF q \in Ancestors(p) THEN Directory ELSE live[q]
    BY DEF WithDirs
  <2>4. live' = [u EXCEPT ![p] = want[p]]
    BY <1>2 DEF CommitRename
  <2> HIDE DEF u
  <2>5. p \notin Ancestors(p) /\ u[p] # Directory /\ \A q \in Ancestors(p) : u[q] = Directory
    BY <1>2, <2>1, <2>3, Kinds
  <2>6. IsTree(live')
    BY <1>2, <2>2, <2>4, <2>5, PutIsTree
  <2> QED
    BY <2>2, <2>3, <2>4, <2>6 DEF IsTree
<1>4. DOMAIN stage' = DOMAIN stage \ {p} /\ \A q \in DOMAIN stage' : stage'[q] = stage[q]
  BY DEF CommitRename
<1>5. Typed' /\ WellFormed(live')
  BY <1>1, <1>3, <1>4 DEF Inv, Typed, IsTree, CommitRename, writerVars, staleVars
<1>6. Writing'
  <2>1. ASSUME NEW t \in Tmps \cup {Tasty}, NEW q \in Paths, Under(q, t)
        PROVE  q # p /\ q \notin Ancestors(p)
    <3>1. ~Under(p, t) /\ t \in Paths
      BY <1>2, Apart, Siblings
    <3> QED
      BY <2>1, <3>1, Tree
  <2> QED
    BY <1>3, <2>1, WritingStays DEF CommitRename, writerVars
<1>7. Placed' /\ Assembled' /\ Listed' /\ Mirrored'
  BY <1>1 DEF Inv, Placed, Assembled, Listed, Mirrored, CommitRename, writerVars, staleVars, Committing
<1>8. Committed'
  <2>1. \A q \in staged \ todo : live'[q] = live[q]
    BY <1>1, <1>2, <1>3
  <2>2. live'[p] = want[p]
    BY <1>3
  <2> QED
    BY <1>1, <1>4, <2>1, <2>2 DEF Inv, Committed, CommitRename, Committing
<1>9. Roofed'
  <2>1. \A q \in Ancestors(Tasty) : q \in Paths /\ q # p
    BY <1>2, Siblings, Tree, Whose
  <2> QED
    BY <1>1, <1>3, <2>1, Kinds DEF Inv, Roofed, IsFile, CommitRename, writerVars
<1>10. MirrorsOutput' /\ FailedKeepsLastGood'
  BY <1>1 DEF CommitRename, MirrorsOutput, FailedKeepsLastGood
<1>11. OldFilesStay'
  <2> SUFFICES ASSUME NEW q \in Paths, Ours(q), IsFile(prior, q), live'[q] # prior[q], q # p
               PROVE  \/ live'[q] = want[q] /\ q \in DOMAIN want
                      \/ \E r \in DOMAIN want : q # r /\ Under(q, r)
    BY <1>2, <1>3 DEF OldFilesStay, CommitRename
  <2>1. CASE q \in Ancestors(p)
    <3>1. ~IsFile(live, q) /\ live[q] # prior[q]
      BY <2>1 DEF CommitRename, Reachable, IsFile
    <3>2. ~Under(q, p)
      BY <2>1, Tree
    <3>3. q \notin DOMAIN want
      BY <1>2, <2>1
    <3> QED
      BY <1>1, <3>1, <3>2, <3>3 DEF Inv, OldFilesStay
  <2>2. CASE q \notin Ancestors(p)
    <3>1. live'[q] = live[q]
      BY <1>3, <2>2
    <3> QED
      BY <1>1, <1>2, <3>1 DEF Inv, OldFilesStay
  <2> QED
    BY <2>1, <2>2
<1> QED
  BY <1>5, <1>6, <1>7, <1>8, <1>9, <1>10, <1>11 DEF Inv

LEMMA RemoveStaleKeeps ==
  ASSUME Inv, NEW p, RemoveStale(p) PROVE Inv'
<1>1. /\ pc = "stale" /\ p \in victims /\ p \in Paths
      /\ todo = {} /\ at = <<>> /\ outcome = "none"
  BY DEF Inv, Typed, Placed, RemoveStale
<1>2. /\ ~IsPreserved(p) /\ live[p] # Directory /\ p \notin DOMAIN want
      /\ \A q \in DOMAIN want : q \in Paths
  BY <1>1, OutputIs, Tree DEF Inv, Typed, Listed
<1>3. IsTree(live') /\ \A q \in Paths : live'[q] = IF q = p THEN Nothing ELSE live[q]
  <2>1. IsTree(live') /\ \A q \in Paths : live'[q] = IF Under(q, p) THEN Nothing ELSE live[q]
    BY <1>1, WithoutIsTree, LiveIsTree DEF RemoveStale, Without
  <2>2. \A q \in Paths : Under(q, p) /\ q # p => live[q] = Nothing
    BY <1>1, <1>2, TreeFacts, LiveIsTree
  <2>3. Under(p, p)
    BY <1>1, Tree
  <2> QED
    BY <2>1, <2>2, <2>3
<1>4. Typed' /\ WellFormed(live')
  BY <1>1, <1>3 DEF Inv, Typed, IsTree, RemoveStale, commitVars, syncVars
<1>5. Placed' /\ Assembled' /\ Mirrored'
  BY <1>1 DEF Inv, Placed, Assembled, Mirrored, RemoveStale, commitVars, syncVars, Committing
<1>6. Committed'
  BY <1>1, <1>2, <1>3 DEF Inv, Committed, RemoveStale, commitVars, syncVars, Committing
<1>7. Listed'
  <2>1. victims' = victims \ {p} /\ want' = want /\ landed' = landed /\ walk' = walk /\ pc' = pc
    BY DEF RemoveStale, syncVars
  <2>2. \A q \in victims' : q \in Paths /\ q # p /\ q \in victims
    BY <2>1 DEF Inv, Typed
  <2>3. \A q \in Paths : IsFile(live', q) => q # p /\ IsFile(live, q)
    BY <1>3, Kinds DEF IsFile
  <2>4. \A q \in Paths : q # p => live'[q] = live[q] /\ (IsFile(live, q) => IsFile(live', q))
    BY <1>3 DEF IsFile
  <2> QED
    BY <1>1, <2>1, <2>2, <2>3, <2>4 DEF Inv, Listed
<1>8. Roofed'
  <2>1. \A q \in Ancestors(Tasty) : q \in Paths
    BY Siblings, Tree
  <2> QED
    BY <1>1, <1>3, <2>1, Kinds DEF Inv, Roofed, IsFile, RemoveStale, syncVars
<1>9. Writing'
  <2>1. \A c \in Chunks \cup {Manifest} : Append(Tasty, c) \in Paths /\ Append(Tasty, c) # p
    <3>1. Manifest \in Chunks /\ Tasty \in Paths /\ IsPreserved(Tasty)
      BY Siblings, CommitAssumption
    <3>2. \A c \in Chunks : Append(Tasty, c) \in Paths /\ Under(Append(Tasty, c), Tasty)
      BY ChunkPaths
    <3> QED
      BY <1>2, <3>1, <3>2, Whose
  <2>2. /\ \A c \in Chunks : live'[Append(Tasty, c)] = live[Append(Tasty, c)]
        /\ live'[Append(Tasty, Manifest)] = live[Append(Tasty, Manifest)]
    BY <1>3, <2>1
  <2>3. TastyWhole' <=> TastyWhole
    BY <2>2 DEF TastyWhole
  <2>4. wstep' = wstep /\ wtmp' = wtmp /\ wleft' = wleft /\ cached' = cached /\ (swept => swept')
    BY DEF RemoveStale
  <2>5. ASSUME wstep \in {"write", "swap"}
        PROVE  /\ wtmp \in Tmps /\ live'[wtmp] = Directory /\ (swept' \/ TmpWhole')
               /\ wstep = "write" => \A c \in wleft : live'[Append(wtmp, c)] = Nothing
    <3>1. wtmp \in Tmps /\ wtmp \in Paths /\ live[wtmp] = Directory /\ (swept \/ TmpWhole)
      BY <2>5, Siblings DEF Inv, Writing
    <3>2. live'[wtmp] = Directory
      BY <1>2, <1>3, <3>1
    <3>3. ASSUME ~swept', NEW c \in Chunks \ wleft PROVE live'[Append(wtmp, c)] = Built
      <4>1. live[Append(wtmp, c)] = Built
        BY <2>4, <3>1, <3>3 DEF TmpWhole
      <4>2. Append(wtmp, c) \in Paths /\ Under(Append(wtmp, c), wtmp)
        BY <3>1, ChunkPaths
      <4>3. p # Append(wtmp, c)
        BY <2>5, <3>3, <4>1, <4>2, Kinds DEF RemoveStale
      <4> QED
        BY <1>3, <4>1, <4>2, <4>3
    <3>4. ASSUME wstep = "write", NEW c \in wleft PROVE live'[Append(wtmp, c)] = Nothing
      <4>1. Append(wtmp, c) \in Paths /\ live[Append(wtmp, c)] = Nothing
        BY <3>1, <3>4, ChunkPaths DEF Inv, Typed, Writing
      <4> QED
        BY <1>3, <4>1
    <3> QED
      BY <2>4, <3>1, <3>2, <3>3, <3>4 DEF TmpWhole
  <2> QED
    BY <2>2, <2>3, <2>4, <2>5 DEF Inv, Writing
<1>10. MirrorsOutput' /\ FailedKeepsLastGood'
  BY <1>1 DEF RemoveStale, syncVars, MirrorsOutput, FailedKeepsLastGood
<1>11. OldFilesStay'
  BY <1>1, <1>2, <1>3 DEF Inv, OldFilesStay, RemoveStale, commitVars, syncVars
<1> QED
  BY <1>4, <1>5, <1>6, <1>7, <1>8, <1>9, <1>10, <1>11 DEF Inv

\* Whatever the prune goes around has only such paths below it.
LEMMA SkippedAbove ==
  ASSUME NEW p \in Paths, NEW q \in Ancestors(p), PruneSkipped(p)
  PROVE  PruneSkipped(q)
<1>1. q \in Paths /\ Under(p, q) /\ p # q /\ Under(q, q)
  BY Tree
<1>2. PICK x \in Ancestors(p) \cup {p} : IsPreserved(x) \/ \E r \in Preserved : IsStrictPrefix(x, r)
  BY DEF PruneSkipped
<1>3. x \in Paths /\ Under(p, x)
  BY <1>2, Tree
<1>4. CASE Under(q, x)
  <2>1. x \in Ancestors(q) \cup {q}
    BY <1>1, <1>3, <1>4, Tree
  <2> QED
    BY <1>2, <2>1 DEF PruneSkipped
<1>5. CASE Under(x, q)
  <2>1. PICK r \in Preserved : Under(x, r) \/ IsStrictPrefix(x, r)
    BY <1>2 DEF IsPreserved
  <2>2. r \in Paths
    BY <2>1, CommitAssumption
  <2>3. CASE Under(q, r)
    BY <2>1, <2>3 DEF PruneSkipped, IsPreserved
  <2>4. CASE ~Under(q, r)
    <3>1. Under(r, q)
      <4>1. CASE Under(x, r)
        BY <1>1, <1>3, <1>5, <2>2, <2>4, <4>1, Tree
      <4>2. CASE IsStrictPrefix(x, r)
        <5>1. Under(r, x)
          BY <4>2 DEF IsStrictPrefix, Under
        <5> QED
          BY <1>1, <1>3, <1>5, <2>2, <5>1, Tree
      <4> QED
        BY <2>1, <4>1, <4>2
    <3>2. q # r
      BY <1>1, <2>4
    <3>3. IsStrictPrefix(q, r)
      BY <3>1, <3>2 DEF IsStrictPrefix, Under
    <3> QED
      BY <2>1, <3>3 DEF PruneSkipped
  <2> QED
    BY <2>3, <2>4
<1> QED
  BY <1>1, <1>3, <1>4, <1>5, Tree

LEMMA PruneKeeps == ASSUME Inv, PruneEmptyDirs PROVE Inv'
<1> DEFINE Bare(d) == \A f \in Paths : IsFile(live, f) => ~Under(f, d)
           Gone(d) == live[d] = Directory /\ ~PruneSkipped(d) /\ Bare(d)
<1>1. /\ pc = "stale" /\ todo = {} /\ at = <<>> /\ outcome = "none" /\ walk = {} /\ victims = {}
      /\ staged = DOMAIN want
  BY DEF Inv, Placed, PruneEmptyDirs, Committed, Committing
<1>2. /\ live' \in [Paths -> Node]
      /\ \A d \in Paths : live'[d] = IF Gone(d) THEN Nothing ELSE live[d]
  BY Kinds DEF PruneEmptyDirs, Inv, Typed
<1>3. \A p \in Paths : IsFile(live, p) <=> IsFile(live', p)
  BY <1>2, Kinds DEF IsFile
<1>4. \A p \in Paths : IsFile(live, p) => live'[p] = live[p]
  BY <1>2, Kinds DEF IsFile
<1>5. WellFormed(live')
  <2> SUFFICES ASSUME NEW p \in Paths, live'[p] # Nothing, NEW q \in Ancestors(p)
               PROVE  live'[q] = Directory
    BY DEF WellFormed
  <2>1. q \in Paths /\ Under(p, q) /\ p # q /\ live[p] # Nothing
    BY <1>2, Tree
  <2>2. live[q] = Directory
    BY <2>1, TreeFacts, LiveIsTree
  <2>3. ASSUME Gone(q) PROVE FALSE
    <3>1. ~IsFile(live, p) /\ Bare(p)
      BY <2>1, <2>3, Tree
    <3>2. live[p] = Directory
      BY <2>1, <3>1, LiveIsTree DEF IsTree, Node, IsFile
    <3>3. ~PruneSkipped(p)
      BY <2>3, SkippedAbove
    <3> QED
      BY <1>2, <3>1, <3>2, <3>3
  <2> QED
    BY <1>2, <2>1, <2>2, <2>3
<1>6. Typed'
  BY <1>1, <1>2 DEF Inv, Typed, PruneEmptyDirs, writerVars, staleVars, commitVars
<1>7. Writing'
  <2>1. ASSUME NEW t \in Tmps \cup {Tasty}, NEW p \in Paths, Under(p, t)
        PROVE  PruneSkipped(p)
    <3>1. t \in Paths /\ Parent(Tasty) \in Ancestors(t)
      BY Siblings
    <3>2. Parent(Tasty) \in Ancestors(p)
      BY <2>1, <3>1, Tree
    <3>3. Tasty \in Preserved /\ IsStrictPrefix(Parent(Tasty), Tasty)
      BY CommitAssumption, Siblings DEF Ancestors
    <3> QED
      BY <3>2, <3>3 DEF PruneSkipped
  <2> QED
    BY <1>2, <2>1, WritingStays DEF PruneEmptyDirs, writerVars
<1>8. Placed' /\ Assembled' /\ Listed'
  BY <1>1 DEF Inv, Placed, Assembled, Listed, PruneEmptyDirs, writerVars, staleVars, commitVars,
              Committing
<1>9. \A p \in DOMAIN want : p \in Paths /\ Ours(p) /\ want[p] \in Contents /\ live[p] = want[p]
                             /\ IsFile(live, p) /\ live'[p] = want[p]
  <2>1. \A p \in DOMAIN want : p \in Paths /\ Ours(p) /\ want[p] \in Contents
    BY OutputIs DEF Inv, Typed
  <2>2. \A p \in DOMAIN want : live[p] = want[p]
    BY <1>1 DEF Inv, Committed, Committing
  <2>3. \A p \in DOMAIN want : IsFile(live, p)
    BY <2>1, <2>2 DEF IsFile
  <2> QED
    BY <1>4, <2>1, <2>2, <2>3
<1>10. Committed'
  BY <1>1, <1>9 DEF Inv, Committed, PruneEmptyDirs, commitVars, Committing
<1>11. \A p \in Paths : Swept(p) /\ IsFile(live, p) => p \in DOMAIN want
  BY <1>1 DEF Inv, Listed
<1>12. Roofed'
  <2>1. \A p \in Ancestors(Tasty) : p \in Paths /\ Swept(p) /\ p \notin DOMAIN want
    BY <1>9, Whose, Siblings, Tree
  <2> QED
    BY <1>3, <1>11, <2>1 DEF Roofed
<1>13. Mirrored'
  <2>1. ASSUME NEW p \in Paths, NEW q \in DOMAIN want, p \in Ancestors(q)
        PROVE  live'[p] = Directory
    <3>1. q \in Paths /\ Under(q, p) /\ q # p /\ IsFile(live, q) /\ live[q] # Nothing
      BY <1>9, <2>1, Tree, Kinds DEF IsFile
    <3>2. live[p] = Directory
      BY <3>1, TreeFacts, LiveIsTree
    <3> QED
      BY <1>2, <3>1, <3>2
  <2>2. ASSUME NEW p \in Paths, Ours(p), p \notin DOMAIN want,
               \A q \in DOMAIN want : p \notin Ancestors(q)
        PROVE  live'[p] = Nothing \/ (PruneSkipped(p) /\ live'[p] = Directory)
    <3>1. ~IsFile(live, p)
      BY <1>11, <2>2, Whose
    <3>2. live[p] \in {Nothing, Directory}
      BY <3>1, LiveIsTree DEF IsTree, Node, IsFile
    <3>3. ASSUME NEW f \in Paths, IsFile(live, f), Under(f, p) PROVE FALSE
      <4>1. ~IsPreserved(f)
        <5> SUFFICES ASSUME NEW r \in Preserved, Under(f, r) PROVE FALSE
          BY DEF IsPreserved
        <5>1. r \in Paths /\ ~Under(p, r) /\ p \notin Ancestors(r)
          BY <2>2, CommitAssumption DEF Ours, IsPreserved
        <5> QED
          BY <3>3, <5>1, Tree
      <4>2. \A t \in Tmps : ~Under(f, t)
        BY <2>2, <3>3, Apart
      <4>3. f \in DOMAIN want
        BY <1>11, <3>3, <4>1, <4>2 DEF Swept
      <4> QED
        BY <2>2, <3>3, <4>3, Tree
    <3>4. Bare(p)
      BY <3>3
    <3> QED
      BY <1>2, <3>2, <3>4
  <2>3. want' = want /\ \A p \in Paths : (PruneSkipped(p))' <=> PruneSkipped(p)
    BY DEF PruneEmptyDirs, PruneSkipped, IsPreserved, Under, Ancestors
  <2> HIDE DEF Gone
  <2> QED
    BY <1>9, <2>1, <2>2, <2>3 DEF Mirrored
<1>14. MirrorsOutput' /\ FailedKeepsLastGood'
  BY <1>1 DEF PruneEmptyDirs, MirrorsOutput, FailedKeepsLastGood
<1>15. OldFilesStay'
  <2>1. \A p \in Paths : IsFile(prior, p) /\ live'[p] # prior[p] => live[p] # prior[p]
    BY <1>4 DEF IsFile
  <2>2. UNCHANGED <<want, prior, at, todo>> /\ pc' # "assemble"
    BY DEF PruneEmptyDirs, commitVars
  <2> HIDE DEF Gone
  <2> QED
    BY <1>1, <1>9, <2>1, <2>2 DEF Inv, OldFilesStay
<1> QED
  BY <1>5, <1>6, <1>7, <1>8, <1>10, <1>12, <1>13, <1>14, <1>15 DEF Inv

\* A step of the writer that touches nothing of ours, adds no file where one would be
\* swept, and takes a listed file away or leaves it, if it is not one that lands then.
LEMMA WriterStep ==
  ASSUME Inv, wstep # "idle", Typed', WellFormed(live'), Writing',
         UNCHANGED <<syncVars, commitVars, staleVars, crashes>>,
         ~Committing => landed' = "nothing",
         \A p \in Paths : Ours(p) => live'[p] = live[p],
         \A p \in Paths : Swept(p) /\ IsFile(live', p) => IsFile(live, p),
         \A p \in victims : /\ live'[p] # Directory
                            /\ landed' \in {"nothing", "mkdtemp", "chunks"} => IsFile(live', p)
  PROVE  Inv'
<1>1. /\ stage' = stage /\ want' = want /\ prior' = prior /\ pc' = pc /\ outcome' = outcome
      /\ todo' = todo /\ staged' = staged /\ at' = at /\ walk' = walk /\ victims' = victims
  BY DEF syncVars, commitVars, staleVars
<1>2. \A p \in DOMAIN want : p \in Paths /\ live'[p] = live[p]
  BY OutputIs DEF Inv, Typed
<1>3. Placed'
  BY <1>1 DEF Inv, Placed, Committing
<1>4. Assembled' /\ MirrorsOutput' /\ FailedKeepsLastGood'
  BY <1>1, <1>2 DEF Inv, Assembled, MirrorsOutput, FailedKeepsLastGood
<1>5. at # <<>> => at \in DOMAIN want /\ pc = "commit"
  BY DEF Inv, Typed, Placed, Committed, Committing
<1>6. Committed'
  BY <1>1, <1>2, <1>5 DEF Inv, Committed, Committing
<1>7. Listed'
  BY <1>1 DEF Inv, Listed
<1>8. (\A p \in Paths : PruneSkipped(p)' <=> PruneSkipped(p)) /\ Mirrored'
  BY <1>1, <1>2 DEF Inv, Mirrored, PruneSkipped
<1>9. Roofed'
  <2>1. \A p \in Ancestors(Tasty) : p \in Paths /\ Swept(p)
    BY Siblings, Tree, Whose
  <2> QED
    BY <1>1, <2>1 DEF Inv, Roofed
<1>10. OldFilesStay'
  BY <1>1, <1>2 DEF Inv, OldFilesStay
<1> QED
  BY <1>3, <1>4, <1>6, <1>7, <1>8, <1>9, <1>10 DEF Inv

LEMMA MakeTmpKeeps ==
  ASSUME Inv, NEW t \in Tmps, MakeTmp(t) PROVE Inv'
<1> DEFINE D == Ancestors(t) \cup {t}
<1>1. wstep = "scheduled" /\ ~cached /\ live[t] = Nothing /\ t \in Paths
      /\ Ancestors(t) = Ancestors(Tasty)
  BY Siblings DEF MakeTmp, Inv, Writing
<1>2. D \in SUBSET Paths /\ \A d \in D : Ancestors(d) \subseteq D
  BY <1>1, Tree
<1>3. IsTree(live') /\ \A p \in Paths : live'[p] = IF p \in D THEN Directory ELSE live[p]
  BY <1>2, WithDirsIsTree, LiveIsTree DEF MakeTmp, WithDirs
<1>4. Typed' /\ WellFormed(live')
  BY <1>3 DEF Inv, Typed, IsTree, MakeTmp, Lands, syncVars, commitVars, staleVars
<1>5. \A p \in Paths : Ours(p) => live'[p] = live[p]
  BY <1>1, <1>3, Whose, Tree
<1>6. \A p \in Paths : Swept(p) /\ IsFile(live', p) => IsFile(live, p)
  BY <1>3, Kinds DEF IsFile
<1>7. ASSUME NEW p \in victims PROVE IsFile(live', p)
  <2>1. pc = "stale" /\ landed = "nothing" /\ p \in Paths
    BY <1>7 DEF Inv, Placed, Typed, MakeTmp, Lands, Committing
  <2>2. IsFile(live, p)
    BY <1>7, <2>1 DEF Inv, Listed
  <2>3. p \notin D
    BY <1>1, <2>2, Kinds DEF Inv, Roofed, IsFile
  <2> QED
    BY <1>3, <2>1, <2>2, <2>3 DEF IsFile
<1>8. Writing'
  <2>1. \A c \in Chunks : live'[Append(t, c)] = Nothing
    <3> SUFFICES ASSUME NEW c \in Chunks PROVE live'[Append(t, c)] = Nothing
      OBVIOUS
    <3>1. Append(t, c) \in Paths /\ Under(Append(t, c), t) /\ Append(t, c) # t
      BY ChunkPaths
    <3>2. live[Append(t, c)] = Nothing
      BY <1>1, <3>1, TreeFacts, LiveIsTree, Kinds
    <3>3. Append(t, c) \notin D
      BY <1>1, <3>1, Tree
    <3> QED
      BY <1>3, <3>1, <3>2, <3>3
  <2>2. wstep' = "write" /\ wtmp' = t /\ wleft' = Chunks /\ cached' = FALSE
    BY <1>1 DEF MakeTmp
  <2>3. live'[t] = Directory
    BY <1>1, <1>3
  <2> QED
    BY <2>1, <2>2, <2>3 DEF Writing, TmpWhole
<1>9. \A p \in victims : live'[p] # Directory
  BY <1>7, Kinds DEF IsFile
<1> QED
  BY <1>1, <1>4, <1>5, <1>6, <1>7, <1>8, <1>9, WriterStep DEF MakeTmp, Lands

\* The temp dir while it is written and swapped.
LEMMA TmpIs ==
  ASSUME Inv, wstep \in {"write", "swap"}
  PROVE  /\ wtmp \in Tmps /\ wtmp \in Paths /\ Under(wtmp, wtmp) /\ live[wtmp] = Directory
         /\ ~cached
         /\ \A p \in Paths : Under(p, wtmp) => ~Swept(p) /\ ~Ours(p) /\ ~Under(p, Tasty)
         /\ \A p \in Paths : Under(p, Tasty) => ~Swept(p) /\ ~Ours(p) /\ ~Under(p, wtmp)
<1>1. wtmp \in Tmps /\ live[wtmp] = Directory /\ ~cached
  BY DEF Inv, Writing
<1>2. /\ wtmp \in Paths /\ Tasty \in Paths /\ Under(wtmp, wtmp)
      /\ ~Under(wtmp, Tasty) /\ ~Under(Tasty, wtmp)
  BY <1>1, Siblings, Tree
<1>3. \A p \in Paths : Under(p, wtmp) => ~Under(p, Tasty)
  BY <1>2, Tree
<1> QED
  BY <1>1, <1>2, <1>3, Whose

LEMMA WriteChunkKeeps ==
  ASSUME Inv, NEW c \in Chunks, WriteChunk(c) PROVE Inv'
<1> DEFINE a == Append(wtmp, c)
<1>1. /\ wstep = "write" /\ c \in wleft /\ wtmp \in Tmps /\ wtmp \in Paths
      /\ live[wtmp] = Directory /\ ~cached
  BY TmpIs DEF WriteChunk
<1>2. /\ a \in Paths /\ Under(a, wtmp) /\ Ancestors(a) = Ancestors(wtmp) \cup {wtmp}
      /\ \A d \in Chunks : a = Append(wtmp, d) => c = d
  BY <1>1, ChunkPaths
<1>3. live[a] = Nothing
  BY <1>1 DEF Inv, Writing
<1>4. ~Swept(a) /\ ~Ours(a)
  BY <1>1, <1>2, TmpIs
<1> HIDE DEF a
<1>5. \A q \in Ancestors(a) : live[q] = Directory
  BY <1>1, <1>2, Tree, TreeFacts, LiveIsTree, Kinds
<1>6. IsTree(live') /\ \A p \in Paths : live'[p] = IF p = a THEN Built ELSE live[p]
  <2>1. live' = [live EXCEPT ![a] = Built]
    BY DEF WriteChunk, a
  <2>2. IsTree(live')
    BY <1>2, <1>3, <1>5, <2>1, PutIsTree, LiveIsTree, Kinds
  <2> QED
    BY <2>1, <2>2, LiveIsTree DEF IsTree
<1>7. Typed' /\ WellFormed(live')
  BY <1>6 DEF Inv, Typed, IsTree, WriteChunk, Lands, syncVars, commitVars, staleVars
<1>8. \A p \in Paths : Ours(p) => live'[p] = live[p]
  BY <1>4, <1>6
<1>9. \A p \in Paths : Swept(p) /\ IsFile(live', p) => IsFile(live, p)
  BY <1>4, <1>6 DEF IsFile
<1>10. ASSUME NEW p \in victims PROVE IsFile(live', p)
  <2>1. pc = "stale" /\ landed \in {"nothing", "chunks"} /\ p \in Paths
    BY <1>10 DEF Inv, Placed, Typed, WriteChunk, Lands, Committing
  <2>2. IsFile(live, p)
    BY <1>10, <2>1 DEF Inv, Listed
  <2> QED
    BY <1>6, <2>1, <2>2, Kinds DEF IsFile
<1>11. Writing'
  <2>1. wstep' = wstep /\ wtmp' = wtmp /\ wleft' = wleft \ {c} /\ swept' = swept /\ cached' = cached
    BY DEF WriteChunk
  <2>2. live'[wtmp] = Directory /\ live'[a] = Built
    BY <1>1, <1>2, <1>3, <1>6, Kinds
  <2>3. ASSUME NEW d \in Chunks, d # c PROVE live'[Append(wtmp, d)] = live[Append(wtmp, d)]
    <3>1. Append(wtmp, d) \in Paths
      BY <1>1, ChunkPaths
    <3> QED
      BY <1>2, <1>6, <2>3, <3>1
  <2>4. wleft \subseteq Chunks
    BY DEF Inv, Typed
  <2>5. \A d \in wleft' : live'[Append(wtmp, d)] = Nothing
    BY <1>1, <2>1, <2>3, <2>4 DEF Inv, Writing
  <2>6. swept \/ \A d \in Chunks \ wleft' : live'[Append(wtmp, d)] = Built
    BY <1>1, <2>1, <2>2, <2>3 DEF Inv, Writing, TmpWhole, a
  <2> QED
    BY <1>1, <2>1, <2>2, <2>5, <2>6 DEF Writing, TmpWhole
<1>12. \A p \in victims : live'[p] # Directory
  BY <1>10, Kinds DEF IsFile
<1> QED
  BY <1>1, <1>7, <1>8, <1>9, <1>10, <1>11, <1>12, WriterStep DEF WriteChunk, Lands

\* What a removal of theirs leaves.
LEMMA RemovalKeeps ==
  ASSUME Inv, wstep \in {"write", "swap"}, NEW r \in {wtmp, Tasty}, live' = Without(live, r)
  PROVE  /\ IsTree(live')
         /\ \A p \in Paths : live'[p] = IF Under(p, r) THEN Nothing ELSE live[p]
         /\ \A p \in Paths : Ours(p) => live'[p] = live[p]
         /\ \A p \in Paths : Swept(p) /\ IsFile(live', p) => IsFile(live, p)
         /\ \A p \in victims : live'[p] # Directory
<1>1. r \in Paths
  BY TmpIs, Siblings
<1>2. IsTree(live') /\ \A p \in Paths : live'[p] = IF Under(p, r) THEN Nothing ELSE live[p]
  BY <1>1, WithoutIsTree, LiveIsTree DEF Without
<1>3. \A p \in Paths : Under(p, r) => ~Ours(p)
  BY TmpIs
<1>4. ASSUME NEW p \in victims PROVE live'[p] # Directory
  <2>1. pc = "stale" /\ p \in Paths
    BY <1>4 DEF Inv, Placed, Typed
  <2>2. live[p] # Directory
    BY <1>4, <2>1 DEF Inv, Listed
  <2> QED
    BY <1>2, <2>1, <2>2, Kinds
<1> QED
  BY <1>2, <1>3, <1>4, Kinds DEF IsFile

LEMMA FailWriterKeeps == ASSUME Inv, FailWriter PROVE Inv'
<1>1. wstep \in {"write", "swap"} /\ live' = Without(live, wtmp) /\ ~cached
  BY TmpIs DEF FailWriter
<1>2. /\ IsTree(live')
      /\ \A p \in Paths : Ours(p) => live'[p] = live[p]
      /\ \A p \in Paths : Swept(p) /\ IsFile(live', p) => IsFile(live, p)
      /\ \A p \in victims : live'[p] # Directory
  BY <1>1, RemovalKeeps
<1>3. Typed' /\ WellFormed(live')
  BY <1>2 DEF Inv, Typed, IsTree, FailWriter, Lands, syncVars, commitVars, staleVars
<1>4. \A p \in victims : landed' = "rm"
  BY DEF Inv, Placed, FailWriter, Lands, Committing
<1>5. Writing'
  BY <1>1 DEF Writing, FailWriter
<1> QED
  BY <1>1, <1>2, <1>3, <1>4, <1>5, WriterStep DEF FailWriter, Lands

LEMMA GiveUpKeeps == ASSUME Inv, GiveUp PROVE Inv'
<1>1. wstep \in {"scheduled", "failed"} /\ ~cached /\ live' = live /\ landed' = "nothing"
  BY DEF Inv, Placed, Writing, GiveUp
<1>2. Typed' /\ WellFormed(live')
  BY <1>1 DEF Inv, Typed, GiveUp, syncVars, commitVars, staleVars
<1>3. Writing'
  BY <1>1 DEF Writing, GiveUp
<1>4. \A p \in victims : FALSE
  BY DEF Inv, Placed, GiveUp, Committing
<1> QED
  BY <1>1, <1>2, <1>3, <1>4, WriterStep DEF GiveUp, IsFile

LEMMA RemoveTastyKeeps == ASSUME Inv, RemoveTasty PROVE Inv'
<1>1. wstep = "write" /\ wleft = {} /\ live' = Without(live, Tasty) /\ ~cached
  BY TmpIs DEF RemoveTasty
<1>2. /\ IsTree(live')
      /\ \A p \in Paths : live'[p] = IF Under(p, Tasty) THEN Nothing ELSE live[p]
      /\ \A p \in Paths : Ours(p) => live'[p] = live[p]
      /\ \A p \in Paths : Swept(p) /\ IsFile(live', p) => IsFile(live, p)
      /\ \A p \in victims : live'[p] # Directory
  BY <1>1, RemovalKeeps
<1>3. Typed' /\ WellFormed(live')
  BY <1>2 DEF Inv, Typed, IsTree, RemoveTasty, Lands, syncVars, commitVars, staleVars
<1>4. \A p \in victims : landed' = "rm"
  BY DEF Inv, Placed, RemoveTasty, Lands, Committing
<1>5. Writing'
  <2>1. wtmp \in Tmps /\ wtmp \in Paths /\ live[wtmp] = Directory /\ Under(wtmp, wtmp)
        /\ \A p \in Paths : Under(p, wtmp) => ~Under(p, Tasty)
    BY <1>1, TmpIs
  <2>2. \A c \in Chunks : Append(wtmp, c) \in Paths /\ Under(Append(wtmp, c), wtmp)
    BY <2>1, ChunkPaths
  <2>3. live'[wtmp] = Directory /\ \A c \in Chunks : live'[Append(wtmp, c)] = live[Append(wtmp, c)]
    BY <1>2, <2>1, <2>2
  <2>4. wstep' = "swap" /\ wtmp' = wtmp /\ wleft' = wleft /\ swept' = swept /\ cached' = cached
    BY DEF RemoveTasty
  <2>5. swept \/ TmpWhole
    BY <1>1 DEF Inv, Writing
  <2> QED
    BY <1>1, <2>1, <2>3, <2>4, <2>5 DEF Writing, TmpWhole
<1> QED
  BY <1>1, <1>2, <1>3, <1>4, <1>5, WriterStep DEF RemoveTasty, Lands

LEMMA RenameTmpKeeps == ASSUME Inv, RenameTmp PROVE Inv'
<1>1. /\ wstep = "swap" /\ wtmp \in Tmps /\ live[wtmp] = Directory /\ ~cached
      /\ \A p \in Paths : Under(p, wtmp) => ~Ours(p) /\ ~Swept(p)
      /\ \A p \in Paths : Under(p, Tasty) => ~Ours(p) /\ ~Swept(p) /\ ~Under(p, wtmp)
  BY TmpIs DEF RenameTmp
<1>2. live' = Renamed(live, wtmp)
  BY DEF RenameTmp, Renamed, From
<1>3. IsTree(live') /\ \A p \in Paths : live'[p] = IF Under(p, wtmp) THEN Nothing
                                                  ELSE IF Under(p, Tasty) THEN live[From(wtmp, p)]
                                                  ELSE live[p]
  BY <1>1, <1>2, RenamedIsTree, LiveIsTree DEF Renamed
<1>4. Typed' /\ WellFormed(live')
  BY <1>3 DEF Inv, Typed, IsTree, RenameTmp, Lands, syncVars, commitVars, staleVars
<1>5. \A p \in Paths : Ours(p) => live'[p] = live[p]
  BY <1>1, <1>3
<1>6. \A p \in Paths : Swept(p) /\ IsFile(live', p) => IsFile(live, p)
  BY <1>1, <1>3 DEF IsFile
<1>7. ASSUME NEW p \in victims PROVE live'[p] # Directory /\ landed' = "rename"
  <2>1. pc = "stale" /\ p \in Paths /\ landed' = "rename"
    BY <1>7 DEF Inv, Placed, Typed, RenameTmp, Lands, Committing
  <2>2. live[p] # Directory /\ ~IsPreserved(p)
    BY <1>7, <2>1 DEF Inv, Listed
  <2>3. ~Under(p, Tasty)
    BY <2>1, <2>2, Whose, Siblings
  <2> QED
    BY <1>3, <2>1, <2>2, <2>3, Kinds
<1>8. Writing'
  <2>1. wleft = {} /\ (swept \/ TmpWhole)
    BY <1>1 DEF Inv, Writing
  <2>2. ASSUME NEW c \in Chunks PROVE live'[Append(Tasty, c)] = live[Append(wtmp, c)]
    <3>1. Append(Tasty, c) \in Paths /\ Under(Append(Tasty, c), Tasty)
      BY ChunkPaths
    <3>2. From(wtmp, Append(Tasty, c)) = Append(wtmp, c)
      BY <1>1, Moves
    <3> QED
      BY <1>1, <1>3, <3>1, <3>2
  <2>3. wstep' = "ready" /\ swept' = swept /\ cached' = cached
    BY DEF RenameTmp
  <2>4. swept \/ TastyWhole'
    BY <2>1, <2>2 DEF TmpWhole, TastyWhole
  <2> QED
    BY <1>1, <2>3, <2>4 DEF Writing
<1> QED
  BY <1>1, <1>4, <1>5, <1>6, <1>7, <1>8, WriterStep DEF RenameTmp, Lands

-----------------------------------------------------------------------------
LEMMA InitInv == ASSUME Init PROVE Inv
<1>1. live \in [Paths -> Node] /\ WellFormed(live)
  BY CommitAssumption DEF Init
<1>2. 0 \in 0 .. MaxSyncs /\ 0 \in 0 .. MaxCrashes
  BY CommitAssumption
<1>3. Typed
  BY <1>1, <1>2, EmptyIs DEF Init, Typed
<1> QED
  BY <1>1, <1>3 DEF Init, Inv, Placed, Assembled, Committed, Listed, Mirrored, Roofed, Writing,
              MirrorsOutput, FailedKeepsLastGood, OldFilesStay, Committing

LEMMA NextInv == ASSUME Inv, [Next]_vars PROVE Inv'
<1>1. CASE UNCHANGED vars
  BY <1>1, StutterKeeps
<1>2. CASE Begin \/ FailSync \/ CollectStage \/ BeginStale \/ PruneEmptyDirs \/ Finish \/ Crash
  BY <1>2, BeginKeeps, FailKeeps, CollectKeeps, BeginStaleKeeps, PruneKeeps, FinishKeeps, CrashKeeps
<1>3. CASE \E p \in Paths : AssembleFile(p)
  BY <1>3, AssembleKeeps
<1>4. CASE CommitOneFile
  BY <1>4, SkipKeeps, ClearKeeps, RenameKeeps, ThrowKeeps DEF CommitOneFile
<1>5. CASE RemoveStaleFiles
  BY <1>5, ListDirKeeps, RemoveStaleKeeps DEF RemoveStaleFiles
<1>6. CASE TastyWriter
  BY <1>6, MakeTmpKeeps, WriteChunkKeeps, FailWriterKeeps, GiveUpKeeps, RemoveTastyKeeps, RenameTmpKeeps,
     ReadyKeeps DEF TastyWriter
<1> QED
  BY <1>1, <1>2, <1>3, <1>4, <1>5, <1>6 DEF Next

THEOREM InvHolds == Spec => []Inv
  BY InitInv, NextInv, PTL DEF Spec

\* The folder is a tree after each operation, whatever the removals and renames of a
\* sync and of the writer meet.
THEOREM TypeCorrect == Spec => []TypeOK
<1>1. Inv => TypeOK
  BY DEF Inv, Typed, Placed, TypeOK
<1> QED
  BY <1>1, InvHolds, PTL

\* A sync that succeeds publishes exactly what it has generated, whatever was in the
\* folder, and whatever killed and failed syncs have left of theirs.
THEOREM SyncMirrorsOutput == Spec => []MirrorsOutput
<1>1. Inv => MirrorsOutput
  BY DEF Inv
<1> QED
  BY <1>1, InvHolds, PTL

\* A sync that fails before its commit has changed nothing.
THEOREM FailureCostsNothing == Spec => []FailedKeepsLastGood
<1>1. Inv => FailedKeepsLastGood
  BY DEF Inv
<1> QED
  BY <1>1, InvHolds, PTL

\* During a commit a reader misses one old file at a time at most, and stale files go
\* when every new one is there.
THEOREM OldFilesLast == Spec => []OldFilesStay
<1>1. Inv => OldFilesStay
  BY DEF Inv
<1> QED
  BY <1>1, InvHolds, PTL

\* A tasty build that is never built again is whole, if no stale pass has met it.
THEOREM CachedBuildIsWhole == Spec => []TastyLands
<1>1. Inv => TastyLands
  BY DEF Inv, Writing, TastyLands
<1> QED
  BY <1>1, InvHolds, PTL
=============================================================================
