-------------------------- MODULE FolderLockProofs --------------------------
(* The promise of FolderLock, for any set of processes.                    *)
EXTENDS FolderLock, TLAPS

Typed == phase \in [Procs -> Phases] /\ break \in [Procs -> BOOLEAN]

Inv == Typed /\ Exclusive

\* One process at a time has the folder, as long as nobody breaks the lock.
THEOREM Exclusion == Spec => []Exclusive
<1>1. Init => Inv
  BY DEF Init, Inv, Typed, Phases, Exclusive
<1>2. Inv /\ [Next]_<<kind, break, phase>> => Inv'
  <2> SUFFICES ASSUME Inv, [Next]_<<kind, break, phase>> PROVE Inv'
    OBVIOUS
  <2> USE DEF Inv, Typed, Phases, Exclusive, Become
  <2>1. ASSUME NEW p \in Procs, Arrive(p) PROVE Inv'
    BY <2>1 DEF Arrive
  <2>2. ASSUME NEW p \in Procs, Acquire(p) PROVE Inv'
    BY <2>2 DEF Acquire
  <2>3. ASSUME NEW p \in Procs, Release(p) PROVE Inv'
    BY <2>3 DEF Release
  <2>4. ASSUME NEW p \in Procs, Go(p) PROVE Inv'
    BY <2>4 DEF Go
  <2>5. ASSUME NEW p \in Procs, NEW w \in Procs \ {p}, Covers(w, p) PROVE Inv'
    BY <2>5 DEF Covers
  <2>6. CASE UNCHANGED <<kind, break, phase>>
    BY <2>6
  <2>q. QED
    BY <2>1, <2>2, <2>3, <2>4, <2>5, <2>6 DEF Next
<1>3. Inv => Exclusive
  BY DEF Inv
<1>q. QED
  BY <1>1, <1>2, <1>3, PTL DEF Spec
=============================================================================
