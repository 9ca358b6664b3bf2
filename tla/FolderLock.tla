------------------------------ MODULE FolderLock ------------------------------
(***************************************************************************)
(* What the session lock promises, with no disk, nonce or signal: one      *)
(* process at a time has the folder, a process that let go never has it    *)
(* again, and a newcomer is told that a watch covers it only while there   *)
(* is a watch.  --break-lock takes the folder from its holder.             *)
(* SyncSession implements it when at most two invocations meet.            *)
(***************************************************************************)
CONSTANTS Procs, Kinds

VARIABLES kind, break, phase

Phases == {"out", "waiting", "holding", "leaving", "covered", "gone"}

Init == /\ kind \in [Procs -> Kinds]
        /\ break \in [Procs -> BOOLEAN]
        /\ phase = [p \in Procs |-> "out"]

Become(p, from, to) == /\ phase[p] = from
                       /\ phase' = [phase EXCEPT ![p] = to]
                       /\ UNCHANGED <<kind, break>>

Arrive(p) == Become(p, "out", "waiting")

\* The folder is free, its holder having let go or died, or p breaks the lock.
Acquire(p) == /\ break[p] \/ \A q \in Procs : phase[q] # "holding"
              /\ Become(p, "waiting", "holding")

Release(p) == Become(p, "holding", "leaving")

\* Covered by a watch that is there; the word that the newcomer sends may be
\* the end of a watch that has no listener for it.
Covers(w, p) ==
  /\ kind[w] = "watch" /\ kind[p] # "clean"
  /\ phase[w] \in {"waiting", "holding", "leaving"}
  /\ \/ Become(p, "waiting", "covered")
     \/ /\ phase[p] = "waiting" /\ phase[w] # "holding"
        /\ phase' = [phase EXCEPT ![p] = "covered", ![w] = "gone"]
        /\ UNCHANGED <<kind, break>>

\* A process may die, or give up, at any time.
Go(p) == \E from \in Phases \ {"out", "gone"} : Become(p, from, "gone")

Next == \E p \in Procs :
          \/ Arrive(p) \/ Acquire(p) \/ Release(p) \/ Go(p)
          \/ \E w \in Procs \ {p} : Covers(w, p)

Spec == Init /\ [][Next]_<<kind, break, phase>>

\* The folder has one holder at most (the lock's contract), unless one of the
\* two broke the lock.
Exclusive == \A p, q \in Procs : phase[p] = "holding" /\ phase[q] = "holding" =>
               p = q \/ break[p] \/ break[q]
=============================================================================
