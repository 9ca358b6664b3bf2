------------------------------- MODULE MCPhase -------------------------------
(* An instance of PhaseRendezvous for TLC: four sources in three lanes.  Lane 1 has sources  *)
(* 1 and 4, of any kind and in any combination; lanes 2 and 3 have one styling source each,  *)
(* which may break, so that every lane has work in every round.                              *)
EXTENDS PhaseRendezvous

MCInit == Init /\ {2, 3} \subseteq styled
MCSpec == MCInit /\ [][Next]_vars /\ WF_vars(CoordinatorWorks)
          /\ \A l \in Lanes : WF_vars(LaneWorks(l))
=============================================================================
