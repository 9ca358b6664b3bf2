----------------------------- MODULE MCSyncTrio -----------------------------
(* Three one-shots on a fresh project.  They are interchangeable: no       *)
(* definition names one of them, so permuting them is sound.               *)
EXTENDS SyncSession, TLC

CONSTANTS p1, p2, p3
ThreeProcs == {p1, p2, p3}
Symmetric == Permutations(ThreeProcs)
=============================================================================
