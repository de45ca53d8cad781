----------------------------- MODULE MCHitlQueue -----------------------------
(* Small instances of HitlQueue for TLC.                                      *)
EXTENDS HitlQueue, TLC

\* Processes, requests and approvers are interchangeable.
Symmetry == Permutations(Process) \cup Permutations(Request) \cup Permutations(Approver)
=============================================================================
