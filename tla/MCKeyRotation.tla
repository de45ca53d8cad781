--------------------------- MODULE MCKeyRotation ---------------------------
(* Small instances of KeyRotation for TLC.                                    *)
EXTENDS KeyRotation, TLC

\* Processes are interchangeable.
Symmetry == Permutations(Process)
=============================================================================
