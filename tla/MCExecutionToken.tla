--------------------------- MODULE MCExecutionToken ---------------------------
(* Small instances of ExecutionToken for TLC.                                 *)
EXTENDS ExecutionToken, TLC

\* Processes, tokens and callers are interchangeable.
Symmetry == Permutations(Instance) \cup Permutations(Token) \cup Permutations(User)
=============================================================================
