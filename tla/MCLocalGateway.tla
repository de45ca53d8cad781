--------------------------- MODULE MCLocalGateway ---------------------------
(* Small instances of LocalGateway for TLC.                                   *)
EXTENDS LocalGateway, TLC

\* Processes, tokens and callers are interchangeable.
Symmetry == Permutations(Instance) \cup Permutations(Token) \cup Permutations(User)

\* With a key file and without Redis a restarted process accepts a token again,
\* any number of times: the run follows the first few acceptances of each token.
UsesBound == \A t \in Token : early[t] + late[t] <= 2
=============================================================================
