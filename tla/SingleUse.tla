------------------------------ MODULE SingleUse ------------------------------
(* What the gateway promises about execution tokens, without saying how: a    *)
(* token that has been issued may be used once while it is valid, and a token *)
(* that was used, burnt or has reached its deadline never becomes usable      *)
(* again.  ExecutionToken.tla implements this with two gateway processes' L1  *)
(* stores and the shared L2 key of Redis.                                     *)
EXTENDS Naturals

CONSTANT Token          \* the execution tokens (each carries one jti)

VARIABLES state,        \* "unissued", "usable" or "spent", per token
          uses          \* how often the token was accepted while usable

Init == /\ state = [t \in Token |-> "unissued"]
        /\ uses = [t \in Token |-> 0]

Issue(t) == /\ state[t] = "unissued"
            /\ state' = [state EXCEPT ![t] = "usable"]
            /\ uses' = uses

Use(t) == /\ state[t] = "usable"
          /\ state' = [state EXCEPT ![t] = "spent"]
          /\ uses' = [uses EXCEPT ![t] = @ + 1]

\* Tokens become unusable without having been accepted: their deadline passed,
\* or their nonce was consumed for a caller that never learned of it.
Lapse(S) == /\ \A t \in S : state[t] = "usable"
            /\ state' = [t \in Token |-> IF t \in S THEN "spent" ELSE state[t]]
            /\ uses' = uses

Next == \/ \E t \in Token : Issue(t) \/ Use(t)
        \/ \E S \in SUBSET Token : Lapse(S)

Spec == Init /\ [][Next]_<<state, uses>>
=============================================================================
