----------------------------- MODULE MCRateLimit -----------------------------
(* Small instances of the two limiters for TLC.  RateLimit and VelocityTracker *)
(* share no state, so a run explores the one or the other.                     *)
EXTENDS RateLimit, VelocityTracker, TLC

VARIABLE part   \* the limiter of this behaviour

\* One charge of each kind, and the limits a second of them goes over.
Charges == {[value |-> 0, risk |-> 0, sensitive |-> 0], [value |-> 1, risk |-> 0, sensitive |-> 0],
            [value |-> 0, risk |-> 1, sensitive |-> 1]}
Limits == [requests |-> 1, value |-> 1, risk |-> 1, sensitive |-> 2]

LimitsInit == /\ part \in {"rate", "velocity"}
              /\ Init /\ VelocityInit
              /\ part = "velocity" => env = "development"

LimitsNext == /\ \/ part = "rate" /\ Next /\ UNCHANGED velocityVars
                 \/ part = "velocity" /\ VelocityNext /\ UNCHANGED vars
              /\ UNCHANGED part

LimitsSpec == LimitsInit /\ [][LimitsNext]_<<vars, velocityVars, part>>

\* Processes are interchangeable, and so are scopes.
Symmetry == Permutations(Instance) \cup Permutations(Scope)
=============================================================================
