---------------------------- MODULE KeyRetention ----------------------------
(* What the signing keys promise, without lists, caches or processes: a key is *)
(* kept until MaxPrevious newer ones exist, one that was deleted never comes   *)
(* back, and the key to sign with after a restart is always one that is kept.  *)
(* KeyRotation.tla implements this for any number of processes.                *)
EXTENDS Integers

CONSTANT MaxPrevious    \* _MAX_PREVIOUS_KEYS

VARIABLES made,         \* the number of keys generated; they are 1 .. made
          kept,         \* the keys in the directory
          active        \* the key a restart would sign with; 0 when it cannot start

Init == made = 0 /\ kept = {} /\ active = 0

Generate == /\ made' = made + 1
            /\ kept' = kept \cup {made'}
            /\ active' = active

Retire(k) == /\ made - k > MaxPrevious
             /\ k # active
             /\ kept' = kept \ {k}
             /\ UNCHANGED <<made, active>>

Publish(k) == /\ k \in kept
              /\ active' = k
              /\ UNCHANGED <<made, kept>>

Withdraw == active' = 0 /\ UNCHANGED <<made, kept>>

Next == \/ Generate
        \/ \E k \in kept : Retire(k) \/ Publish(k)
        \/ Withdraw

keys == <<made, kept, active>>

Spec == Init /\ [][Next]_keys
=============================================================================
