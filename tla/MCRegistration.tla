--------------------------- MODULE MCRegistration ---------------------------
(* Small instances of Registration for TLC.                                   *)
EXTENDS Registration, TLC

CONSTANTS r1, r2, r3, p1, e1

Arrived(r) == req[r] # NoRequest

\* Requests, processes and addresses are interchangeable.  Temporal properties
\* rule out a symmetry set, so the runs follow one behaviour of each kind: r1
\* comes in first, at p1 and about e1, then r2, then r3.
Canonical == /\ Arrived(r2) => Arrived(r1)
             /\ Arrived(r3) => Arrived(r2)
             /\ Arrived(r1) => req[r1].at = p1 /\ req[r1].email = e1
=============================================================================
