-------------------------- MODULE AccountRegistry --------------------------
(* What the gateway promises about accounts, without saying how: an address   *)
(* gets at most one account, which nobody takes over, and an answer that       *)
(* speaks of an account speaks of one that is there.  An answer may also be    *)
(* lost, and 401 and 500 promise nothing.  Registration.tla implements this    *)
(* with any number of processes.                                               *)

CONSTANTS Request,      \* requests
          Email         \* normalised addresses

VARIABLES early,        \* whether an account may be promised before it is there
          asked,        \* asked[r]: what r asks for, and about which address
          owner,        \* owner[e]: whose registration made the account of e
          answer        \* answer[r]: the status the client got, or "lost"

Nothing == [op |-> "none"]

Init == /\ early \in BOOLEAN
        /\ asked = [r \in Request |-> Nothing]
        /\ owner = [e \in Email |-> "nobody"]
        /\ answer = [r \in Request |-> "none"]

Ask(r, o, e) == /\ asked[r] = Nothing
                /\ asked' = [asked EXCEPT ![r] = [op |-> o, email |-> e]]
                /\ UNCHANGED <<early, owner, answer>>

\* Which answers may be given to r.
Truthful(r, code) ==
    \/ code \in {"401", "500"}
    \/ /\ asked[r].op = "register"
       /\ \/ code = "201" /\ (early \/ owner[asked[r].email] = r)
          \/ code = "409" /\ owner[asked[r].email] \notin {"nobody", r}
    \/ asked[r].op = "login" /\ code = "200" /\ owner[asked[r].email] # "nobody"

Tell(r, code) == /\ asked[r] # Nothing
                 /\ answer[r] = "none"
                 /\ Truthful(r, code)
                 /\ answer' = [answer EXCEPT ![r] = code]
                 /\ UNCHANGED <<early, asked, owner>>

\* The registrations S make their accounts, one for each address, and the answers
\* of L are lost.
Settle(S, L) ==
    /\ \A r \in S : /\ owner[asked[r].email] = "nobody"
                    /\ \A s \in S : asked[s].email = asked[r].email => s = r
    /\ owner' \in [Email -> Request \cup {"nobody"}]
    /\ \A e \in Email : \/ owner'[e] \in S /\ asked[owner'[e]].email = e
                        \/ owner'[e] = owner[e] /\ \A r \in S : asked[r].email # e
    /\ answer' = [r \in Request |-> IF r \in L THEN "lost" ELSE answer[r]]
    /\ UNCHANGED <<early, asked>>

Registering == {r \in Request : asked[r].op = "register"}
Unanswered == {r \in Request : asked[r] # Nothing /\ answer[r] = "none"}

Next == \/ \E r \in Request, o \in {"register", "login"}, e \in Email : Ask(r, o, e)
        \/ \E r \in Request, code \in {"200", "201", "401", "409", "500"} : Tell(r, code)
        \/ \E S \in SUBSET Registering, L \in SUBSET Unanswered : Settle(S, L)

Spec == Init /\ [][Next]_<<early, asked, owner, answer>>
=============================================================================
