----------------------------- MODULE AccessToken -----------------------------
(* The authority of an access token: a JWT handed out at registration or at a *)
(* login, presented to any gateway process, and the row of users that each    *)
(* request loads.  Operators change rows in the database: no route does.      *)
(*                                                                            *)
(* The dependencies of a route are resolved one after the other, in part on   *)
(* worker threads: between the check of the token, the load of the row and    *)
(* the handler other requests are taken up.  A gateway stands for one of them *)
(* at a time; requests of one process that overlap are those of two gateways  *)
(* whose clocks agree.  A request takes no longer than MaxHandling, and the   *)
(* clocks are ahead of the time by no more than MaxDrift: nothing in the code *)
(* enforces either, and without them there is no bound to state.              *)
EXTENDS Naturals

CONSTANTS Gateway,      \* what handles one request at a time
          Account,      \* ids of users
          JWT,          \* access tokens
          Lifetime,     \* jwt_access_token_expire_minutes
          Skew,         \* jwt_clock_skew_seconds
          MaxHandling,  \* how long a request may be in hand
          MaxDrift,     \* how far a clock may be ahead
          Horizon       \* bound on the time

ASSUME AccessAssumption == /\ Lifetime \in Nat
                           /\ Skew \in Nat
                           /\ MaxHandling \in Nat
                           /\ MaxDrift \in Nat
                           /\ Horizon \in Nat

VARIABLES time,         \* the time
          drift,        \* drift[g]: how far the clock of g is ahead
          made,         \* the accounts whose id was made
          row,          \* row[a]: the committed row of a
          jwt,          \* jwt[t]: the claims of t
          hand,         \* hand[g]: the request g handles and what it has read
          lastPresent,  \* history: when a last had a row,
          lastActive,   \*   an active one,
          lastApprover, \*   one with a role of hitl_approver_roles
          served        \* history: the last request that was served

observed == <<lastPresent, lastActive, lastApprover>>
accessVars == <<time, drift, made, row, jwt, hand, observed, served>>

NoRow == [present |-> FALSE, active |-> FALSE, approver |-> FALSE]
NewRow == [present |-> TRUE, active |-> TRUE, approver |-> FALSE]
Row == {NoRow} \cup [present : {TRUE}, active : BOOLEAN, approver : BOOLEAN]
NoJWT == [issued |-> FALSE]
Claims == [issued : {TRUE}, account : Account, iat : Nat]
Nothing == [op |-> "none"]
InHand == [op : {"login", "register", "decoded", "loaded"}, account : Account, since : Nat,
           approver : BOOLEAN]
NotServed == [given |-> FALSE]
Served == [given : {TRUE}, account : Account, at : Nat, asApprover : BOOLEAN]

Clock(g) == time + drift[g]

----------------------------------------------------------------------------
(* Mutated forms of definitions below, used to check that the properties are  *)
(* sensitive to the code they are about.                                      *)

\* The options given to jwt.decode turn the check of exp off.
ExpUnchecked(g, t) == TRUE

----------------------------------------------------------------------------

AccessInit == /\ time = 0
              /\ drift \in [Gateway -> 0 .. MaxDrift]
              /\ made = {}
              /\ row = [a \in Account |-> NoRow]
              /\ jwt = [t \in JWT |-> NoJWT]
              /\ hand = [g \in Gateway |-> Nothing]
              /\ lastPresent = [a \in Account |-> 0]
              /\ lastActive = [a \in Account |-> 0]
              /\ lastApprover = [a \in Account |-> 0]
              /\ served = NotServed

\* What the history variables note at the end of a step.
Note == /\ lastPresent' = [a \in Account |-> IF row'[a].present THEN time' ELSE lastPresent[a]]
        /\ lastActive' = [a \in Account |-> IF row'[a].active THEN time' ELSE lastActive[a]]
        /\ lastApprover' = [a \in Account |-> IF row'[a].approver THEN time' ELSE lastApprover[a]]

Elapse == /\ time < Horizon
          /\ \A g \in Gateway : hand[g] # Nothing => time < hand[g].since + MaxHandling
          /\ time' = time + 1
          /\ UNCHANGED <<drift, made, row, jwt, hand, served>>
          /\ Note

\* An operator changes a row, or deletes it.
SetRow(a, r) == /\ row[a].present
                /\ row' = [row EXCEPT ![a] = r]
                /\ UNCHANGED <<time, drift, made, jwt, hand, served>>
                /\ Note

\* A request is taken up.
Take(g, op, a) == /\ hand[g] = Nothing
                  /\ hand' = [hand EXCEPT ![g] = [op |-> op, account |-> a, since |-> time,
                                                  approver |-> FALSE]]

\* create_access_token: iat and nbf are the time, exp is Lifetime later.
CreateAccessToken(g, t, a) ==
    /\ ~jwt[t].issued
    /\ jwt' = [jwt EXCEPT ![t] = [issued |-> TRUE, account |-> a, iat |-> Clock(g)]]

\* The register handler: the row is flushed and the token made; another step
\* commits the row.
RegisterAccount(g, t, a) == /\ a \notin made
                            /\ made' = made \cup {a}
                            /\ Take(g, "register", a)
                            /\ CreateAccessToken(g, t, a)
                            /\ UNCHANGED <<time, drift, row, observed, served>>

CommitAccount(g) == /\ hand[g].op = "register"
                    /\ row' = [row EXCEPT ![hand[g].account] = NewRow]
                    /\ hand' = [hand EXCEPT ![g] = Nothing]
                    /\ UNCHANGED <<time, drift, made, jwt, served>>
                    /\ Note

\* The login handler loads the row, checks the password, which takes its time,
\* and that the row it loaded was active ...
LoadForLogin(g, a) == /\ row[a].active
                      /\ Take(g, "login", a)
                      /\ UNCHANGED <<time, drift, made, row, jwt, observed, served>>

\* ... and makes the token.
FinishLogin(g, t) == /\ hand[g].op = "login"
                     /\ CreateAccessToken(g, t, hand[g].account)
                     /\ hand' = [hand EXCEPT ![g] = Nothing]
                     /\ UNCHANGED <<time, drift, made, row, observed, served>>

\* jwt.decode with leeway: exp,
Unexpired(g, t) == Clock(g) < jwt[t].iat + Lifetime + Skew

\* and iat and nbf.
Begun(g, t) == jwt[t].iat <= Clock(g) + Skew

\* get_current_user_id: the token is decoded ...
Decode(g, t) == /\ jwt[t].issued
                /\ Unexpired(g, t)
                /\ Begun(g, t)
                /\ Take(g, "decoded", jwt[t].account)
                /\ UNCHANGED <<time, drift, made, row, jwt, observed, served>>

\* ... and get_current_user loads the row, active or not.
LoadUser(g) == LET a == hand[g].account
               IN  /\ hand[g].op = "decoded"
                   /\ row[a].present
                   /\ hand' = [hand EXCEPT ![g] = [op |-> "loaded", account |-> a, since |-> @.since,
                                                   approver |-> row[a].approver]]
                   /\ UNCHANGED <<time, drift, made, row, jwt, observed, served>>

\* The handler of the route; one that decides about approvals asks the row that
\* was loaded for the role (require_hitl_approver).
Serve(g) == /\ hand[g].op = "loaded"
            /\ \E asApprover \in BOOLEAN :
                   /\ asApprover => hand[g].approver
                   /\ served' = [given |-> TRUE, account |-> hand[g].account, at |-> time,
                                 asApprover |-> asApprover]
            /\ hand' = [hand EXCEPT ![g] = Nothing]
            /\ UNCHANGED <<time, drift, made, row, jwt, observed>>

\* The handler raises, the commit fails, or the process dies.
Abandon(g) == /\ hand[g] # Nothing
              /\ hand' = [hand EXCEPT ![g] = Nothing]
              /\ UNCHANGED <<time, drift, made, row, jwt, observed, served>>

AccessNext ==
    \/ Elapse
    \/ \E a \in Account, r \in Row : SetRow(a, r)
    \/ \E g \in Gateway : \/ CommitAccount(g) \/ LoadUser(g) \/ Serve(g) \/ Abandon(g)
                          \/ \E a \in Account : LoadForLogin(g, a)
                          \/ \E t \in JWT : \/ FinishLogin(g, t) \/ Decode(g, t)
                                            \/ \E a \in Account : RegisterAccount(g, t, a)

AccessSpec == AccessInit /\ [][AccessNext]_accessVars

----------------------------------------------------------------------------
(* Properties                                                                 *)

\* Every variable has its type.
AccessTypeOK == /\ time \in Nat
                /\ drift \in [Gateway -> 0 .. MaxDrift]
                /\ made \in SUBSET Account
                /\ row \in [Account -> Row]
                /\ jwt \in [JWT -> {NoJWT} \cup Claims]
                /\ hand \in [Gateway -> {Nothing} \cup InHand]
                /\ lastPresent \in [Account -> Nat]
                /\ lastActive \in [Account -> Nat]
                /\ lastApprover \in [Account -> Nat]
                /\ served \in {NotServed} \cup Served

\* How long a deactivated account may still be served: as long as the token of a
\* login that had begun lasts on the slowest clock.
Grace == Lifetime + Skew + MaxDrift + 2 * MaxHandling

\* Whatever operators change in between and whichever processes log in and serve:
\* an account that is deactivated is served for Grace at most, because no request
\* looks at is_active (get_current_user); one that lost its row or its role is
\* served, or served as an approver, by requests in hand only.
AuthorityEnds ==
    served.given =>
        /\ served.at < lastActive[served.account] + Grace
        /\ served.at <= lastPresent[served.account] + MaxHandling
        /\ served.asApprover => served.at <= lastApprover[served.account] + MaxHandling

=============================================================================
