------------------------------ MODULE HitlQueue ------------------------------
(* The human-in-the-loop approval queue: rows of approval_requests in the     *)
(* database, decided by approvers through gateway processes.                  *)
(*                                                                            *)
(* Each operation is one transaction that SELECTs without a lock and writes   *)
(* back by primary key only the columns it changed; the database runs at its  *)
(* default isolation level, so a write made between another transaction's     *)
(* read and commit is overwritten.  The handlers of one process contain no    *)
(* await, so a process has one transaction open at a time.                    *)
(* The optional Redis copy of a row (written after the commit, never read)    *)
(* and reset(), which only tests call, are left out.                          *)
EXTENDS Naturals, FiniteSets

CONSTANTS Process,      \* gateway processes
          Request,      \* request_id values
          Approver,     \* users with an approver role
          Tenant,       \* tenant_id values
          TTL,          \* HITLQueue(ttl_seconds)
          MaxTime       \* bound on the clock

ASSUME QueueAssumption == TTL \in Nat \ {0} /\ MaxTime \in Nat
ASSUME ProcessAssumption == IsFiniteSet(Process)
ASSUME NobodyAssumption == "nobody" \notin Approver
ASSUME AnyTenantAssumption == "any" \notin Tenant

VARIABLES now,      \* datetime.now(UTC)
          up,       \* the deployed processes
          row,      \* row[r]: the row of request r
          txn,      \* txn[p]: the open transaction of process p
          made,     \* history: decisions committed for r
          told      \* history: decisions whose caller was told of success

vars == <<now, up, row, txn, made, told>>

Verdict == {"approved", "rejected"}
Status == {"absent", "pending", "expired"} \cup Verdict
Row == [status : Status, expires : Nat, by : Approver \cup {"nobody"},
        at : Nat, tenant : Tenant \cup {"any"}]
NoRow == [status |-> "absent", expires |-> 0, by |-> "nobody", at |-> 0, tenant |-> "any"]
Decision == [verdict : Verdict, by : Approver, at : Nat]

Idle == [kind |-> "idle"]
Txn == {Idle}
       \cup [kind : {"decide"}, req : Request, dec : Decision]
       \cup [kind : {"expire"}, reqs : SUBSET Request, same : BOOLEAN, at : Nat]

----------------------------------------------------------------------------
(* Mutated forms of definitions below, used to check that the properties are  *)
(* sensitive to the code they are about.                                      *)

\* A row whose time has come may still be decided.
NeverExpired(r) == FALSE

\* A resolved row may be decided again.
AlwaysPending(r) == row[r].status # "absent"

\* Expiry clears the row back to the pending list.
BackToPending(r, t) ==
    IF t.same THEN [row[r] EXCEPT !.at = t.at]
    ELSE [row[r] EXCEPT !.status = "pending", !.at = t.at]

----------------------------------------------------------------------------

Init == /\ now = 0
        /\ up \in {P \in SUBSET Process : P # {}}
        /\ row = [r \in Request |-> NoRow]
        /\ txn = [p \in Process |-> Idle]
        /\ made = [r \in Request |-> {}]
        /\ told = [r \in Request |-> {}]

Tick == /\ now < MaxTime
        /\ now' = now + 1
        /\ UNCHANGED <<up, row, txn, made, told>>

\* A deployed process between two operations.
Free(p) == p \in up /\ txn[p] = Idle

\* enqueue_request: the unique request_id makes the INSERT of a second one fail.
Enqueue(p, r, tn) ==
    /\ Free(p)
    /\ row[r].status = "absent"
    /\ row' = [row EXCEPT ![r] = [status |-> "pending", expires |-> now + TTL,
                                  by |-> "nobody", at |-> 0, tenant |-> tn]]
    /\ UNCHANGED <<now, up, txn, made, told>>

\* "self._as_utc(model.expires_at) <= now"
HasExpired(r) == row[r].expires <= now

IsPending(r) == row[r].status = "pending"

\* _decide up to its writes, for a live pending request: a caller that names a
\* tenant (tn # "any") must name the request's.
DecideRead(p, r, v, a, tn) ==
    /\ Free(p)
    /\ row[r].status # "absent"
    /\ ~HasExpired(r)
    /\ IsPending(r)
    /\ tn = "any" \/ tn = row[r].tenant
    /\ txn' = [txn EXCEPT ![p] = [kind |-> "decide", req |-> r,
                                  dec |-> [verdict |-> v, by |-> a, at |-> now]]]
    /\ UNCHANGED <<now, up, row, made, told>>

\* _decide for a request whose time has come: it expires the row whatever its
\* status and whoever asks.  An UPDATE names the status only if it changes.
ExpireRead(p, r) ==
    /\ Free(p)
    /\ row[r].status # "absent"
    /\ HasExpired(r)
    /\ txn' = [txn EXCEPT ![p] = [kind |-> "expire", reqs |-> {r},
                                  same |-> row[r].status = "expired", at |-> now]]
    /\ UNCHANGED <<now, up, row, made, told>>

\* list_pending_requests, when it finds pending rows whose time has come.
ListRead(p, tn) ==
    LET due == {r \in Request : /\ row[r].status = "pending"
                                /\ tn = "any" \/ tn = row[r].tenant
                                /\ HasExpired(r)}
    IN  /\ Free(p)
        /\ due # {}
        /\ txn' = [txn EXCEPT ![p] = [kind |-> "expire", reqs |-> due,
                                      same |-> FALSE, at |-> now]]
        /\ UNCHANGED <<now, up, row, made, told>>

\* The columns a decision writes.
Decided(r, d) == [row[r] EXCEPT !.status = d.verdict, !.by = d.by, !.at = d.at]

\* The columns an expiry writes; decided_by stays.
ExpiredBy(r, t) == IF t.same THEN [row[r] EXCEPT !.at = t.at]
                   ELSE [row[r] EXCEPT !.status = "expired", !.at = t.at]

\* COMMIT of a decision, the caller is told, or the reply is lost.
DecideCommit(p) ==
    /\ txn[p].kind = "decide"
    /\ LET r == txn[p].req
           d == txn[p].dec
       IN  /\ row' = [row EXCEPT ![r] = Decided(r, d)]
           /\ made' = [made EXCEPT ![r] = @ \cup {d}]
           /\ \/ told' = [told EXCEPT ![r] = @ \cup {d}]
              \/ told' = told
    /\ txn' = [txn EXCEPT ![p] = Idle]
    /\ UNCHANGED <<now, up>>

\* COMMIT of an expiry; the caller is told that the request has expired.
ExpireCommit(p) ==
    /\ txn[p].kind = "expire"
    /\ row' = [r \in Request |-> IF r \in txn[p].reqs THEN ExpiredBy(r, txn[p]) ELSE row[r]]
    /\ txn' = [txn EXCEPT ![p] = Idle]
    /\ UNCHANGED <<now, up, made, told>>

\* The database fails or the process dies before the commit: rolled back.
Rollback(p) ==
    /\ txn[p] # Idle
    /\ txn' = [txn EXCEPT ![p] = Idle]
    /\ UNCHANGED <<now, up, row, made, told>>

Next == \/ Tick
        \/ \E p \in Process, r \in Request, tn \in Tenant \cup {"any"} : Enqueue(p, r, tn)
        \/ \E p \in Process, r \in Request, v \in Verdict, a \in Approver,
              tn \in Tenant \cup {"any"} : DecideRead(p, r, v, a, tn)
        \/ \E p \in Process, r \in Request : ExpireRead(p, r)
        \/ \E p \in Process, tn \in Tenant \cup {"any"} : ListRead(p, tn)
        \/ \E p \in Process : DecideCommit(p) \/ ExpireCommit(p) \/ Rollback(p)

Spec == Init /\ [][Next]_vars

----------------------------------------------------------------------------
(* Properties                                                                 *)

\* Every variable has its type.
TypeOK == /\ now \in Nat
          /\ up \in SUBSET Process
          /\ row \in [Request -> Row]
          /\ txn \in [Process -> Txn]
          /\ made \in [Request -> SUBSET Decision]
          /\ told \in [Request -> SUBSET Decision]

\* However many processes run, a row that says approved or rejected names the
\* approver of one committed decision, taken before the request expired; and no
\* caller was told of a decision that was not committed (_decide).
ResolvedByDecision ==
    \A r \in Request :
        /\ row[r].status \in Verdict =>
               \E d \in made[r] : /\ d.verdict = row[r].status
                                  /\ d.by = row[r].by
                                  /\ d.at < row[r].expires
        /\ told[r] \subseteq made[r]

\* However many processes run, a request somebody was told about never shows up
\* among the pending ones again (_decide, list_pending_requests).
ResolvedIsNotPending ==
    \A r \in Request : told[r] # {} => row[r].status \notin {"absent", "pending"}

\* The deployment of the Dockerfile: one process.
OneProcess == \A p, q \in up : p = q

\* With one process a request is decided at most once, and decided_at of a
\* resolved row is the moment of that decision ("already been resolved").
OneDecisionPerRequest ==
    OneProcess =>
        \A r \in Request : /\ \A d, e \in made[r] : d = e
                           /\ row[r].status \in Verdict => \E d \in made[r] : d.at = row[r].at

\* With more processes the race between a read and its commit is all there is: a
\* request is decided no more often than there are processes, since a process that
\* decides has read the row while it was pending and commits once (_decide).
RaceBounded == \A r \in Request : Cardinality(made[r]) <= Cardinality(up)

\* With one process a row's status only moves forward: pending is decided before
\* its time or expires at its time, an expired row never comes back, and a
\* decision is only ever replaced by "expired", once the request's time has come.
StatusMovesForward ==
    [][OneProcess =>
         \A r \in Request : row'[r].status # row[r].status =>
             \/ row[r].status = "absent" /\ row'[r].status = "pending"
             \/ row[r].status = "pending" /\ row'[r].status \in Verdict \cup {"expired"}
             \/ row[r].status \in Verdict /\ row'[r].status = "expired"
                                          /\ now >= row[r].expires]_vars

\* The queue as the abstract one sees it.
Abstract == INSTANCE ApprovalQueue WITH
    state <- [r \in Request |-> row[r].status],
    due <- {r \in Request : row[r].status # "absent" /\ HasExpired(r)}

\* One process implements the abstract queue: between the read of a transaction and
\* its commit nothing happens that makes the commit a second decision, a decision
\* of an expired request or an expiry before its time (_decide,
\* list_pending_requests).  Who is deployed never changes.
ImplementsQueue ==
    /\ OneProcess => Abstract!Init
    /\ [][OneProcess => [Abstract!Next]_(Abstract!queue)]_vars

\* What the audit report says of the queue ("prevents duplicate decisions"), for
\* any deployment: nobody is told of a second, different decision.
NoDuplicateDecision == \A r \in Request : \A d, e \in told[r] : d.verdict = e.verdict

=============================================================================
