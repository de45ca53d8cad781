---------------------------- MODULE HitlQueueProofs ----------------------------
(* Theorems about HitlQueue for any number of processes, requests and         *)
(* approvers: what a row says is backed by a committed, timely decision       *)
(* whatever the interleaving; and with one process a request is decided once  *)
(* and its status only moves forward.                                         *)
EXTENDS HitlQueue, FiniteSetTheorems, TLAPS

\* Only deployed processes have a transaction open.
TxnsAreDeployed == \A p \in Process : txn[p] # Idle => p \in up

\* A decision under way was taken in time, about a row that exists.
DecisionsAreTimely ==
    \A p \in Process : txn[p].kind = "decide" =>
        /\ row[txn[p].req].status # "absent"
        /\ txn[p].dec.at < row[txn[p].req].expires

\* An expiry under way is about rows whose time has come.
ExpiriesAreDue ==
    \A p \in Process : txn[p].kind = "expire" =>
        /\ txn[p].at <= now
        /\ \A r \in txn[p].reqs : /\ row[r].status # "absent"
                                  /\ row[r].expires <= txn[p].at

\* Once a decision was committed the row is no longer pending.
MadeIsResolved ==
    \A r \in Request : made[r] # {} => row[r].status \notin {"absent", "pending"}

\* With one process, what a transaction read still holds when it commits.
ReadsStillHold ==
    OneProcess => \A p \in Process :
        /\ txn[p].kind = "decide" => row[txn[p].req].status = "pending"
        /\ txn[p].kind = "expire" =>
              \A r \in txn[p].reqs : txn[p].same => row[r].status = "expired"

\* The inductive invariant.
IInv == /\ TypeOK
        /\ TxnsAreDeployed
        /\ DecisionsAreTimely
        /\ ExpiriesAreDue
        /\ MadeIsResolved
        /\ ReadsStillHold
        /\ ResolvedByDecision
        /\ OneDecisionPerRequest

----------------------------------------------------------------------------
(* Type correctness.                                                          *)

\* The shape of a transaction follows from its kind.
LEMMA TxnShape ==
    ASSUME TypeOK, NEW p \in Process
    PROVE  /\ txn[p].kind = "decide" => /\ txn[p] # Idle
                                        /\ txn[p].req \in Request
                                        /\ txn[p].dec \in Decision
           /\ txn[p].kind = "expire" => /\ txn[p] # Idle
                                        /\ txn[p].reqs \in SUBSET Request
                                        /\ txn[p].same \in BOOLEAN
                                        /\ txn[p].at \in Nat
           /\ Idle.kind = "idle"
<1>1. txn[p] \in Txn
  BY DEF TypeOK
<1> QED
  BY <1>1 DEF Txn, Idle

\* The rows that commits write are rows.
LEMMA WrittenRows ==
    ASSUME TypeOK, NEW r \in Request
    PROVE  /\ row[r] \in Row
           /\ \A d \in Decision : Decided(r, d) \in Row
           /\ \A t : t.at \in Nat => ExpiredBy(r, t) \in Row
<1>1. row[r] \in Row
  BY DEF TypeOK
<1>2. ASSUME NEW d \in Decision
      PROVE  Decided(r, d) \in Row
  BY <1>1 DEF Decided, Row, Status, Decision, Verdict
<1>3. ASSUME NEW t, t.at \in Nat
      PROVE  ExpiredBy(r, t) \in Row
  BY <1>1, <1>3 DEF ExpiredBy, Row, Status
<1> QED
  BY <1>1, <1>2, <1>3

\* The initial state has the types.
LEMMA InitType == Init => TypeOK
  BY DEF Init, TypeOK, NoRow, Row, Status, Txn

\* Every step keeps the types.
LEMMA NextType == TypeOK /\ [Next]_vars => TypeOK'
<1> SUFFICES ASSUME TypeOK, [Next]_vars
             PROVE  TypeOK'
  OBVIOUS
<1>1. CASE Tick
  BY <1>1 DEF Tick, TypeOK
<1>2. ASSUME NEW p \in Process, NEW r \in Request, NEW tn \in Tenant \cup {"any"},
             Enqueue(p, r, tn)
      PROVE  TypeOK'
  <2>1. [status |-> "pending", expires |-> now + TTL, by |-> "nobody", at |-> 0,
         tenant |-> tn] \in Row
    BY QueueAssumption DEF TypeOK, Row, Status
  <2> QED
    BY <1>2, <2>1 DEF Enqueue, TypeOK
<1>3. ASSUME NEW p \in Process, NEW r \in Request, NEW v \in Verdict, NEW a \in Approver,
             NEW tn \in Tenant \cup {"any"}, DecideRead(p, r, v, a, tn)
      PROVE  TypeOK'
  <2>1. [kind |-> "decide", req |-> r, dec |-> [verdict |-> v, by |-> a, at |-> now]] \in Txn
    BY DEF TypeOK, Txn, Decision
  <2> QED
    BY <1>3, <2>1 DEF DecideRead, TypeOK
<1>4. ASSUME NEW p \in Process, NEW r \in Request, ExpireRead(p, r)
      PROVE  TypeOK'
  <2>1. [kind |-> "expire", reqs |-> {r}, same |-> row[r].status = "expired", at |-> now] \in Txn
    BY DEF TypeOK, Txn
  <2> QED
    BY <1>4, <2>1 DEF ExpireRead, TypeOK
<1>5. ASSUME NEW p \in Process, NEW tn \in Tenant \cup {"any"}, ListRead(p, tn)
      PROVE  TypeOK'
  <2> DEFINE due == {r \in Request : /\ row[r].status = "pending"
                                     /\ tn = "any" \/ tn = row[r].tenant
                                     /\ HasExpired(r)}
  <2>1. [kind |-> "expire", reqs |-> due, same |-> FALSE, at |-> now] \in Txn
    BY DEF TypeOK, Txn
  <2>2. txn' = [txn EXCEPT ![p] = [kind |-> "expire", reqs |-> due, same |-> FALSE, at |-> now]]
    BY <1>5 DEF ListRead
  <2>3. UNCHANGED <<now, up, row, made, told>>
    BY <1>5 DEF ListRead
  <2> HIDE DEF due
  <2> QED
    BY <2>1, <2>2, <2>3 DEF TypeOK
<1>6. ASSUME NEW p \in Process, DecideCommit(p)
      PROVE  TypeOK'
  <2> DEFINE r == txn[p].req
             d == txn[p].dec
  <2>1. r \in Request /\ d \in Decision
    BY <1>6, TxnShape DEF DecideCommit
  <2>2. Decided(r, d) \in Row
    BY <2>1, WrittenRows
  <2>3. /\ row' = [row EXCEPT ![r] = Decided(r, d)]
        /\ made' = [made EXCEPT ![r] = @ \cup {d}]
        /\ told' = [told EXCEPT ![r] = @ \cup {d}] \/ told' = told
        /\ txn' = [txn EXCEPT ![p] = Idle]
        /\ UNCHANGED <<now, up>>
    BY <1>6 DEF DecideCommit
  <2>4. Idle \in Txn
    BY DEF Txn
  <2> HIDE DEF r, d
  <2> QED
    BY <2>1, <2>2, <2>3, <2>4 DEF TypeOK
<1>7. ASSUME NEW p \in Process, ExpireCommit(p)
      PROVE  TypeOK'
  <2>1. txn[p].at \in Nat
    BY <1>7, TxnShape DEF ExpireCommit
  <2>2. row' \in [Request -> Row]
    BY <1>7, <2>1, WrittenRows DEF ExpireCommit
  <2>3. Idle \in Txn
    BY DEF Txn
  <2> QED
    BY <1>7, <2>2, <2>3 DEF ExpireCommit, TypeOK
<1>8. ASSUME NEW p \in Process, Rollback(p)
      PROVE  TypeOK'
  <2>1. Idle \in Txn
    BY DEF Txn
  <2> QED
    BY <1>8, <2>1 DEF Rollback, TypeOK
<1>9. CASE UNCHANGED vars
  BY <1>9 DEF vars, TypeOK
<1> QED
  BY <1>1, <1>2, <1>3, <1>4, <1>5, <1>6, <1>7, <1>8, <1>9 DEF Next

\* Type correctness of the queue (TypeOK).
THEOREM TypeCorrect == Spec => []TypeOK
  BY InitType, NextType, PTL DEF Spec

----------------------------------------------------------------------------
(* The inductive invariant.                                                   *)

\* It holds initially.
LEMMA InitInv == Init => IInv
<1> SUFFICES ASSUME Init
             PROVE  IInv
  OBVIOUS
<1>1. TypeOK
  BY InitType
<1>2. /\ \A r \in Request : row[r].status = "absent" /\ made[r] = {} /\ told[r] = {}
      /\ \A p \in Process : txn[p] = Idle
  BY DEF Init, NoRow
<1> QED
  BY <1>1, <1>2 DEF IInv, TxnsAreDeployed, DecisionsAreTimely, ExpiriesAreDue, MadeIsResolved,
     ReadsStillHold, ResolvedByDecision, OneDecisionPerRequest, Idle, Verdict

\* A step that writes no row and closes transactions, or moves the clock forward.
LEMMA QuietStep ==
    ASSUME IInv, TypeOK', UNCHANGED <<up, row, made, told>>, now' >= now,
           \A p \in Process : txn'[p] = txn[p] \/ txn'[p] = Idle
    PROVE  IInv'
<1>1. now \in Nat /\ now' \in Nat /\ TypeOK
  BY DEF IInv, TypeOK
<1>2. TxnsAreDeployed' /\ DecisionsAreTimely' /\ ReadsStillHold'
  BY DEF IInv, TxnsAreDeployed, DecisionsAreTimely, ReadsStillHold, OneProcess, Idle
<1>3. ExpiriesAreDue'
  <2> SUFFICES ASSUME NEW p \in Process, txn[p].kind = "expire", txn'[p] = txn[p]
               PROVE  txn[p].at <= now'
    BY DEF IInv, ExpiriesAreDue, Idle
  <2>1. txn[p].at \in Nat /\ txn[p].at <= now
    BY <1>1, TxnShape DEF IInv, ExpiriesAreDue
  <2> QED
    BY <1>1, <2>1
<1> QED
  BY <1>2, <1>3 DEF IInv, MadeIsResolved, ResolvedByDecision, OneDecisionPerRequest, OneProcess

\* A step that only opens a transaction at one process keeps what rows say.
LEMMA ReadStep ==
    ASSUME IInv, TypeOK', UNCHANGED <<now, up, row, made, told>>,
           NEW p \in Process, p \in up,
           \A q \in Process \ {p} : txn'[q] = txn[q],
           txn'[p].kind = "decide" => /\ row[txn'[p].req].status = "pending"
                                      /\ txn'[p].dec.at < row[txn'[p].req].expires,
           txn'[p].kind = "expire" =>
               /\ txn'[p].at <= now
               /\ \A r \in txn'[p].reqs : /\ row[r].status # "absent"
                                          /\ row[r].expires <= txn'[p].at
                                          /\ txn'[p].same => row[r].status = "expired"
    PROVE  IInv'
<1>1. TxnsAreDeployed' /\ DecisionsAreTimely' /\ ExpiriesAreDue' /\ ReadsStillHold'
  BY DEF IInv, TxnsAreDeployed, DecisionsAreTimely, ExpiriesAreDue, ReadsStillHold, OneProcess
<1> QED
  BY <1>1 DEF IInv, MadeIsResolved, ResolvedByDecision, OneDecisionPerRequest, OneProcess

\* With one process, a process with a transaction open is the only one.
LEMMA OnlyTxn ==
    ASSUME IInv, OneProcess, NEW p \in Process, txn[p] # Idle,
           NEW q \in Process, txn[q] # Idle
    PROVE  p = q
  BY DEF IInv, TxnsAreDeployed, OneProcess

\* Every step keeps it.
LEMMA NextInv == IInv /\ [Next]_vars => IInv'
<1> SUFFICES ASSUME IInv, [Next]_vars
             PROVE  IInv'
  OBVIOUS
<1>a. TypeOK /\ TypeOK'
  BY NextType DEF IInv
<1>1. CASE Tick
  BY <1>1, <1>a, QuietStep DEF Tick, TypeOK
<1>2. ASSUME NEW p \in Process, NEW r \in Request, NEW tn \in Tenant \cup {"any"},
             Enqueue(p, r, tn)
      PROVE  IInv'
  <2>1. /\ row[r].status = "absent"
        /\ row'[r].status = "pending"
        /\ \A s \in Request \ {r} : row'[s] = row[s]
        /\ UNCHANGED <<now, up, txn, made, told>>
    BY <1>2, <1>a DEF Enqueue, TypeOK
  <2>2. made[r] = {} /\ told[r] = {}
    BY <2>1 DEF IInv, MadeIsResolved, ResolvedByDecision
  <2>3. \A q \in Process : /\ txn[q].kind = "decide" => txn[q].req # r
                           /\ txn[q].kind = "expire" => r \notin txn[q].reqs
    BY <2>1 DEF IInv, DecisionsAreTimely, ExpiriesAreDue
  <2>4. TxnsAreDeployed' /\ MadeIsResolved' /\ ResolvedByDecision' /\ OneDecisionPerRequest'
    BY <2>1, <2>2 DEF IInv, TxnsAreDeployed, MadeIsResolved, ResolvedByDecision,
       OneDecisionPerRequest, OneProcess, Verdict
  <2>5. DecisionsAreTimely' /\ ExpiriesAreDue' /\ ReadsStillHold'
    BY <1>a, <2>1, <2>3, TxnShape DEF IInv, DecisionsAreTimely, ExpiriesAreDue, ReadsStillHold,
       OneProcess
  <2> QED
    BY <1>a, <2>4, <2>5 DEF IInv
<1>3. ASSUME NEW p \in Process, NEW r \in Request, NEW v \in Verdict, NEW a \in Approver,
             NEW tn \in Tenant \cup {"any"}, DecideRead(p, r, v, a, tn)
      PROVE  IInv'
  <2>1. /\ p \in up
        /\ \A q \in Process \ {p} : txn'[q] = txn[q]
        /\ UNCHANGED <<now, up, row, made, told>>
    BY <1>3, <1>a DEF DecideRead, Free, TypeOK
  <2>2. /\ txn'[p].kind = "decide"
        /\ txn'[p].req = r
        /\ txn'[p].dec.at = now
    BY <1>3, <1>a DEF DecideRead, TypeOK
  <2>3. row[r].status = "pending" /\ now < row[r].expires
    BY <1>3, <1>a DEF DecideRead, IsPending, HasExpired, TypeOK, Row
  <2> QED
    BY <1>a, <2>1, <2>2, <2>3, ReadStep
<1>4. ASSUME NEW p \in Process, NEW r \in Request, ExpireRead(p, r)
      PROVE  IInv'
  <2>1. /\ p \in up
        /\ \A q \in Process \ {p} : txn'[q] = txn[q]
        /\ UNCHANGED <<now, up, row, made, told>>
    BY <1>4, <1>a DEF ExpireRead, Free, TypeOK
  <2>2. txn'[p] = [kind |-> "expire", reqs |-> {r}, same |-> row[r].status = "expired",
                   at |-> now]
    BY <1>4, <1>a DEF ExpireRead, TypeOK
  <2>3. row[r].status # "absent" /\ row[r].expires <= now /\ now <= now
    BY <1>4, <1>a DEF ExpireRead, HasExpired, TypeOK
  <2>4. /\ txn'[p].kind = "expire"
        /\ txn'[p].at = now
        /\ \A s \in txn'[p].reqs : s = r
        /\ txn'[p].same => row[r].status = "expired"
    <3>1. ASSUME NEW b \in BOOLEAN, NEW o,
                 o = [kind |-> "expire", reqs |-> {r}, same |-> b, at |-> now]
          PROVE  o.kind = "expire" /\ o.at = now /\ o.reqs = {r} /\ (o.same => b)
      BY <3>1
    <3>2. (row[r].status = "expired") \in BOOLEAN
      OBVIOUS
    <3>3. txn'[p].kind = "expire" /\ txn'[p].at = now /\ txn'[p].reqs = {r}
      BY <2>2
    <3>4. txn'[p].same => row[r].status = "expired"
      BY <2>2, <3>1, <3>2, Zenon
    <3> QED
      BY <3>3, <3>4
  <2>5. txn'[p].kind = "expire" =>
            /\ txn'[p].at <= now
            /\ \A s \in txn'[p].reqs : /\ row[s].status # "absent"
                                       /\ row[s].expires <= txn'[p].at
                                       /\ txn'[p].same => row[s].status = "expired"
    BY <2>3, <2>4
  <2>6. txn'[p].kind # "decide"
    BY <2>4
  <2> QED
    BY <1>a, <2>1, <2>5, <2>6, ReadStep
<1>5. ASSUME NEW p \in Process, NEW tn \in Tenant \cup {"any"}, ListRead(p, tn)
      PROVE  IInv'
  <2> DEFINE due == {r \in Request : /\ row[r].status = "pending"
                                     /\ tn = "any" \/ tn = row[r].tenant
                                     /\ HasExpired(r)}
  <2>1. /\ p \in up
        /\ \A q \in Process \ {p} : txn'[q] = txn[q]
        /\ UNCHANGED <<now, up, row, made, told>>
    BY <1>5, <1>a DEF ListRead, Free, TypeOK
  <2>2. txn'[p] = [kind |-> "expire", reqs |-> due, same |-> FALSE, at |-> now]
    BY <1>5, <1>a DEF ListRead, TypeOK
  <2>3. \A r \in due : row[r].status # "absent" /\ row[r].expires <= now
    BY DEF HasExpired
  <2>4. now <= now
    BY <1>a DEF TypeOK
  <2> HIDE DEF due
  <2> QED
    BY <1>a, <2>1, <2>2, <2>3, <2>4, ReadStep
<1>6. ASSUME NEW p \in Process, DecideCommit(p)
      PROVE  IInv'
  <2> DEFINE r == txn[p].req
             d == txn[p].dec
  <2>1. r \in Request /\ d \in Decision /\ txn[p] # Idle /\ txn[p].kind = "decide"
    BY <1>6, <1>a, TxnShape DEF DecideCommit
  <2>2. /\ row'[r] = Decided(r, d)
        /\ \A s \in Request \ {r} : row'[s] = row[s]
        /\ made'[r] = made[r] \cup {d}
        /\ \A s \in Request \ {r} : made'[s] = made[s]
        /\ told'[r] \subseteq told[r] \cup {d}
        /\ \A s \in Request \ {r} : told'[s] = told[s]
        /\ txn'[p] = Idle
        /\ \A q \in Process \ {p} : txn'[q] = txn[q]
        /\ UNCHANGED <<now, up>>
    BY <1>6, <1>a, <2>1 DEF DecideCommit, TypeOK
  <2>3. /\ row'[r].status = d.verdict
        /\ row'[r].by = d.by
        /\ row'[r].at = d.at
        /\ row'[r].expires = row[r].expires
        /\ d.verdict \in Verdict
    BY <1>a, <2>1, <2>2 DEF Decided, TypeOK, Row, Decision
  <2>4. d.at < row[r].expires
    BY <2>1 DEF IInv, DecisionsAreTimely
  <2> HIDE DEF r, d
  <2>5. \A s \in Request : /\ row'[s].expires = row[s].expires
                           /\ row[s].status # "absent" => row'[s].status # "absent"
    BY <2>2, <2>3 DEF Verdict
  <2>6. TxnsAreDeployed' /\ MadeIsResolved'
    BY <2>2, <2>3 DEF IInv, TxnsAreDeployed, MadeIsResolved, Verdict
  <2>7. DecisionsAreTimely' /\ ExpiriesAreDue'
    BY <1>a, <2>2, <2>5, TxnShape DEF IInv, DecisionsAreTimely, ExpiriesAreDue, TypeOK
  <2>8. ReadsStillHold'
    <3> SUFFICES ASSUME OneProcess
                 PROVE  \A q \in Process : txn'[q] = Idle
      BY <2>2, <1>a, TxnShape DEF ReadsStillHold, OneProcess, Idle
    <3> QED
      BY <2>1, <2>2, OnlyTxn
  <2>9. ResolvedByDecision'
    <3>1. \A s \in Request \ {r} :
             /\ row'[s].status \in Verdict =>
                   \E e \in made'[s] : /\ e.verdict = row'[s].status
                                       /\ e.by = row'[s].by
                                       /\ e.at < row'[s].expires
             /\ told'[s] \subseteq made'[s]
      BY <2>2 DEF IInv, ResolvedByDecision
    <3>2. told'[r] \subseteq made'[r] /\ d \in made'[r]
      BY <2>1, <2>2 DEF IInv, ResolvedByDecision
    <3> QED
      BY <2>3, <2>4, <3>1, <3>2 DEF ResolvedByDecision
  <2>10. OneDecisionPerRequest'
    <3> SUFFICES ASSUME OneProcess
                 PROVE  \A s \in Request :
                          /\ \A e, f \in made'[s] : e = f
                          /\ row'[s].status \in Verdict => \E e \in made'[s] : e.at = row'[s].at
      BY <2>2 DEF OneDecisionPerRequest, OneProcess
    <3>1. row[r].status = "pending"
      BY <2>1 DEF IInv, ReadsStillHold, r
    <3>2. made[r] = {}
      BY <2>1, <3>1 DEF IInv, MadeIsResolved
    <3>3. made'[r] = {d}
      BY <2>2, <3>2
    <3> QED
      BY <2>1, <2>2, <2>3, <3>3 DEF IInv, OneDecisionPerRequest
  <2> QED
    BY <1>a, <2>6, <2>7, <2>8, <2>9, <2>10 DEF IInv
<1>7. ASSUME NEW p \in Process, ExpireCommit(p)
      PROVE  IInv'
  <2> DEFINE t == txn[p]
  <2>1. t.kind = "expire" /\ t # Idle /\ t.reqs \in SUBSET Request /\ t.same \in BOOLEAN
    BY <1>7, <1>a, TxnShape DEF ExpireCommit
  <2>2. /\ \A r \in t.reqs : row'[r] = ExpiredBy(r, t)
        /\ \A r \in Request \ t.reqs : row'[r] = row[r]
        /\ txn'[p] = Idle
        /\ \A q \in Process \ {p} : txn'[q] = txn[q]
        /\ UNCHANGED <<now, up, made, told>>
    BY <1>7, <1>a, <2>1 DEF ExpireCommit, TypeOK
  <2>3. \A r \in t.reqs : /\ row'[r].status = IF t.same THEN row[r].status ELSE "expired"
                          /\ row'[r].by = row[r].by
                          /\ row'[r].expires = row[r].expires
    <3> SUFFICES ASSUME NEW r \in t.reqs
                 PROVE  /\ row'[r].status = IF t.same THEN row[r].status ELSE "expired"
                        /\ row'[r].by = row[r].by
                        /\ row'[r].expires = row[r].expires
      OBVIOUS
    <3>1. row[r] \in Row /\ row'[r] = ExpiredBy(r, t)
      BY <1>a, <2>1, <2>2 DEF TypeOK
    <3> HIDE DEF t
    <3> QED
      BY <3>1 DEF ExpiredBy, Row
  <2>4. \A r \in t.reqs : row[r].status # "absent"
    BY <2>1 DEF IInv, ExpiriesAreDue
  <2>5. OneProcess => \A r \in t.reqs : row'[r].status = "expired"
    BY <2>1, <2>3 DEF IInv, ReadsStillHold
  <2> HIDE DEF t
  <2>6. \A s \in Request : /\ row'[s].expires = row[s].expires
                           /\ row'[s].by = row[s].by
                           /\ row'[s].status = row[s].status \/ row'[s].status = "expired"
    BY <2>2, <2>3
  <2>7. TxnsAreDeployed' /\ MadeIsResolved' /\ ResolvedByDecision'
    BY <2>2, <2>6 DEF IInv, TxnsAreDeployed, MadeIsResolved, ResolvedByDecision, Verdict
  <2>8. DecisionsAreTimely' /\ ExpiriesAreDue'
    BY <1>a, <2>2, <2>6, TxnShape DEF IInv, DecisionsAreTimely, ExpiriesAreDue, TypeOK, Idle
  <2>9. ReadsStillHold'
    <3> SUFFICES ASSUME OneProcess
                 PROVE  \A q \in Process : txn'[q] = Idle
      BY <2>2, <1>a, TxnShape DEF ReadsStillHold, OneProcess, Idle
    <3> QED
      BY <2>1, <2>2, OnlyTxn DEF t
  <2>10. OneDecisionPerRequest'
    BY <2>2, <2>5 DEF IInv, OneDecisionPerRequest, OneProcess, Verdict
  <2> QED
    BY <1>a, <2>7, <2>8, <2>9, <2>10 DEF IInv
<1>8. ASSUME NEW p \in Process, Rollback(p)
      PROVE  IInv'
  BY <1>8, <1>a, QuietStep DEF Rollback, TypeOK
<1>9. CASE UNCHANGED vars
  BY <1>9, <1>a, QuietStep DEF vars, TypeOK
<1> QED
  BY <1>1, <1>2, <1>3, <1>4, <1>5, <1>6, <1>7, <1>8, <1>9 DEF Next

\* The inductive invariant of the queue.
THEOREM Invariance == Spec => []IInv
  BY InitInv, NextInv, PTL DEF Spec

\* Whatever the interleaving, an approved or rejected row is backed by a committed
\* decision taken in time, and callers are told of committed decisions only.
THEOREM ResolvedByDecisionTheorem == Spec => []ResolvedByDecision
<1>1. IInv => ResolvedByDecision
  BY DEF IInv
<1> QED
  BY <1>1, Invariance, PTL

\* Whatever the interleaving, a request somebody was told about is not listed as
\* pending again.
THEOREM ResolvedIsNotPendingTheorem == Spec => []ResolvedIsNotPending
<1>1. IInv => ResolvedIsNotPending
  BY DEF IInv, ResolvedIsNotPending, MadeIsResolved, ResolvedByDecision
<1> QED
  BY <1>1, Invariance, PTL

\* With one process a request is decided at most once.
THEOREM OneDecisionTheorem == Spec => []OneDecisionPerRequest
<1>1. IInv => OneDecisionPerRequest
  BY DEF IInv
<1> QED
  BY <1>1, Invariance, PTL

----------------------------------------------------------------------------
(* What a step may never do.                                                  *)

\* The steps of StatusMovesForward, from the inductive invariant.
LEMMA ForwardStep ==
    ASSUME IInv, [Next]_vars, OneProcess, NEW r \in Request,
           row'[r].status # row[r].status
    PROVE  \/ row[r].status = "absent" /\ row'[r].status = "pending"
           \/ row[r].status = "pending" /\ row'[r].status \in Verdict \cup {"expired"}
           \/ row[r].status \in Verdict /\ row'[r].status = "expired" /\ now >= row[r].expires
<1>a. TypeOK
  BY DEF IInv
<1>b. row[r].status \in Status /\ row[r].expires \in Nat /\ now \in Nat
  BY <1>a DEF TypeOK, Row
<1>1. ASSUME NEW p \in Process, NEW s \in Request, NEW tn \in Tenant \cup {"any"},
             Enqueue(p, s, tn)
      PROVE  row[r].status = "absent" /\ row'[r].status = "pending"
  BY <1>1, <1>a DEF Enqueue, TypeOK
<1>2. ASSUME NEW p \in Process, DecideCommit(p)
      PROVE  row[r].status = "pending" /\ row'[r].status \in Verdict
  <2>1. txn[p].req \in Request /\ txn[p].dec \in Decision
    BY <1>2, <1>a, TxnShape DEF DecideCommit
  <2>2. row' = [row EXCEPT ![txn[p].req] = Decided(txn[p].req, txn[p].dec)]
    BY <1>2 DEF DecideCommit
  <2>3. r = txn[p].req /\ row'[r] = Decided(r, txn[p].dec)
    BY <1>a, <2>1, <2>2 DEF TypeOK
  <2>4. row[r].status = "pending"
    BY <1>2, <2>3 DEF DecideCommit, IInv, ReadsStillHold
  <2>5. row'[r].status = txn[p].dec.verdict
    BY <1>a, <2>3 DEF Decided, TypeOK, Row
  <2> QED
    BY <2>1, <2>4, <2>5 DEF Decision
<1>3. ASSUME NEW p \in Process, ExpireCommit(p)
      PROVE  /\ row[r].status # "absent"
             /\ row'[r].status = "expired"
             /\ now >= row[r].expires
  <2>1. txn[p].reqs \in SUBSET Request /\ txn[p].kind = "expire" /\ txn[p].at \in Nat
    BY <1>3, <1>a, TxnShape DEF ExpireCommit
  <2>2. r \in txn[p].reqs /\ row'[r] = ExpiredBy(r, txn[p])
    BY <1>3, <1>a DEF ExpireCommit, TypeOK
  <2>3. /\ row[r].status # "absent"
        /\ row[r].expires <= txn[p].at
        /\ txn[p].at <= now
    BY <2>1, <2>2 DEF IInv, ExpiriesAreDue
  <2>4. row[r] \in Row
    BY <1>a DEF TypeOK
  <2>5. row'[r].status = "expired"
    BY <2>2, <2>4 DEF ExpiredBy, Row
  <2> QED
    BY <1>b, <2>1, <2>3, <2>5
<1>4. row' # row
  OBVIOUS
<1>5. \/ \E p \in Process, s \in Request, tn \in Tenant \cup {"any"} : Enqueue(p, s, tn)
      \/ \E p \in Process : DecideCommit(p) \/ ExpireCommit(p)
  BY <1>4 DEF Next, vars, Tick, DecideRead, ExpireRead, ListRead, Rollback
<1> QED
  BY <1>b, <1>1, <1>2, <1>3, <1>5 DEF Status

\* With one process the status of a request only moves forward (StatusMovesForward).
THEOREM StatusMovesForwardTheorem == Spec => StatusMovesForward
<1>1. IInv /\ [Next]_vars =>
        [OneProcess =>
           \A r \in Request : row'[r].status # row[r].status =>
             \/ row[r].status = "absent" /\ row'[r].status = "pending"
             \/ row[r].status = "pending" /\ row'[r].status \in Verdict \cup {"expired"}
             \/ row[r].status \in Verdict /\ row'[r].status = "expired"
                                          /\ now >= row[r].expires]_vars
  BY ForwardStep
<1> QED
  BY <1>1, Invariance, PTL DEF Spec, StatusMovesForward

----------------------------------------------------------------------------
(* How far the race between processes goes.                                   *)

\* The processes about to commit a decision on r.
Deciders(r) == {p \in Process : txn[p].kind = "decide" /\ txn[p].req = r}

\* Every decision on r that was committed, or is about to be, takes a process.
RaceInv ==
    \A r \in Request : /\ IsFiniteSet(made[r])
                       /\ Cardinality(made[r]) + Cardinality(Deciders(r)) <= Cardinality(up)

\* Sets of processes are finite, and the larger has the larger cardinality.
LEMMA ProcessSets ==
    ASSUME NEW S \in SUBSET Process
    PROVE  /\ IsFiniteSet(S)
           /\ Cardinality(S) \in Nat
           /\ \A T \in SUBSET S : Cardinality(T) <= Cardinality(S)
<1>1. IsFiniteSet(S)
  BY ProcessAssumption, FS_Subset
<1> QED
  BY <1>1, FS_Subset, FS_CardinalityType

\* A request that was not decided on and has no new deciders keeps its account.
LEMMA RaceUnchanged ==
    ASSUME RaceInv, up' = up, NEW r \in Request, made'[r] = made[r],
           Deciders(r)' \subseteq Deciders(r), up \in SUBSET Process
    PROVE  /\ IsFiniteSet(made'[r])
           /\ Cardinality(made'[r]) + Cardinality(Deciders(r)') <= Cardinality(up')
<1>1. /\ IsFiniteSet(made[r]) /\ Cardinality(made[r]) \in Nat
      /\ Cardinality(made[r]) + Cardinality(Deciders(r)) <= Cardinality(up)
  BY FS_CardinalityType DEF RaceInv
<1>2. PICK D \in SUBSET Process : D = Deciders(r)
  BY DEF Deciders
<1>3. PICK E \in SUBSET D : E = Deciders(r)'
  BY <1>2
<1>4. Cardinality(D) \in Nat /\ Cardinality(E) \in Nat /\ Cardinality(E) <= Cardinality(D)
  BY ProcessSets
<1>5. Cardinality(up) \in Nat
  BY ProcessSets
<1>6. Cardinality(made[r]) + Cardinality(E) <= Cardinality(up)
  BY <1>1, <1>2, <1>4, <1>5
<1> QED
  BY <1>1, <1>3, <1>6

\* A request nobody decided on has room for as many deciders as there are processes.
LEMMA RaceUndecided ==
    ASSUME NEW r \in Request, made'[r] = {}, Deciders(r)' \subseteq up', up' \in SUBSET Process
    PROVE  /\ IsFiniteSet(made'[r])
           /\ Cardinality(made'[r]) + Cardinality(Deciders(r)') <= Cardinality(up')
<1>1. PICK P \in SUBSET Process : P = up'
  OBVIOUS
<1>2. PICK D \in SUBSET P : D = Deciders(r)'
  BY <1>1
<1>3. Cardinality(P) \in Nat /\ Cardinality(D) \in Nat /\ Cardinality(D) <= Cardinality(P)
  BY ProcessSets
<1>4. IsFiniteSet({}) /\ Cardinality({}) = 0
  BY FS_EmptySet
<1>5. 0 + Cardinality(D) <= Cardinality(P)
  BY <1>3
<1> QED
  BY <1>1, <1>2, <1>4, <1>5

\* A commit turns a decider into a decision.
LEMMA RaceCommit ==
    ASSUME RaceInv, TypeOK, NEW p \in Process, DecideCommit(p), NEW r \in Request,
           txn[p].req = r
    PROVE  /\ IsFiniteSet(made'[r])
           /\ Cardinality(made'[r]) + Cardinality(Deciders(r)') <= Cardinality(up')
<1>1. /\ made'[r] = made[r] \cup {txn[p].dec}
      /\ txn'[p] = Idle /\ \A q \in Process \ {p} : txn'[q] = txn[q]
      /\ up' = up /\ up \in SUBSET Process
      /\ txn[p].kind = "decide"
  BY DEF DecideCommit, TypeOK
<1>2. /\ IsFiniteSet(made[r]) /\ Cardinality(made[r]) \in Nat
      /\ Cardinality(made[r]) + Cardinality(Deciders(r)) <= Cardinality(up)
  BY FS_CardinalityType DEF RaceInv
<1>3. PICK D \in SUBSET Process : D = Deciders(r)
  BY DEF Deciders
<1>4. p \in D /\ Deciders(r)' = D \ {p}
  BY <1>1, <1>3, TxnShape DEF Deciders
<1>5. /\ Cardinality(D) \in Nat /\ Cardinality(D \ {p}) = Cardinality(D) - 1
      /\ Cardinality(up) \in Nat
  BY <1>1, <1>4, ProcessSets, FS_RemoveElement
<1>6. PICK M : M = made'[r] /\ IsFiniteSet(M) /\ Cardinality(M) \in Nat
              /\ Cardinality(M) <= Cardinality(made[r]) + 1
  <2>1. PICK d : d = txn[p].dec
    OBVIOUS
  <2>2. /\ IsFiniteSet(made[r] \cup {d})
        /\ Cardinality(made[r] \cup {d}) = IF d \in made[r] THEN Cardinality(made[r])
                                                          ELSE Cardinality(made[r]) + 1
    BY <1>2, FS_AddElement
  <2> QED
    BY <1>1, <1>2, <2>1, <2>2
<1>7. Cardinality(M) + Cardinality(D \ {p}) <= Cardinality(up)
  BY <1>2, <1>3, <1>5, <1>6
<1> QED
  BY <1>1, <1>4, <1>6, <1>7

\* Every step keeps the account.
LEMMA RaceNext == IInv /\ RaceInv /\ [Next]_vars => RaceInv'
<1> SUFFICES ASSUME IInv, RaceInv, [Next]_vars, NEW r \in Request
             PROVE  /\ IsFiniteSet(made'[r])
                    /\ Cardinality(made'[r]) + Cardinality(Deciders(r)') <= Cardinality(up')
  BY DEF RaceInv, Deciders
<1>a. TypeOK /\ up' = up /\ up \in SUBSET Process
  BY DEF IInv, TypeOK, Next, vars, Tick, Enqueue, DecideRead, ExpireRead, ListRead, DecideCommit,
     ExpireCommit, Rollback
<1>1. ASSUME made'[r] = made[r], \A p \in Process : txn'[p] = txn[p] \/ txn'[p].kind # "decide"
      PROVE  Deciders(r)' \subseteq Deciders(r)
  BY <1>1 DEF Deciders
<1>2. CASE Tick \/ UNCHANGED vars
  BY <1>1, <1>2, <1>a, RaceUnchanged DEF Tick, vars
<1>3. ASSUME NEW p \in Process, NEW s \in Request, NEW tn \in Tenant \cup {"any"},
             Enqueue(p, s, tn)
      PROVE  made'[r] = made[r] /\ Deciders(r)' \subseteq Deciders(r)
  BY <1>1, <1>3 DEF Enqueue
<1>4. ASSUME NEW p \in Process, NEW s \in Request, NEW v \in Verdict, NEW a \in Approver,
             NEW tn \in Tenant \cup {"any"}, DecideRead(p, s, v, a, tn)
      PROVE  \/ made'[r] = made[r] /\ Deciders(r)' \subseteq Deciders(r)
             \/ made'[r] = {} /\ Deciders(r)' \subseteq up'
  <2>1. /\ p \in up /\ row[s].status = "pending" /\ made' = made
        /\ txn'[p].kind = "decide" /\ txn'[p].req = s
        /\ \A q \in Process \ {p} : txn'[q] = txn[q]
    BY <1>4, <1>a DEF DecideRead, Free, IsPending, TypeOK
  <2>2. CASE r = s
    <3>1. made[r] = {}
      BY <2>1, <2>2 DEF IInv, MadeIsResolved
    <3>2. Deciders(r)' \subseteq up'
      BY <1>a, <2>1, TxnShape DEF Deciders, IInv, TxnsAreDeployed
    <3> QED
      BY <2>1, <3>1, <3>2
  <2>3. CASE r # s
    BY <2>1, <2>3 DEF Deciders
  <2> QED
    BY <2>2, <2>3
<1>5. ASSUME NEW p \in Process, NEW s \in Request, ExpireRead(p, s)
      PROVE  made'[r] = made[r] /\ Deciders(r)' \subseteq Deciders(r)
  <2>1. made' = made /\ \A q \in Process : txn'[q] = txn[q] \/ txn'[q].kind # "decide"
    BY <1>5, <1>a DEF ExpireRead, TypeOK
  <2> QED
    BY <1>1, <2>1
<1>6. ASSUME NEW p \in Process, NEW tn \in Tenant \cup {"any"}, ListRead(p, tn)
      PROVE  made'[r] = made[r] /\ Deciders(r)' \subseteq Deciders(r)
  <2>1. made' = made /\ \A q \in Process : txn'[q] = txn[q] \/ txn'[q].kind # "decide"
    BY <1>6, <1>a DEF ListRead, TypeOK
  <2> QED
    BY <1>1, <2>1
<1>7. ASSUME NEW p \in Process, DecideCommit(p), txn[p].req # r
      PROVE  made'[r] = made[r] /\ Deciders(r)' \subseteq Deciders(r)
  <2>1. made'[r] = made[r] /\ \A q \in Process : txn'[q] = txn[q] \/ txn'[q] = Idle
    BY <1>7, <1>a, TxnShape DEF DecideCommit, TypeOK
  <2>2. Idle.kind # "decide"
    BY DEF Idle
  <2> QED
    BY <1>1, <2>1, <2>2
<1>8. ASSUME NEW p \in Process, ExpireCommit(p) \/ Rollback(p)
      PROVE  made'[r] = made[r] /\ Deciders(r)' \subseteq Deciders(r)
  <2>1. made' = made /\ \A q \in Process : txn'[q] = txn[q] \/ txn'[q] = Idle
    BY <1>8, <1>a DEF ExpireCommit, Rollback, TypeOK
  <2>2. Idle.kind # "decide"
    BY DEF Idle
  <2> QED
    BY <1>1, <2>1, <2>2
<1>9. ASSUME NEW p \in Process, DecideCommit(p), txn[p].req = r
      PROVE  /\ IsFiniteSet(made'[r])
             /\ Cardinality(made'[r]) + Cardinality(Deciders(r)') <= Cardinality(up')
  BY <1>9, <1>a, RaceCommit
<1> QED
  BY <1>a, <1>2, <1>3, <1>4, <1>5, <1>6, <1>7, <1>8, <1>9, RaceUnchanged, RaceUndecided DEF Next

\* However many processes run, a request is decided no more often than there are
\* processes (RaceBounded).
THEOREM RaceTheorem == Spec => []RaceBounded
<1>1. Init => RaceInv
  <2> SUFFICES ASSUME Init, NEW r \in Request
               PROVE  /\ IsFiniteSet(made[r])
                      /\ Cardinality(made[r]) + Cardinality(Deciders(r)) <= Cardinality(up)
    BY DEF RaceInv
  <2>1. made[r] = {} /\ Deciders(r) = {} /\ up \in SUBSET Process
    BY DEF Init, Deciders, Idle
  <2>2. Cardinality(up) \in Nat
    BY <2>1, ProcessSets
  <2>3. IsFiniteSet({}) /\ Cardinality({}) = 0
    BY FS_EmptySet
  <2> QED
    BY <2>1, <2>2, <2>3
<1>2. TypeOK /\ RaceInv => RaceBounded
  <2> SUFFICES ASSUME TypeOK, RaceInv, NEW r \in Request
               PROVE  Cardinality(made[r]) <= Cardinality(up)
    BY DEF RaceBounded
  <2>1. PICK D \in SUBSET Process : D = Deciders(r)
    BY DEF Deciders
  <2>2. Cardinality(D) \in Nat /\ Cardinality(up) \in Nat
    BY ProcessSets DEF TypeOK
  <2>3. Cardinality(made[r]) \in Nat /\ Cardinality(made[r]) + Cardinality(D) <= Cardinality(up)
    BY <2>1, FS_CardinalityType DEF RaceInv
  <2> QED
    BY <2>2, <2>3
<1>3. Spec => []RaceInv
  BY <1>1, RaceNext, Invariance, PTL DEF Spec
<1> QED
  BY <1>2, <1>3, TypeCorrect, PTL

----------------------------------------------------------------------------
(* One process implements the abstract queue.                                 *)

\* The parts of the abstract state, under names of their own.
State == [r \in Request |-> row[r].status]
Due == {r \in Request : row[r].status # "absent" /\ HasExpired(r)}

\* A step that leaves the rows and histories alone is one of time passing, or none.
LEMMA QuietStutter ==
    ASSUME TypeOK, TypeOK', UNCHANGED <<row, made, told>>, now' >= now
    PROVE  [Abstract!Next]_(Abstract!queue)
<1>1. State' = State
  BY DEF State
<1>2. Due' = Due \cup Due'
  BY DEF Due, HasExpired, TypeOK, Row
<1>3. Due' \in SUBSET Request /\ \A r \in Due' : State[r] # "absent"
  BY DEF Due, State
<1>4. PICK S \in SUBSET Request : S = Due'
  BY <1>3
<1>5. Abstract!Elapse(S)
  BY <1>1, <1>2, <1>3, <1>4 DEF Abstract!Elapse, State, Due
<1> QED
  BY <1>5 DEF Abstract!Next

\* The row that enters the queue is pending and not due.
LEMMA EnqueueSubmits ==
    ASSUME TypeOK, NEW p \in Process, NEW r \in Request, NEW tn \in Tenant \cup {"any"},
           Enqueue(p, r, tn)
    PROVE  Abstract!Next
<1>1. /\ row[r].status = "absent"
      /\ row'[r].status = "pending" /\ row'[r].expires = now + TTL
      /\ \A s \in Request \ {r} : row'[s] = row[s]
      /\ UNCHANGED <<now, made, told>>
  BY DEF Enqueue, TypeOK
<1>2. State[r] = "absent" /\ State' = [State EXCEPT ![r] = "pending"]
  BY <1>1 DEF State
<1>3. Due' = Due
  <2>1. r \notin Due /\ r \notin Due'
    BY <1>1, QueueAssumption DEF Due, HasExpired, TypeOK
  <2>2. \A s \in Request \ {r} : s \in Due' <=> s \in Due
    BY <1>1 DEF Due, HasExpired
  <2> QED
    BY <2>1, <2>2 DEF Due
<1>4. Abstract!Submit(r)
  BY <1>1, <1>2, <1>3 DEF Abstract!Submit, State, Due
<1> QED
  BY <1>4 DEF Abstract!Next

\* What a decision read still holds when it commits, so it is the first one, of a
\* request that is pending.
LEMMA CommitDecides ==
    ASSUME IInv, OneProcess, NEW p \in Process, DecideCommit(p)
    PROVE  Abstract!Next
<1>a. TypeOK
  BY DEF IInv
<1>b. txn[p].kind = "decide" /\ txn[p].req \in Request /\ txn[p].dec \in Decision
  BY <1>a, TxnShape DEF DecideCommit
<1>1. PICK r \in Request, d \in Decision : r = txn[p].req /\ d = txn[p].dec
  BY <1>b
<1>2. /\ row' = [row EXCEPT ![r] = Decided(r, d)]
      /\ made' = [made EXCEPT ![r] = @ \cup {d}]
      /\ told' = [told EXCEPT ![r] = @ \cup {d}] \/ told' = told
      /\ now' = now
  BY <1>1 DEF DecideCommit
<1>3. row[r].status = "pending"
  BY <1>b, <1>1 DEF IInv, ReadsStillHold
<1>4. made[r] = {} /\ told[r] = {}
  BY <1>1, <1>3 DEF IInv, MadeIsResolved, ResolvedByDecision
<1>5. made' = [made EXCEPT ![r] = {d}] /\ d \in made'[r]
  BY <1>a, <1>1, <1>2, <1>4 DEF TypeOK
<1>6. told' = told \/ told' = [told EXCEPT ![r] = {d}]
  BY <1>a, <1>1, <1>2, <1>4 DEF TypeOK
<1>7. /\ row'[r].status = d.verdict
      /\ row'[r].expires = row[r].expires
      /\ \A s \in Request \ {r} : row'[s] = row[s]
      /\ d.verdict \in Verdict
  BY <1>a, <1>1, <1>2 DEF TypeOK, Row, Decided, Decision
<1>8. State[r] = "pending" /\ State' = [State EXCEPT ![r] = d.verdict]
  BY <1>1, <1>3, <1>7 DEF State
<1>9. Due' = Due
  <2>1. \A s \in Request : s \in Due' <=> s \in Due
    BY <1>2, <1>3, <1>7 DEF Due, HasExpired, Verdict
  <2> QED
    BY <2>1 DEF Due
<1>10. Abstract!Decide(r)
  BY <1>4, <1>5, <1>6, <1>8, <1>9 DEF Abstract!Decide, State, Due
<1> QED
  BY <1>10 DEF Abstract!Next

\* An expiry under way is about requests whose time has come.
LEMMA CommitExpires ==
    ASSUME IInv, OneProcess, NEW p \in Process, ExpireCommit(p)
    PROVE  Abstract!Next
<1> DEFINE t == txn[p]
<1>a. TypeOK
  BY DEF IInv
<1>1. t.kind = "expire" /\ t.reqs \in SUBSET Request /\ t.same \in BOOLEAN /\ t.at \in Nat
  BY <1>a, TxnShape DEF ExpireCommit
<1>2. /\ \A r \in t.reqs : row'[r] = ExpiredBy(r, t)
      /\ \A r \in Request \ t.reqs : row'[r] = row[r]
      /\ UNCHANGED <<now, made, told>>
  BY <1>a, <1>1 DEF ExpireCommit, TypeOK
<1>3. \A r \in t.reqs : t.same => row[r].status = "expired"
  BY <1>1 DEF IInv, ReadsStillHold
<1>4. \A r \in t.reqs : row[r].status # "absent" /\ row[r].expires <= now
  <2>1. t.at <= now /\ \A r \in t.reqs : row[r].status # "absent" /\ row[r].expires <= t.at
    BY <1>1 DEF IInv, ExpiriesAreDue
  <2>2. now \in Nat /\ \A r \in t.reqs : row[r].expires \in Nat
    BY <1>a, <1>1 DEF TypeOK, Row
  <2> QED
    BY <1>1, <2>1, <2>2
<1> HIDE DEF t
<1>5. \A r \in t.reqs : row'[r].status = "expired" /\ row'[r].expires = row[r].expires
  <2> SUFFICES ASSUME NEW r \in t.reqs
               PROVE  row'[r].status = "expired" /\ row'[r].expires = row[r].expires
    OBVIOUS
  <2>1. row[r] \in Row /\ row'[r] = ExpiredBy(r, t)
    BY <1>a, <1>1, <1>2 DEF TypeOK
  <2> QED
    BY <1>1, <1>3, <2>1 DEF ExpiredBy, Row
<1>6. State' = [r \in Request |-> IF r \in t.reqs THEN "expired" ELSE State[r]]
  BY <1>2, <1>5 DEF State
<1>7. Due' = Due /\ t.reqs \subseteq Due
  <2>1. \A r \in Request : r \in Due' <=> r \in Due
    BY <1>2, <1>4, <1>5 DEF Due, HasExpired
  <2> QED
    BY <1>1, <1>4, <2>1 DEF Due, HasExpired
<1>8. PICK S \in SUBSET Request : S = t.reqs
  BY <1>1
<1>9. Abstract!Expire(S)
  BY <1>2, <1>6, <1>7, <1>8 DEF Abstract!Expire, State, Due
<1> QED
  BY <1>9 DEF Abstract!Next

\* The queue starts empty.
LEMMA InitImplements == Init => Abstract!Init
<1> SUFFICES ASSUME Init
             PROVE  Abstract!Init
  OBVIOUS
<1>1. \A r \in Request : row[r].status = "absent"
  BY DEF Init, NoRow
<1>2. State = [r \in Request |-> "absent"] /\ Due = {}
  BY <1>1 DEF State, Due
<1> QED
  BY <1>2 DEF Init, Abstract!Init, State, Due

\* With one process every step is a step of the abstract queue, or none.
LEMMA StepImplements ==
    IInv /\ [Next]_vars => (OneProcess => [Abstract!Next]_(Abstract!queue))
<1> SUFFICES ASSUME IInv, [Next]_vars, OneProcess
             PROVE  [Abstract!Next]_(Abstract!queue)
  OBVIOUS
<1>a. TypeOK /\ TypeOK'
  BY NextType DEF IInv
<1>b. now \in Nat
  BY <1>a DEF TypeOK
<1>1. CASE Tick
  BY <1>1, <1>a, <1>b, QuietStutter DEF Tick
<1>2. CASE \E p \in Process, r \in Request, tn \in Tenant \cup {"any"} : Enqueue(p, r, tn)
  BY <1>2, <1>a, EnqueueSubmits
<1>3. CASE UNCHANGED <<now, row, made, told>>
  BY <1>3, <1>a, <1>b, QuietStutter
<1>4. CASE \E p \in Process : DecideCommit(p) \/ ExpireCommit(p)
  BY <1>4, CommitDecides, CommitExpires
<1>5. \/ Tick
      \/ \E p \in Process, r \in Request, tn \in Tenant \cup {"any"} : Enqueue(p, r, tn)
      \/ UNCHANGED <<now, row, made, told>>
      \/ \E p \in Process : DecideCommit(p) \/ ExpireCommit(p)
  BY DEF Next, vars, DecideRead, ExpireRead, ListRead, Rollback
<1> QED
  BY <1>1, <1>2, <1>3, <1>4, <1>5

\* One process implements the abstract queue, for any number of requests, approvers
\* and tenants and any time to live (ImplementsQueue).
THEOREM RefinementTheorem == Spec => ImplementsQueue
<1>1. Init => (OneProcess => Abstract!Init)
  BY InitImplements
<1> QED
  BY <1>1, StepImplements, Invariance, PTL DEF Spec, ImplementsQueue

=============================================================================
