------------------------- MODULE ExecutionTokenProofs -------------------------
(* Theorems about ExecutionToken for any number of processes, tokens, users,  *)
(* any token lifetime and any L1 capacity: in production a token is accepted  *)
(* at most once before its deadline, and the stores implement SingleUse.      *)
(*                                                                            *)
(* The argument: the ttl a request carries to Redis is computed before the    *)
(* SET, so it can only be too long (PendingTtlCovers); hence the key of an    *)
(* accepted token covers its deadline (KeyOutlivesUse); hence every other SET *)
(* before the deadline finds the key.  L1 plays no part.                      *)
(*                                                                            *)
(* And about LocalGateway, where L1 may be all there is: what a process has   *)
(* accepted it finds in L1 as long as L1 does not overflow (Slot); a key that *)
(* was never saved is in one process only, which has seen every acceptance of *)
(* the tokens it signed (SeenAll); a key that was saved is in the file before *)
(* anything is signed with it (FileFirst).                                    *)
EXTENDS LocalGateway, FiniteSetTheorems, TLAPS

\* No production process runs without an L2 store.
StoreInProduction == Production => \A i \in Instance : mode[i] # "local"

\* A request on its way to Redis carries a ttl that reaches its token's deadline.
PendingTtlCovers ==
    \A i \in Instance : req[i].phase = "l2" => /\ exp[req[i].tok] > 0
                                              /\ req[i].ttl + now.s >= exp[req[i].tok]

\* A request past the L1 check is about an issued token.
RequestsAreIssued == \A i \in Instance : req[i] # Idle => exp[req[i].tok] > 0

\* Nothing was recorded about a token that is not issued.
UnissuedIsFresh == \A t \in Token : exp[t] = 0 => /\ l2[t] = Never
                                                 /\ early[t] = 0

\* The Redis key of an accepted token lasts at least until its deadline.
KeyOutlivesUse == Production => \A t \in Token : early[t] > 0 => l2[t].s >= exp[t]

\* The inductive invariant.
IInv == /\ TypeOK
        /\ StoreInProduction
        /\ PendingTtlCovers
        /\ RequestsAreIssued
        /\ UnissuedIsFresh
        /\ KeyOutlivesUse
        /\ SingleUseBeforeDeadline

----------------------------------------------------------------------------
(* Lemmas about the operators.                                                *)

\* What a request carries depends on its phase: only an idle process has none.
LEMMA RequestShape ==
    ASSUME TypeOK, NEW i \in Instance, req[i].phase # "idle"
    PROVE  /\ req[i] \in Request
           /\ req[i].tok \in Token
           /\ req[i].user \in User
           /\ req[i].ttl \in Nat
           /\ req[i] # Idle
  BY DEF TypeOK, Request, Idle

\* An expiry computed from the current time is a time.
LEMMA InIsTime ==
    ASSUME TypeOK, NEW ttl \in Nat
    PROVE  In(ttl) \in Time /\ In(ttl).s = now.s + ttl
  BY DEF TypeOK, Time, In

\* The lifetime given to a nonce is positive and reaches the token's deadline.
LEMMA NonceTtlCovers ==
    ASSUME TypeOK, NEW t \in Token
    PROVE  /\ NonceTtl(t) \in Nat
           /\ NonceTtl(t) + now.s >= exp[t]
  BY DEF TypeOK, Time, NonceTtl

\* What a process remembers after recording a nonce is again an L1 store.
LEMMA RememberType ==
    ASSUME TypeOK, NEW i \in Instance, NEW t \in Token, NEW ttl \in Nat
    PROVE  Remember(i, t, ttl) \in [Token -> [until : Time, age : Nat]]
<1>1. In(ttl) \in Time
  BY InIsTime
<1>2. NoEntry \in [until : Time, age : Nat]
  BY TokenAssumption DEF NoEntry, Never, Time
<1>3. l1[i] \in [Token -> [until : Time, age : Nat]]
  BY DEF TypeOK
<1>4. ASSUME NEW u \in Token
      PROVE  [l1[i][u] EXCEPT !.age = @ + 1] \in [until : Time, age : Nat]
  BY <1>3
<1> QED
  BY <1>1, <1>2, <1>3, <1>4 DEF Remember

\* A key whose expiry lies in a later second is there.
LEMMA LaterIsLive ==
    ASSUME TypeOK, NEW t \in Token, now.s < l2[t].s
    PROVE  Live(l2[t])
  BY DEF Live

----------------------------------------------------------------------------
(* Type correctness.                                                          *)

\* The history of acceptances keeps its type.
LEMMA AcceptType ==
    ASSUME TypeOK, NEW i \in Instance, NEW t \in Token, Accept(i, t)
    PROVE  /\ early' \in [Token -> Nat]
           /\ late' \in [Token -> Nat]
           /\ mine' \in [Instance -> [Token -> Nat]]
<1>1. CASE now.s < exp[t]
  <2>1. early' = [early EXCEPT ![t] = @ + 1] /\ late' = late
    BY <1>1 DEF Accept
  <2>2. mine' = [mine EXCEPT ![i][t] = @ + 1]
    BY <1>1 DEF Accept
  <2>3. mine[i] \in [Token -> Nat]
    BY DEF TypeOK
  <2>4. [mine[i] EXCEPT ![t] = @ + 1] \in [Token -> Nat]
    BY <2>3
  <2>5. mine' \in [Instance -> [Token -> Nat]]
    BY <2>2, <2>4 DEF TypeOK
  <2> QED
    BY <2>1, <2>5 DEF TypeOK
<1>2. CASE ~(now.s < exp[t])
  <2>1. late' = [late EXCEPT ![t] = @ + 1]
    BY <1>2 DEF Accept
  <2>2. early' = early /\ mine' = mine
    BY <1>2 DEF Accept
  <2> QED
    BY <2>1, <2>2 DEF TypeOK
<1> QED
  BY <1>1, <1>2

\* The initial state has the types.
LEMMA InitType == Init => TypeOK
  BY TokenAssumption DEF Init, TypeOK, Time, Never, NoEntry

\* Every step keeps the types.
LEMMA NextType == TypeOK /\ [Next]_vars => TypeOK'
<1> SUFFICES ASSUME TypeOK, [Next]_vars
             PROVE  TypeOK'
  OBVIOUS
<1>1. CASE Tick
  <2>1. now \in Time
    BY DEF TypeOK
  <2>2. now' \in Time
    <3>1. CASE now.f + 1 < Fractions
      <4>1. now' = [now EXCEPT !.f = now.f + 1]
        BY <1>1, <3>1 DEF Tick
      <4> QED
        BY <2>1, <3>1, <4>1, TokenAssumption DEF Time
    <3>2. CASE ~(now.f + 1 < Fractions)
      BY <1>1, <2>1, <3>2, TokenAssumption DEF Tick, Time
    <3> QED
      BY <3>1, <3>2
  <2> QED
    BY <1>1, <2>2 DEF Tick, TypeOK
<1>2. ASSUME NEW i \in Instance, Boot(i)
      PROVE  TypeOK'
  BY <1>2 DEF Boot, StoreWithoutRedis, TypeOK
<1>3. ASSUME NEW i \in Instance, Crash(i)
      PROVE  TypeOK'
  <2>1. [t \in Token |-> NoEntry] \in [Token -> [until : Time, age : Nat]]
    BY TokenAssumption DEF NoEntry, Never, Time
  <2> QED
    BY <1>3, <2>1 DEF Crash, TypeOK
<1>4. ASSUME NEW i \in Instance, NEW t \in Token, NEW u \in User, Issue(i, t, u)
      PROVE  TypeOK'
  BY <1>4, TokenAssumption DEF Issue, TypeOK, Time
<1>5. ASSUME NEW i \in Instance, NEW t \in Token, NEW u \in User, Check(i, t, u)
      PROVE  TypeOK'
  <2>1. NonceTtl(t) \in Nat
    BY NonceTtlCovers
  <2>2. req'[i] \in Request
    BY <1>5, <2>1 DEF Check, Request, TypeOK
  <2> QED
    BY <1>5, <2>2 DEF Check, TypeOK
<1>6. ASSUME NEW i \in Instance, SetAccepted(i)
      PROVE  TypeOK'
  <2>1. req[i] \in Request /\ req[i].tok \in Token /\ req[i].ttl \in Nat
    BY <1>6, RequestShape DEF SetAccepted
  <2>2. In(req[i].ttl) \in Time
    BY <2>1, InIsTime
  <2>3. [req[i] EXCEPT !.phase = "l1"] \in Request
    BY <2>1 DEF Request
  <2>4. /\ early' \in [Token -> Nat]
        /\ late' \in [Token -> Nat]
        /\ mine' \in [Instance -> [Token -> Nat]]
    BY <1>6, <2>1, AcceptType DEF SetAccepted
  <2> QED
    BY <1>6, <2>1, <2>2, <2>3, <2>4 DEF SetAccepted, TypeOK
<1>7. ASSUME NEW i \in Instance, SetReplyLost(i)
      PROVE  TypeOK'
  <2>1. req[i].tok \in Token /\ req[i].ttl \in Nat
    BY <1>7, RequestShape DEF SetReplyLost
  <2>2. In(req[i].ttl) \in Time
    BY <2>1, InIsTime
  <2> QED
    BY <1>7, <2>1, <2>2 DEF SetReplyLost, TypeOK
<1>8. ASSUME NEW i \in Instance, SetRefused(i)
      PROVE  TypeOK'
  BY <1>8 DEF SetRefused, TypeOK
<1>9. ASSUME NEW i \in Instance, Record(i)
      PROVE  TypeOK'
  <2>1. req[i] \in Request /\ req[i].tok \in Token /\ req[i].ttl \in Nat
    BY <1>9, RequestShape DEF Record
  <2>2. [req[i] EXCEPT !.phase = "reply"] \in Request
    BY <2>1 DEF Request
  <2>3. Remember(i, req[i].tok, req[i].ttl) \in [Token -> [until : Time, age : Nat]]
    BY <2>1, RememberType
  <2>4. /\ early' \in [Token -> Nat]
        /\ late' \in [Token -> Nat]
        /\ mine' \in [Instance -> [Token -> Nat]]
    <3>1. CASE mode[i] = "local"
      BY <1>9, <2>1, <3>1, AcceptType DEF Record
    <3>2. CASE mode[i] # "local"
      BY <1>9, <3>2 DEF Record, TypeOK
    <3> QED
      BY <3>1, <3>2
  <2> QED
    BY <1>9, <2>1, <2>2, <2>3, <2>4 DEF Record, TypeOK
<1>10. ASSUME NEW i \in Instance, Execute(i)
       PROVE  TypeOK'
  <2>1. req[i].tok \in Token
    BY <1>10, RequestShape DEF Execute
  <2> QED
    BY <1>10, <2>1 DEF Execute, TypeOK
<1>11. ASSUME NEW i \in Instance, FailAfterConsume(i)
       PROVE  TypeOK'
  BY <1>11 DEF FailAfterConsume, TypeOK
<1>12. CASE UNCHANGED vars
  BY <1>12 DEF vars, TypeOK
<1> QED
  BY <1>1, <1>2, <1>3, <1>4, <1>5, <1>6, <1>7, <1>8, <1>9, <1>10, <1>11, <1>12 DEF Next

\* Type correctness of the specification (TypeOK), for every value of the constants.
THEOREM TypeCorrect == Spec => []TypeOK
  BY InitType, NextType, PTL DEF Spec

----------------------------------------------------------------------------
(* The inductive invariant.                                                   *)

\* It holds initially.
LEMMA InitInv == Init => IInv
<1> SUFFICES ASSUME Init
             PROVE  IInv
  OBVIOUS
<1>1. TypeOK
  BY InitType
<1> QED
  BY <1>1 DEF Init, IInv, StoreInProduction, PendingTtlCovers, RequestsAreIssued,
              UnissuedIsFresh, KeyOutlivesUse, SingleUseBeforeDeadline, Idle

\* A SET that finds no key before the deadline is the first acceptance.
LEMMA FirstAcceptance ==
    ASSUME IInv, Production, NEW t \in Token, ~Live(l2[t]), now.s < exp[t]
    PROVE  early[t] = 0
<1>1. SUFFICES ASSUME early[t] > 0
               PROVE  FALSE
  BY DEF IInv, TypeOK
<1>2. l2[t].s >= exp[t]
  BY <1>1 DEF IInv, KeyOutlivesUse
<1>3. now.s \in Nat /\ exp[t] \in Nat /\ l2[t].s \in Nat
  BY DEF IInv, TypeOK, Time
<1>4. now.s < l2[t].s
  BY <1>2, <1>3
<1> QED
  BY <1>4, LaterIsLive DEF IInv

\* Every step keeps it.
LEMMA NextInv == IInv /\ [Next]_vars => IInv'
<1> SUFFICES ASSUME IInv, [Next]_vars
             PROVE  IInv'
  OBVIOUS
<1>a. TypeOK /\ TypeOK'
  BY NextType DEF IInv
<1>1. CASE Tick
  <2>1. now.s \in Nat /\ now'.s \in Nat /\ now'.s >= now.s
    <3>1. now.s \in Nat /\ now.f \in Nat
      BY <1>a, TokenAssumption DEF TypeOK, Time
    <3>2. now'.s = now.s \/ now'.s = now.s + 1
      BY <1>1, <1>a DEF Tick, TypeOK, Time
    <3> QED
      BY <3>1, <3>2
  <2>2. PendingTtlCovers'
    <3> SUFFICES ASSUME NEW i \in Instance, req[i].phase = "l2"
                 PROVE  exp[req[i].tok] > 0 /\ req[i].ttl + now'.s >= exp[req[i].tok]
      BY <1>1 DEF Tick, PendingTtlCovers
    <3>1. exp[req[i].tok] \in Nat /\ req[i].ttl \in Nat
      BY <1>a, RequestShape DEF TypeOK
    <3>2. exp[req[i].tok] > 0 /\ req[i].ttl + now.s >= exp[req[i].tok]
      BY DEF IInv, PendingTtlCovers
    <3> QED
      BY <2>1, <3>1, <3>2
  <2> QED
    BY <1>1, <1>a, <2>2 DEF Tick, IInv, StoreInProduction, RequestsAreIssued,
       UnissuedIsFresh, KeyOutlivesUse, SingleUseBeforeDeadline
<1>2. ASSUME NEW i \in Instance, Boot(i)
      PROVE  IInv'
  <2>1. StoreInProduction'
    BY <1>2, <1>a DEF Boot, StoreWithoutRedis, IInv, StoreInProduction, TypeOK
  <2> QED
    BY <1>2, <1>a, <2>1 DEF Boot, IInv, PendingTtlCovers, RequestsAreIssued,
       UnissuedIsFresh, KeyOutlivesUse, SingleUseBeforeDeadline
<1>3. ASSUME NEW i \in Instance, Crash(i)
      PROVE  IInv'
  BY <1>3, <1>a DEF Crash, IInv, StoreInProduction, PendingTtlCovers, RequestsAreIssued,
     UnissuedIsFresh, KeyOutlivesUse, SingleUseBeforeDeadline, TypeOK, Idle
<1>4. ASSUME NEW i \in Instance, NEW t \in Token, NEW u \in User, Issue(i, t, u)
      PROVE  IInv'
  <2>1. exp[t] = 0 /\ exp' = [exp EXCEPT ![t] = now.s + TTL] /\ now.s + TTL > 0
    BY <1>4, <1>a, TokenAssumption DEF Issue, TypeOK, Time
  <2>2. early[t] = 0
    BY <2>1 DEF IInv, UnissuedIsFresh
  <2>3. \A j \in Instance : req[j] # Idle => req[j].tok # t
    BY <2>1 DEF IInv, RequestsAreIssued
  <2>4. UNCHANGED <<now, l2, mode, req, early>>
    BY <1>4 DEF Issue
  <2>5. PendingTtlCovers'
    BY <1>a, <2>1, <2>3, <2>4, RequestShape DEF IInv, PendingTtlCovers, TypeOK
  <2>6. RequestsAreIssued'
    <3> SUFFICES ASSUME NEW j \in Instance, req[j] # Idle
                 PROVE  exp'[req[j].tok] > 0
      BY <2>4 DEF RequestsAreIssued
    <3>1. req[j].tok \in Token
      BY <1>a DEF TypeOK, Request
    <3>2. exp[req[j].tok] > 0 /\ req[j].tok # t
      BY <2>3 DEF IInv, RequestsAreIssued
    <3> QED
      BY <1>a, <2>1, <3>1, <3>2 DEF TypeOK
  <2>7. UnissuedIsFresh' /\ KeyOutlivesUse' /\ SingleUseBeforeDeadline' /\ StoreInProduction'
    BY <1>a, <2>1, <2>2, <2>4 DEF IInv, UnissuedIsFresh, KeyOutlivesUse,
       SingleUseBeforeDeadline, StoreInProduction, TypeOK
  <2> QED
    BY <1>a, <2>5, <2>6, <2>7 DEF IInv
<1>5. ASSUME NEW i \in Instance, NEW t \in Token, NEW u \in User, Check(i, t, u)
      PROVE  IInv'
  <2>1. exp[t] > 0 /\ NonceTtl(t) \in Nat /\ NonceTtl(t) + now.s >= exp[t]
    BY <1>5, <1>a, NonceTtlCovers DEF Check, TypeOK
  <2>2. /\ req'[i].tok = t
        /\ req'[i].ttl = NonceTtl(t)
        /\ \A j \in Instance \ {i} : req'[j] = req[j]
    BY <1>5, <1>a DEF Check, TypeOK
  <2>3. UNCHANGED <<now, exp, l2, mode, early>>
    BY <1>5 DEF Check
  <2>4. PendingTtlCovers'
    BY <2>1, <2>2, <2>3 DEF IInv, PendingTtlCovers
  <2>5. RequestsAreIssued'
    BY <2>1, <2>2, <2>3 DEF IInv, RequestsAreIssued
  <2> QED
    BY <1>a, <2>3, <2>4, <2>5 DEF IInv, StoreInProduction, UnissuedIsFresh, KeyOutlivesUse,
       SingleUseBeforeDeadline
<1>6. ASSUME NEW i \in Instance, SetAccepted(i)
      PROVE  IInv'
  <2> DEFINE t == req[i].tok
             ttl == req[i].ttl
  <2>1. t \in Token /\ ttl \in Nat /\ exp[t] > 0 /\ ttl + now.s >= exp[t]
    BY <1>6, <1>a, RequestShape DEF SetAccepted, IInv, PendingTtlCovers
  <2>2. /\ l2' = [l2 EXCEPT ![t] = In(ttl)]
        /\ ~Live(l2[t])
        /\ req' = [req EXCEPT ![i].phase = "l1"]
        /\ Accept(i, t)
        /\ UNCHANGED <<now, exp, mode>>
    BY <1>6 DEF SetAccepted
  <2>3. l2'[t].s >= exp[t] /\ \A v \in Token \ {t} : l2'[v] = l2[v]
    <3>1. In(ttl).s = now.s + ttl
      BY <1>a, <2>1, InIsTime
    <3>2. l2'[t] = In(ttl) /\ \A v \in Token \ {t} : l2'[v] = l2[v]
      BY <1>a, <2>1, <2>2 DEF TypeOK
    <3>3. now.s \in Nat /\ exp[t] \in Nat
      BY <1>a, <2>1 DEF TypeOK, Time
    <3> QED
      BY <2>1, <3>1, <3>2, <3>3
  <2>4. \A v \in Token \ {t} : early'[v] = early[v]
    BY <1>a, <2>2 DEF Accept, TypeOK
  <2>5. /\ req'[i].phase = "l1"
        /\ req'[i].tok = t
        /\ \A j \in Instance \ {i} : req'[j] = req[j]
    BY <1>6, <1>a, RequestShape DEF SetAccepted, TypeOK, Request
  <2>6. PendingTtlCovers' /\ RequestsAreIssued' /\ StoreInProduction'
    BY <2>1, <2>2, <2>5 DEF IInv, PendingTtlCovers, RequestsAreIssued, StoreInProduction
  <2>7. UnissuedIsFresh'
    BY <2>1, <2>2, <2>3, <2>4 DEF IInv, UnissuedIsFresh
  <2>8. KeyOutlivesUse'
    BY <2>1, <2>2, <2>3, <2>4 DEF IInv, KeyOutlivesUse
  <2>9. SingleUseBeforeDeadline'
    <3> SUFFICES ASSUME Production
                 PROVE  early'[t] <= 1
      BY <2>4 DEF IInv, SingleUseBeforeDeadline
    <3>1. CASE now.s < exp[t]
      BY <1>a, <2>1, <2>2, <3>1, FirstAcceptance DEF Accept, TypeOK
    <3>2. CASE ~(now.s < exp[t])
      <4>1. early' = early
        BY <2>2, <3>2 DEF Accept
      <4> QED
        BY <2>1, <4>1 DEF IInv, SingleUseBeforeDeadline
    <3> QED
      BY <3>1, <3>2
  <2> QED
    BY <1>a, <2>6, <2>7, <2>8, <2>9 DEF IInv
<1>7. ASSUME NEW i \in Instance, SetReplyLost(i)
      PROVE  IInv'
  <2> DEFINE t == req[i].tok
             ttl == req[i].ttl
  <2>1. t \in Token /\ ttl \in Nat /\ exp[t] > 0 /\ ttl + now.s >= exp[t]
    BY <1>7, <1>a, RequestShape DEF SetReplyLost, IInv, PendingTtlCovers
  <2>2. /\ l2' = [l2 EXCEPT ![t] = In(ttl)]
        /\ req' = [req EXCEPT ![i] = Idle]
        /\ UNCHANGED <<now, exp, mode, early>>
    BY <1>7 DEF SetReplyLost
  <2>3. l2'[t].s >= exp[t] /\ \A v \in Token \ {t} : l2'[v] = l2[v]
    <3>1. In(ttl).s = now.s + ttl
      BY <1>a, <2>1, InIsTime
    <3>2. l2'[t] = In(ttl) /\ \A v \in Token \ {t} : l2'[v] = l2[v]
      BY <1>a, <2>1, <2>2 DEF TypeOK
    <3>3. now.s \in Nat /\ exp[t] \in Nat
      BY <1>a, <2>1 DEF TypeOK, Time
    <3> QED
      BY <2>1, <3>1, <3>2, <3>3
  <2>4. PendingTtlCovers' /\ RequestsAreIssued' /\ StoreInProduction'
    BY <1>a, <2>2 DEF IInv, PendingTtlCovers, RequestsAreIssued, StoreInProduction, TypeOK, Idle
  <2>5. UnissuedIsFresh' /\ KeyOutlivesUse' /\ SingleUseBeforeDeadline'
    BY <2>1, <2>2, <2>3 DEF IInv, UnissuedIsFresh, KeyOutlivesUse, SingleUseBeforeDeadline
  <2> QED
    BY <1>a, <2>4, <2>5 DEF IInv
<1>8. ASSUME NEW i \in Instance, SetRefused(i) \/ FailAfterConsume(i) \/ Execute(i)
      PROVE  IInv'
  <2>1. req' = [req EXCEPT ![i] = Idle] /\ UNCHANGED <<now, exp, l2, mode, early>>
    BY <1>8 DEF SetRefused, FailAfterConsume, Execute
  <2>2. PendingTtlCovers' /\ RequestsAreIssued'
    BY <1>a, <2>1 DEF IInv, PendingTtlCovers, RequestsAreIssued, TypeOK, Idle
  <2> QED
    BY <1>a, <2>1, <2>2 DEF IInv, StoreInProduction, UnissuedIsFresh, KeyOutlivesUse,
       SingleUseBeforeDeadline
<1>9. ASSUME NEW i \in Instance, Record(i)
      PROVE  IInv'
  <2> DEFINE t == req[i].tok
  <2>1. t \in Token /\ exp[t] > 0 /\ req[i] \in Request
    BY <1>9, <1>a, RequestShape DEF Record, IInv, RequestsAreIssued
  <2>2. /\ req' = [req EXCEPT ![i].phase = "reply"]
        /\ UNCHANGED <<now, exp, l2, mode>>
    BY <1>9 DEF Record
  <2>3. /\ req'[i].phase = "reply"
        /\ req'[i].tok = t
        /\ \A j \in Instance \ {i} : req'[j] = req[j]
    BY <1>a, <2>1, <2>2 DEF TypeOK, Request
  <2>4. PendingTtlCovers' /\ RequestsAreIssued' /\ StoreInProduction'
    BY <2>1, <2>2, <2>3 DEF IInv, PendingTtlCovers, RequestsAreIssued, StoreInProduction
  <2>5. Production => early' = early
    BY <1>9 DEF Record, IInv, StoreInProduction
  <2>6. \A v \in Token \ {t} : early'[v] = early[v]
    BY <1>9, <1>a DEF Record, Accept, TypeOK
  <2>7. UnissuedIsFresh'
    BY <2>1, <2>2, <2>6 DEF IInv, UnissuedIsFresh
  <2>8. KeyOutlivesUse' /\ SingleUseBeforeDeadline'
    BY <2>2, <2>5 DEF IInv, KeyOutlivesUse, SingleUseBeforeDeadline
  <2> QED
    BY <1>a, <2>4, <2>7, <2>8 DEF IInv
<1>10. CASE UNCHANGED vars
  BY <1>10, <1>a DEF vars, IInv, StoreInProduction, PendingTtlCovers, RequestsAreIssued,
     UnissuedIsFresh, KeyOutlivesUse, SingleUseBeforeDeadline
<1> QED
  BY <1>1, <1>2, <1>3, <1>4, <1>5, <1>6, <1>7, <1>8, <1>9, <1>10 DEF Next

\* The inductive invariant of the specification.
THEOREM Invariance == Spec => []IInv
  BY InitInv, NextInv, PTL DEF Spec

\* In production no token is accepted twice before its deadline
\* (SingleUseBeforeDeadline): CompositeNonceStore with its L2 in Redis.
THEOREM SingleUseTheorem == Spec => []SingleUseBeforeDeadline
<1>1. IInv => SingleUseBeforeDeadline
  BY DEF IInv
<1> QED
  BY <1>1, Invariance, PTL

----------------------------------------------------------------------------
(* Refinement.                                                                *)

\* How the abstract state of a token follows from its deadline, its key and the
\* clock.
LEMMA AbstractCases ==
    ASSUME NEW t \in Token
    PROVE  AbstractState[t] = IF exp[t] = 0 THEN "unissued"
                              ELSE IF l2[t].s >= exp[t] \/ now.s >= exp[t] THEN "spent"
                              ELSE "usable"
  BY DEF AbstractState

\* A step that leaves deadlines and acceptances alone, and moves the clock or keys
\* so that no spent token comes back, lapses tokens.
LEMMA LapseStep ==
    ASSUME IInv, IInv', exp' = exp, early' = early,
           \A t \in Token : AbstractState[t] = "spent" => AbstractState'[t] = "spent"
    PROVE  Abstract!Next
<1> DEFINE S == {t \in Token : AbstractState[t] = "usable" /\ AbstractState'[t] = "spent"}
<1>1. \A t \in Token : t \notin S => AbstractState'[t] = AbstractState[t]
  BY DEF AbstractState
<1>2. AbstractState' = [t \in Token |-> IF t \in S THEN "spent" ELSE AbstractState[t]]
  <2>1. \A t \in Token : AbstractState'[t] = IF t \in S THEN "spent" ELSE AbstractState[t]
    BY <1>1
  <2>2. AbstractState' = [t \in Token |-> AbstractState'[t]]
    BY DEF AbstractState
  <2> QED
    BY <2>1, <2>2
<1>3. Abstract!Lapse(S)
  BY <1>2 DEF Abstract!Lapse
<1>4. S \in SUBSET Token
  OBVIOUS
<1> QED
  BY <1>3, <1>4 DEF Abstract!Next

\* A step that touches neither deadlines, acceptances, keys nor the clock stutters.
LEMMA StutterStep ==
    ASSUME exp' = exp, l2' = l2, now' = now, early' = early
    PROVE  UNCHANGED <<AbstractState, early>>
  BY DEF AbstractState

\* Every production step is a step of SingleUse or a stutter.
LEMMA RefinementStep ==
    ASSUME IInv, IInv', Production, [Next]_vars
    PROVE  [Abstract!Next]_<<AbstractState, early>>
<1>a. TypeOK /\ TypeOK'
  BY DEF IInv
<1>b. ASSUME NEW t \in Token
      PROVE  /\ exp[t] \in Nat /\ exp'[t] \in Nat
             /\ l2[t].s \in Nat /\ l2'[t].s \in Nat
             /\ now.s \in Nat /\ now'.s \in Nat
             /\ early[t] \in Nat
  BY <1>a DEF TypeOK, Time
<1>1. CASE Tick
  <2>1. exp' = exp /\ l2' = l2 /\ early' = early
    BY <1>1 DEF Tick
  <2>2. now'.s = now.s \/ now'.s = now.s + 1
    BY <1>1, <1>a DEF Tick, TypeOK, Time
  <2>3. \A t \in Token : AbstractState[t] = "spent" => AbstractState'[t] = "spent"
    BY <1>b, <2>1, <2>2 DEF AbstractState
  <2> QED
    BY <2>1, <2>3, LapseStep
<1>2. ASSUME NEW i \in Instance,
             Boot(i) \/ Crash(i) \/ SetRefused(i) \/ Execute(i) \/ FailAfterConsume(i)
      PROVE  UNCHANGED <<AbstractState, early>>
  <2>1. exp' = exp /\ l2' = l2 /\ now' = now /\ early' = early
    BY <1>2 DEF Boot, Crash, SetRefused, Execute, FailAfterConsume
  <2> QED
    BY <2>1, StutterStep
<1>3. ASSUME NEW i \in Instance, NEW t \in Token, NEW u \in User, Check(i, t, u)
      PROVE  UNCHANGED <<AbstractState, early>>
  <2>1. exp' = exp /\ l2' = l2 /\ now' = now /\ early' = early
    BY <1>3 DEF Check
  <2> QED
    BY <2>1, StutterStep
<1>4. ASSUME NEW i \in Instance, Record(i)
      PROVE  UNCHANGED <<AbstractState, early>>
  <2>1. exp' = exp /\ l2' = l2 /\ now' = now /\ early' = early
    BY <1>4 DEF Record, IInv, StoreInProduction
  <2> QED
    BY <2>1, StutterStep
<1>5. ASSUME NEW i \in Instance, NEW t \in Token, NEW u \in User, Issue(i, t, u)
      PROVE  Abstract!Next
  <2>1. exp[t] = 0 /\ exp' = [exp EXCEPT ![t] = now.s + TTL]
    BY <1>5 DEF Issue
  <2>2. l2' = l2 /\ now' = now /\ early' = early
    BY <1>5 DEF Issue
  <2>3. l2[t].s = 0
    BY <2>1 DEF IInv, UnissuedIsFresh, Never
  <2>4. AbstractState[t] = "unissued"
    BY <2>1 DEF AbstractState
  <2>5. AbstractState'[t] = "usable"
    <3>1. exp'[t] = now.s + TTL
      BY <1>a, <2>1 DEF TypeOK
    <3> QED
      BY <1>b, <2>2, <2>3, <3>1, TokenAssumption DEF AbstractState
  <2>6. \A v \in Token \ {t} : AbstractState'[v] = AbstractState[v]
    BY <1>a, <2>1, <2>2 DEF AbstractState, TypeOK
  <2>7. AbstractState' = [AbstractState EXCEPT ![t] = "usable"]
    BY <2>5, <2>6 DEF AbstractState
  <2> QED
    BY <2>2, <2>4, <2>7 DEF Abstract!Next, Abstract!Issue
<1>6. ASSUME NEW i \in Instance, SetAccepted(i) \/ SetReplyLost(i)
      PROVE  [Abstract!Next]_<<AbstractState, early>>
  <2> DEFINE t == req[i].tok
             ttl == req[i].ttl
  <2>1. t \in Token /\ ttl \in Nat /\ exp[t] > 0 /\ ttl + now.s >= exp[t]
    BY <1>6, <1>a, RequestShape DEF SetAccepted, SetReplyLost, IInv, PendingTtlCovers
  <2>2. /\ l2' = [l2 EXCEPT ![t] = In(ttl)]
        /\ ~Live(l2[t])
        /\ exp' = exp /\ now' = now
    BY <1>6 DEF SetAccepted, SetReplyLost
  <2>3. AbstractState'[t] = "spent"
    <3>1. l2'[t].s = now.s + ttl
      BY <1>a, <2>1, <2>2, InIsTime DEF TypeOK
    <3> QED
      BY <1>b, <2>1, <2>2, <3>1 DEF AbstractState
  <2>4. \A v \in Token \ {t} : AbstractState'[v] = AbstractState[v]
    BY <1>a, <2>2 DEF AbstractState, TypeOK
  <2>5. CASE early' = early
    <3>1. \A v \in Token : AbstractState[v] = "spent" => AbstractState'[v] = "spent"
      BY <2>3, <2>4
    <3> QED
      BY <2>2, <2>5, <3>1, LapseStep
  <2>6. CASE early' # early
    <3>1. SetAccepted(i)
      BY <1>6, <2>6 DEF SetReplyLost
    <3>2. now.s < exp[t] /\ early' = [early EXCEPT ![t] = @ + 1]
      BY <2>6, <3>1 DEF SetAccepted, Accept
    <3>3. ~(now.s < l2[t].s)
      BY <2>1, <2>2, LaterIsLive, <1>a
    <3>4. AbstractState[t] = "usable"
      BY <1>b, <2>1, <3>2, <3>3 DEF AbstractState
    <3>5. AbstractState' = [AbstractState EXCEPT ![t] = "spent"]
      <4>1. /\ AbstractState = [v \in Token |-> AbstractState[v]]
            /\ AbstractState' = [v \in Token |-> AbstractState'[v]]
        BY DEF AbstractState
      <4>2. PICK old : old = AbstractState
        OBVIOUS
      <4>3. PICK new : new = AbstractState'
        OBVIOUS
      <4>4. new = [old EXCEPT ![t] = "spent"]
        BY <2>1, <2>3, <2>4, <4>1, <4>2, <4>3
      <4> QED
        BY <4>2, <4>3, <4>4
    <3> QED
      BY <2>1, <3>2, <3>4, <3>5 DEF Abstract!Next, Abstract!Use
  <2> QED
    BY <2>5, <2>6
<1>7. CASE UNCHANGED vars
  <2>1. exp' = exp /\ l2' = l2 /\ now' = now /\ early' = early
    BY <1>7 DEF vars
  <2> QED
    BY <2>1, StutterStep
<1> QED
  BY <1>1, <1>2, <1>3, <1>4, <1>5, <1>6, <1>7 DEF Next

\* The initial state is an initial state of SingleUse.
LEMMA RefinementInit == Init => Abstract!Init
  BY DEF Init, Abstract!Init, AbstractState

\* In production the nonce stores implement single use (ImplementsSingleUse):
\* every behaviour of the gateway processes and Redis is one of SingleUse.
THEOREM RefinementTheorem ==
    ASSUME Production
    PROVE  Spec => ImplementsSingleUse
<1>1. IInv /\ IInv' /\ [Next]_vars => [Abstract!Next]_<<AbstractState, early>>
  BY RefinementStep
<1> QED
  BY <1>1, RefinementInit, Invariance, PTL DEF Spec, ImplementsSingleUse, Abstract!Spec

----------------------------------------------------------------------------
(* What a process remembers of a token, for CacheCoherent and LocalSingleUse. *)

\* L1 does not overflow.
Fits == IsFiniteSet(Token) /\ Cardinality(Token) <= MaxEntries

\* Process i has a request for t in hand that is to be accepted, or was accepted
\* and is not yet in L1.
Before(i, t) == /\ req[i].phase = "l2" \/ (req[i].phase = "l1" /\ mode[i] = "local")
                /\ req[i].tok = t
Accepted(i, t) == req[i].phase = "l1" /\ mode[i] # "local" /\ req[i].tok = t

\* An entry lasts until the deadline, in L1 and, if there is a Redis, in L2.
EntryCovers(i, t) ==
    l1[i][t].until # Never => /\ exp[t] > 0
                              /\ l1[i][t].until.s >= exp[t]
                              /\ mode[i] = "redis" => l2[t].s >= exp[t]

InHandCovers(i, t) ==
    /\ Before(i, t) \/ Accepted(i, t) => exp[t] > 0 /\ req[i].ttl + now.s >= exp[t]
    /\ Accepted(i, t) /\ mode[i] = "redis" => l2[t].s >= exp[t]

\* One acceptance since the start, and L1 knows of it or will before a request can.
AcceptedOnce(i, t) ==
    /\ mine[i][t] <= 1
    /\ mine[i][t] > 0 => /\ exp[t] > 0
                         /\ \/ exp[t] <= now.s
                            \/ l1[i][t].until # Never
                            \/ Accepted(i, t)
    /\ mine[i][t] > 0 /\ Before(i, t) => exp[t] <= now.s

Slot(i, t) == EntryCovers(i, t) /\ InHandCovers(i, t) /\ (Fits => AcceptedOnce(i, t))

UnsetIsEmpty ==
    \A i \in Instance : mode[i] = "unset" =>
        req[i] = Idle /\ \A t \in Token : l1[i][t].until = Never

SlotInv == TypeOK /\ UnsetIsEmpty /\ \A i \in Instance, t \in Token : Slot(i, t)

LEMMA SlotTypes ==
    ASSUME TypeOK, NEW i \in Instance, NEW t \in Token
    PROVE  /\ now.s \in Nat /\ now.f \in Nat /\ exp[t] \in Nat /\ mine[i][t] \in Nat
           /\ l1[i][t].until.s \in Nat /\ l1[i][t].until.f \in Nat
           /\ l2[t].s \in Nat /\ l2[t].f \in Nat
           /\ l1[i][t].until \in Time /\ l2[t] \in Time
           /\ \A u \in Time : u.s \in Nat /\ u.f \in Nat
<1>1. \A u \in Time : u.s \in Nat /\ u.f \in Nat
  BY TokenAssumption DEF Time
<1>2. l1[i] \in [Token -> [until : Time, age : Nat]]
  BY DEF TypeOK
<1>3. l1[i][t] \in [until : Time, age : Nat]
  BY <1>2
<1>4. mine[i] \in [Token -> Nat]
  BY DEF TypeOK
<1> QED
  BY <1>1, <1>3, <1>4 DEF TypeOK

\* Time may pass and the key may be renewed.
LEMMA SlotFrame ==
    ASSUME TypeOK, TypeOK', NEW i \in Instance, NEW t \in Token, Slot(i, t),
           now.s <= now'.s, exp'[t] = exp[t], req'[i] = req[i], mode'[i] = mode[i],
           l1'[i][t].until = l1[i][t].until, mine'[i][t] = mine[i][t],
           l2'[t] = l2[t] \/ l2'[t].s >= exp[t]
    PROVE  Slot(i, t)'
<1>1. now.s \in Nat /\ now'.s \in Nat /\ exp[t] \in Nat
  BY DEF TypeOK, Time
<1>2. (Before(i, t)' <=> Before(i, t)) /\ (Accepted(i, t)' <=> Accepted(i, t))
  BY DEF Before, Accepted
<1>3. Before(i, t) \/ Accepted(i, t) => req[i].ttl \in Nat
  BY RequestShape DEF Before, Accepted
<1>4. EntryCovers(i, t)'
  BY DEF Slot, EntryCovers
<1>5. InHandCovers(i, t)'
  BY <1>1, <1>2, <1>3 DEF Slot, InHandCovers
<1>6. exp[t] <= now.s => exp'[t] <= now'.s
  BY <1>1
<1>7. Fits => AcceptedOnce(i, t)'
  BY <1>2, <1>6 DEF Slot, AcceptedOnce
<1> QED
  BY <1>4, <1>5, <1>7 DEF Slot, Fits

\* Nothing is known of a token that is not issued.
LEMMA SlotUnissued ==
    ASSUME TypeOK, NEW i \in Instance, NEW t \in Token, Slot(i, t), exp[t] = 0
    PROVE  /\ l1[i][t].until = Never /\ ~Before(i, t) /\ ~Accepted(i, t)
           /\ Fits => mine[i][t] = 0
<1>1. mine[i][t] \in Nat
  BY SlotTypes
<1> QED
  BY <1>1 DEF Slot, EntryCovers, InHandCovers, AcceptedOnce

\* A token nothing is known of.
LEMMA SlotBlank ==
    ASSUME TypeOK, NEW i \in Instance, NEW t \in Token,
           l1[i][t].until = Never, ~Before(i, t), ~Accepted(i, t), Fits => mine[i][t] = 0
    PROVE  Slot(i, t)
  BY DEF Slot, EntryCovers, InHandCovers, AcceptedOnce

\* A process that gives up what it has in hand.
LEMMA SlotDropped ==
    ASSUME TypeOK, TypeOK', NEW i \in Instance, NEW t \in Token, Slot(i, t),
           now'.s = now.s, exp'[t] = exp[t], req'[i].phase \notin {"l1", "l2"}, mode'[i] = mode[i],
           l1'[i][t].until = l1[i][t].until, mine'[i][t] = mine[i][t],
           l2'[t] = l2[t] \/ l2'[t].s >= exp[t],
           ~Accepted(i, t)
    PROVE  Slot(i, t)'
<1>1. ~Before(i, t)' /\ ~Accepted(i, t)'
  BY DEF Before, Accepted
<1>2. EntryCovers(i, t)' /\ InHandCovers(i, t)'
  BY <1>1 DEF Slot, EntryCovers, InHandCovers
<1>3. Fits => AcceptedOnce(i, t)'
  BY <1>1 DEF Slot, AcceptedOnce
<1> QED
  BY <1>2, <1>3 DEF Slot, Fits

\* An entry of L1 that is no longer live is past its deadline.
LEMMA DeadEntry ==
    ASSUME TypeOK, NEW i \in Instance, NEW t \in Token, EntryCovers(i, t),
           l1[i][t].until # Never, ~Live(l1[i][t].until)
    PROVE  exp[t] <= now.s
<1>1. now.s \in Nat /\ exp[t] \in Nat /\ l1[i][t].until.s \in Nat
  BY SlotTypes
<1> QED
  BY <1>1 DEF EntryCovers, Live

LEMMA NeverIsDead == ASSUME TypeOK PROVE ~Live(Never)
<1>1. now.s \in Nat /\ now.f \in Nat
  BY TokenAssumption DEF TypeOK, Time
<1> QED
  BY <1>1 DEF Live, Never

\* What Remember leaves of another token, and what it records of its own.
LEMMA RememberSlots ==
    ASSUME TypeOK, NEW i \in Instance, NEW t \in Token, NEW ttl \in Nat
    PROVE  /\ \A u \in Token : u # t =>
                  \/ Remember(i, t, ttl)[u].until = l1[i][u].until
                  \/ /\ Remember(i, t, ttl)[u].until = Never
                     /\ Fits => ~Live(l1[i][u].until)
           /\ \/ Live(l1[i][t].until) /\ Remember(i, t, ttl)[t].until = l1[i][t].until
              \/ ~Live(l1[i][t].until) /\ Remember(i, t, ttl)[t].until = In(ttl)
<1> DEFINE live == {u \in Token : Live(l1[i][u].until)}
           kept == IF Cardinality(live) < MaxEntries THEN live ELSE live \ {OldestEntry(i, live)}
<1>1. CASE t \in live
  BY <1>1 DEF Remember
<1>2. CASE t \notin live
  <2>1. Remember(i, t, ttl) = [u \in Token |->
            IF u = t THEN [until |-> In(ttl), age |-> 0]
            ELSE IF u \in kept THEN [l1[i][u] EXCEPT !.age = @ + 1]
            ELSE NoEntry]
    BY <1>2 DEF Remember
  <2>2. Fits => kept = live
    <3> SUFFICES ASSUME Fits
                 PROVE  Cardinality(live) < MaxEntries
      OBVIOUS
    <3>1. live \subseteq Token \ {t} /\ IsFiniteSet(Token) /\ Cardinality(Token) <= MaxEntries
      BY <1>2 DEF Fits
    <3>2. /\ IsFiniteSet(Token \ {t}) /\ Cardinality(Token \ {t}) = Cardinality(Token) - 1
          /\ Cardinality(Token) \in Nat
      BY <3>1, FS_RemoveElement, FS_CardinalityType
    <3>3. IsFiniteSet(live) /\ Cardinality(live) <= Cardinality(Token \ {t})
      BY <3>1, <3>2, FS_Subset
    <3>4. Cardinality(live) \in Nat
      BY <3>3, FS_CardinalityType
    <3> QED
      BY <3>1, <3>2, <3>3, <3>4, TokenAssumption
  <2>3. kept \subseteq live
    OBVIOUS
  <2> HIDE DEF kept
  <2>4. ASSUME NEW u \in Token, u # t
        PROVE  \/ Remember(i, t, ttl)[u].until = l1[i][u].until
               \/ /\ Remember(i, t, ttl)[u].until = Never
                  /\ Fits => ~Live(l1[i][u].until)
    <3>1. CASE u \in kept
      <4>1. Remember(i, t, ttl)[u] = [l1[i][u] EXCEPT !.age = @ + 1]
        BY <2>1, <2>4, <3>1
      <4>2. l1[i][u] \in [until : Time, age : Nat]
        BY DEF TypeOK
      <4> QED
        BY <4>1, <4>2
    <3>2. CASE u \notin kept
      <4>1. Remember(i, t, ttl)[u] = NoEntry
        BY <2>1, <2>4, <3>2
      <4> QED
        BY <2>2, <3>2, <4>1 DEF NoEntry
    <3> QED
      BY <3>1, <3>2
  <2>5. Remember(i, t, ttl)[t] = [until |-> In(ttl), age |-> 0]
    BY <2>1
  <2> QED
    BY <1>2, <2>4, <2>5
<1> QED
  BY <1>1, <1>2

LEMMA SlotInit == Init => SlotInv
<1> SUFFICES ASSUME Init
             PROVE  SlotInv
  OBVIOUS
<1>1. TypeOK
  BY InitType
<1>2. \A i \in Instance :
          req[i] = Idle /\ \A t \in Token : l1[i][t].until = Never /\ mine[i][t] = 0
  BY DEF Init, NoEntry
<1>3. ASSUME NEW i \in Instance, NEW t \in Token
      PROVE  Slot(i, t)
  <2>1. ~Before(i, t) /\ ~Accepted(i, t)
    BY <1>2 DEF Before, Accepted, Idle
  <2> QED
    BY <1>1, <1>2, <2>1, SlotBlank
<1> QED
  BY <1>1, <1>2, <1>3 DEF SlotInv, UnsetIsEmpty

\* A step that leaves the stores and the requests of all processes but i alone.
LEMMA OtherSlots ==
    ASSUME SlotInv, TypeOK', NEW i \in Instance, UNCHANGED exp, now.s <= now'.s,
           \A j \in Instance : j # i => /\ req'[j] = req[j] /\ mode'[j] = mode[j]
                                        /\ l1'[j] = l1[j] /\ mine'[j] = mine[j],
           \A t \in Token : l2'[t] = l2[t] \/ l2'[t].s >= exp[t]
    PROVE  \A j \in Instance, t \in Token : j # i => Slot(j, t)'
<1> SUFFICES ASSUME NEW j \in Instance, NEW t \in Token, j # i
             PROVE  Slot(j, t)'
  OBVIOUS
<1>1. TypeOK /\ Slot(j, t)
  BY DEF SlotInv
<1> QED
  BY <1>1, SlotFrame

LEMMA SlotSetAccepted ==
    ASSUME SlotInv, TypeOK', NEW i \in Instance, SetAccepted(i)
    PROVE  SlotInv'
<1>a. TypeOK /\ req[i].tok \in Token /\ req[i].ttl \in Nat /\ req[i] \in Request
  BY RequestShape DEF SlotInv, SetAccepted
<1>b. PICK t \in Token, ttl \in Nat : t = req[i].tok /\ ttl = req[i].ttl
  BY <1>a
<1>1. /\ req[i].phase = "l2" /\ mode[i] = "redis"
      /\ l2' = [l2 EXCEPT ![t] = In(ttl)]
      /\ req' = [req EXCEPT ![i].phase = "l1"]
      /\ Accept(i, t)
      /\ UNCHANGED <<now, exp, sub, mode, l1, executed>>
  BY <1>b DEF SetAccepted
<1>2. TypeOK /\ Slot(i, t) /\ Before(i, t)
  BY <1>1, <1>b DEF SlotInv, Before
<1>3. t \in Token /\ ttl \in Nat /\ req[i] \in Request
  BY <1>a
<1>4. now.s \in Nat /\ exp[t] \in Nat /\ mine[i][t] \in Nat
  BY <1>2, <1>3, SlotTypes
<1>5. exp[t] > 0 /\ ttl + now.s >= exp[t]
  BY <1>2, <1>b DEF Slot, InHandCovers
<1>6. /\ req'[i].phase = "l1" /\ req'[i].tok = t /\ req'[i].ttl = ttl
      /\ \A j \in Instance : j # i => req'[j] = req[j]
  BY <1>1, <1>2, <1>3, <1>b DEF TypeOK, Request
<1>7. l2'[t].s >= exp[t] /\ \A u \in Token : u # t => l2'[u] = l2[u]
  <2>1. In(ttl).s = now.s + ttl
    BY <1>2, <1>3, InIsTime
  <2>2. l2'[t] = In(ttl) /\ \A u \in Token : u # t => l2'[u] = l2[u]
    BY <1>1, <1>2, <1>3 DEF TypeOK
  <2> QED
    BY <1>3, <1>4, <1>5, <2>1, <2>2
<1>8. /\ \A j \in Instance : j # i => mine'[j] = mine[j]
      /\ \A u \in Token : u # t => mine'[i][u] = mine[i][u]
      /\ \/ now.s < exp[t] /\ mine'[i][t] = mine[i][t] + 1
         \/ exp[t] <= now.s /\ mine'[i][t] = mine[i][t]
  <2>1. CASE now.s < exp[t]
    <3>1. mine' = [mine EXCEPT ![i][t] = @ + 1]
      BY <1>1, <2>1 DEF Accept
    <3>2. mine \in [Instance -> [Token -> Nat]]
      BY <1>2 DEF TypeOK
    <3> QED
      BY <1>3, <2>1, <3>1, <3>2
  <2>2. CASE ~(now.s < exp[t])
    <3>1. mine' = mine
      BY <1>1, <2>2 DEF Accept
    <3> QED
      BY <1>4, <2>2, <3>1
  <2> QED
    BY <2>1, <2>2
<1>9. now.s <= now'.s /\ UNCHANGED <<now, exp, mode, l1>>
  BY <1>1, <1>4
<1>10. \A u \in Token : l2'[u] = l2[u] \/ l2'[u].s >= exp[u]
  BY <1>7
<1>11. \A j \in Instance, u \in Token : j # i => Slot(j, u)'
  BY <1>6, <1>8, <1>9, <1>10, OtherSlots
<1>12. ASSUME NEW u \in Token, u # t
       PROVE  Slot(i, u)'
  <2>1. ~Accepted(i, u)' /\ ~Before(i, u)' /\ ~Accepted(i, u)
    BY <1>1, <1>6, <1>12, <1>b DEF Accepted, Before
  <2>2. Slot(i, u)
    BY DEF SlotInv
  <2>3. EntryCovers(i, u)' /\ InHandCovers(i, u)'
    BY <1>7, <1>9, <1>12, <2>1, <2>2 DEF Slot, EntryCovers, InHandCovers
  <2>4. Fits => AcceptedOnce(i, u)'
    BY <1>8, <1>9, <1>12, <2>1, <2>2 DEF Slot, AcceptedOnce
  <2> QED
    BY <2>3, <2>4 DEF Slot, Fits
<1>13. Slot(i, t)'
  <2>1. Accepted(i, t)' /\ ~Before(i, t)'
    BY <1>1, <1>6 DEF Accepted, Before
  <2>2. EntryCovers(i, t)'
    BY <1>2, <1>7, <1>9 DEF Slot, EntryCovers
  <2>3. InHandCovers(i, t)'
    BY <1>5, <1>6, <1>7, <1>9 DEF InHandCovers
  <2>4. Fits => AcceptedOnce(i, t)'
    <3> SUFFICES ASSUME Fits
                 PROVE  AcceptedOnce(i, t)'
      OBVIOUS
    <3>1. AcceptedOnce(i, t)
      BY <1>2 DEF Slot
    <3>2. mine'[i][t] <= 1
      BY <1>2, <1>4, <1>8, <3>1 DEF AcceptedOnce
    <3> QED
      BY <1>5, <1>9, <2>1, <3>2 DEF AcceptedOnce
  <2> QED
    BY <2>2, <2>3, <2>4 DEF Slot, Fits
<1>14. UnsetIsEmpty'
  BY <1>1, <1>6, <1>9 DEF SlotInv, UnsetIsEmpty
<1> QED
  BY <1>11, <1>12, <1>13, <1>14 DEF SlotInv

LEMMA SlotRecord ==
    ASSUME SlotInv, TypeOK', NEW i \in Instance, Record(i)
    PROVE  SlotInv'
<1>a. TypeOK /\ req[i].tok \in Token /\ req[i].ttl \in Nat /\ req[i] \in Request
  BY RequestShape DEF SlotInv, Record
<1>b. PICK t \in Token, ttl \in Nat : t = req[i].tok /\ ttl = req[i].ttl
  BY <1>a
<1>1. /\ req[i].phase = "l1"
      /\ l1' = [l1 EXCEPT ![i] = Remember(i, t, ttl)]
      /\ req' = [req EXCEPT ![i].phase = "reply"]
      /\ IF mode[i] = "local" THEN Accept(i, t) ELSE UNCHANGED <<early, late, mine>>
      /\ UNCHANGED <<now, exp, sub, l2, mode, executed>>
  BY <1>b DEF Record
<1>2. TypeOK /\ Slot(i, t) /\ (Before(i, t) \/ Accepted(i, t))
  BY <1>1, <1>b DEF SlotInv, Before, Accepted
<1>3. t \in Token /\ ttl \in Nat /\ req[i] \in Request
  BY <1>a
<1>4. /\ now.s \in Nat /\ exp[t] \in Nat /\ mine[i][t] \in Nat
      /\ l1[i][t].until.s \in Nat
  BY <1>2, <1>3, SlotTypes
<1>5. exp[t] > 0 /\ ttl + now.s >= exp[t]
  BY <1>2, <1>b DEF Slot, InHandCovers
<1>6. /\ req'[i].phase = "reply"
      /\ \A j \in Instance : j # i => req'[j] = req[j]
  BY <1>1, <1>2, <1>3, <1>b DEF TypeOK, Request
<1>7. /\ l1'[i] = Remember(i, t, ttl)
      /\ \A j \in Instance : j # i => l1'[j] = l1[j]
  BY <1>1, <1>2 DEF TypeOK
<1>8. /\ \A j \in Instance : j # i => mine'[j] = mine[j]
      /\ \A u \in Token : u # t => mine'[i][u] = mine[i][u]
      /\ \/ mode[i] = "local" /\ now.s < exp[t] /\ mine'[i][t] = mine[i][t] + 1
         \/ mine'[i][t] = mine[i][t]
  <2>1. CASE mode[i] = "local" /\ now.s < exp[t]
    <3>1. mine' = [mine EXCEPT ![i][t] = @ + 1]
      BY <1>1, <2>1 DEF Accept
    <3>2. mine \in [Instance -> [Token -> Nat]]
      BY <1>2 DEF TypeOK
    <3> QED
      BY <1>3, <2>1, <3>1, <3>2
  <2>2. CASE ~(mode[i] = "local" /\ now.s < exp[t])
    BY <1>1, <2>2 DEF Accept
  <2> QED
    BY <2>1, <2>2
<1>9. In(ttl).s >= exp[t]
  <2>1. In(ttl).s = now.s + ttl
    BY <1>2, <1>3, InIsTime
  <2> QED
    BY <1>3, <1>4, <1>5, <2>1
<1>10. now.s <= now'.s /\ UNCHANGED <<now, exp, mode, l2>>
  BY <1>1, <1>4
<1>11. \A j \in Instance, u \in Token : j # i => Slot(j, u)'
  BY <1>6, <1>7, <1>8, <1>10, OtherSlots
<1>12. \A u \in Token : ~Before(i, u)' /\ ~Accepted(i, u)' /\ InHandCovers(i, u)'
  BY <1>6 DEF Before, Accepted, InHandCovers
<1>13. ASSUME NEW u \in Token, u # t
       PROVE  Slot(i, u)'
  <2>1. \/ l1'[i][u].until = l1[i][u].until
        \/ l1'[i][u].until = Never /\ (Fits => ~Live(l1[i][u].until))
    BY <1>2, <1>3, <1>7, <1>13, RememberSlots
  <2>2. Slot(i, u) /\ TypeOK
    BY DEF SlotInv
  <2>3. EntryCovers(i, u)'
    BY <1>10, <2>1, <2>2 DEF Slot, EntryCovers
  <2>4. ~Accepted(i, u) /\ ~Before(i, u)
    BY <1>13, <1>b DEF Accepted, Before
  <2>5. Fits => AcceptedOnce(i, u)'
    <3> SUFFICES ASSUME Fits
                 PROVE  AcceptedOnce(i, u)'
      OBVIOUS
    <3>1. l1[i][u].until # Never => exp[u] <= now.s \/ l1'[i][u].until # Never
      BY <2>1, <2>2, DeadEntry DEF Slot
    <3>2. AcceptedOnce(i, u)
      BY <2>2 DEF Slot
    <3> QED
      BY <1>8, <1>10, <1>12, <1>13, <2>4, <3>1, <3>2 DEF AcceptedOnce
  <2> QED
    BY <1>12, <2>3, <2>5 DEF Slot, Fits
<1>14. Slot(i, t)'
  <2>1. \/ Live(l1[i][t].until) /\ l1'[i][t].until = l1[i][t].until
        \/ l1'[i][t].until = In(ttl)
    BY <1>2, <1>3, <1>7, RememberSlots
  <2>2. l1'[i][t].until # Never /\ l1'[i][t].until.s >= exp[t]
    <3>1. CASE Live(l1[i][t].until) /\ l1'[i][t].until = l1[i][t].until
      BY <1>2, <3>1, NeverIsDead DEF Slot, EntryCovers
    <3>2. CASE l1'[i][t].until = In(ttl)
      <4>1. In(ttl).s > 0
        BY <1>2, <1>3, <1>4, <1>5, <1>9, InIsTime
      <4> QED
        BY <1>9, <3>2, <4>1 DEF Never
    <3> QED
      BY <2>1, <3>1, <3>2
  <2>3. mode[i] = "redis" => l2[t].s >= exp[t]
    BY <1>1, <1>2, <1>b DEF Slot, InHandCovers, Accepted
  <2>4. EntryCovers(i, t)'
    BY <1>5, <1>10, <2>2, <2>3 DEF EntryCovers
  <2>5. Fits => AcceptedOnce(i, t)'
    <3> SUFFICES ASSUME Fits
                 PROVE  AcceptedOnce(i, t)'
      OBVIOUS
    <3>1. AcceptedOnce(i, t)
      BY <1>2 DEF Slot
    <3>2. mode[i] = "local" => Before(i, t)
      BY <1>1, <1>b DEF Before
    <3>3. mine'[i][t] <= 1
      BY <1>4, <1>8, <3>1, <3>2 DEF AcceptedOnce
    <3> QED
      BY <1>5, <1>10, <1>12, <2>2, <3>3 DEF AcceptedOnce
  <2> QED
    BY <1>12, <2>4, <2>5 DEF Slot, Fits
<1>15. UnsetIsEmpty'
  <2>1. mode[i] # "unset"
    BY <1>1 DEF SlotInv, UnsetIsEmpty, Idle
  <2> QED
    BY <1>6, <1>7, <1>10, <2>1 DEF SlotInv, UnsetIsEmpty
<1> QED
  BY <1>11, <1>13, <1>14, <1>15 DEF SlotInv

LEMMA SlotNext == SlotInv /\ [Next]_vars => SlotInv'
<1> SUFFICES ASSUME SlotInv, [Next]_vars
             PROVE  SlotInv'
  OBVIOUS
<1>a. TypeOK /\ TypeOK'
  BY NextType DEF SlotInv
<1>b. now.s \in Nat
  BY <1>a DEF TypeOK, Time
<1>1. CASE Tick
  <2>1. now.s <= now'.s
    <3>1. now'.s = now.s \/ now'.s = now.s + 1
      BY <1>1, <1>a DEF Tick, TypeOK, Time
    <3> QED
      BY <1>b, <3>1
  <2>2. UNCHANGED <<exp, l2, mode, l1, req, mine>>
    BY <1>1 DEF Tick
  <2>3. \A j \in Instance, u \in Token : Slot(j, u)'
    BY <1>a, <2>1, <2>2, SlotFrame DEF SlotInv
  <2> QED
    BY <1>a, <2>2, <2>3 DEF SlotInv, UnsetIsEmpty
<1>2. ASSUME NEW i \in Instance, Boot(i)
      PROVE  SlotInv'
  <2>1. mode[i] = "unset" /\ \E m \in {"redis", "cut", "local"} : mode' = [mode EXCEPT ![i] = m]
    BY <1>2 DEF Boot, StoreWithoutRedis
  <2>2. UNCHANGED <<now, exp, l2, l1, req, mine>> /\ now.s <= now'.s
    BY <1>2, <1>b DEF Boot
  <2>3. mode'[i] # "unset" /\ \A j \in Instance : j # i => mode'[j] = mode[j]
    BY <1>a, <2>1 DEF TypeOK
  <2>4. \A j \in Instance, u \in Token : j # i => Slot(j, u)'
    BY <1>a, <2>2, <2>3, OtherSlots
  <2>5. ASSUME NEW u \in Token
        PROVE  Slot(i, u)'
    <3>1. req[i] = Idle /\ l1[i][u].until = Never
      BY <2>1 DEF SlotInv, UnsetIsEmpty
    <3>2. ~Before(i, u) /\ ~Accepted(i, u) /\ ~Before(i, u)' /\ ~Accepted(i, u)'
      BY <2>2, <3>1 DEF Before, Accepted, Idle
    <3>3. EntryCovers(i, u)' /\ InHandCovers(i, u)'
      BY <2>2, <3>1, <3>2 DEF EntryCovers, InHandCovers
    <3>4. Fits => AcceptedOnce(i, u)'
      BY <2>2, <3>1, <3>2 DEF SlotInv, Slot, AcceptedOnce
    <3> QED
      BY <3>3, <3>4 DEF Slot, Fits
  <2> QED
    BY <1>a, <2>2, <2>3, <2>4, <2>5 DEF SlotInv, UnsetIsEmpty
<1>3. ASSUME NEW i \in Instance, Crash(i)
      PROVE  SlotInv'
  <2>1. /\ mode' = [mode EXCEPT ![i] = "unset"]
        /\ l1' = [l1 EXCEPT ![i] = [t \in Token |-> NoEntry]]
        /\ req' = [req EXCEPT ![i] = Idle]
        /\ mine' = [mine EXCEPT ![i] = [t \in Token |-> 0]]
        /\ UNCHANGED <<now, exp, l2>>
    BY <1>3 DEF Crash
  <2>2. now.s <= now'.s
    BY <1>b, <2>1
  <2>3. \A j \in Instance : j # i => /\ req'[j] = req[j] /\ mode'[j] = mode[j]
                                     /\ l1'[j] = l1[j] /\ mine'[j] = mine[j]
    BY <1>a, <2>1 DEF TypeOK
  <2>4. \A j \in Instance, u \in Token : j # i => Slot(j, u)'
    BY <1>a, <2>1, <2>2, <2>3, OtherSlots
  <2>5. req'[i] = Idle /\ \A u \in Token : l1'[i][u].until = Never /\ mine'[i][u] = 0
    BY <1>a, <2>1 DEF TypeOK, NoEntry
  <2>6. ASSUME NEW u \in Token
        PROVE  Slot(i, u)'
    <3>1. ~Before(i, u)' /\ ~Accepted(i, u)'
      BY <2>5 DEF Before, Accepted, Idle
    <3> QED
      BY <2>5, <3>1 DEF Slot, EntryCovers, InHandCovers, AcceptedOnce
  <2> QED
    BY <1>a, <2>3, <2>4, <2>5, <2>6 DEF SlotInv, UnsetIsEmpty
<1>4. ASSUME NEW i \in Instance, NEW t \in Token, NEW u \in User, Issue(i, t, u)
      PROVE  SlotInv'
  <2>1. exp[t] = 0 /\ exp' = [exp EXCEPT ![t] = now.s + TTL]
        /\ UNCHANGED <<now, l2, mode, l1, req, mine>>
    BY <1>4 DEF Issue
  <2>2. \A v \in Token : v # t => exp'[v] = exp[v]
    BY <1>a, <2>1 DEF TypeOK
  <2>3. ASSUME NEW j \in Instance
        PROVE  Slot(j, t)'
    <3>1. l1[j][t].until = Never /\ ~Before(j, t) /\ ~Accepted(j, t)
          /\ (Fits => mine[j][t] = 0)
      BY <1>a, <2>1, SlotUnissued DEF SlotInv
    <3>2. l1'[j][t].until = Never /\ ~Before(j, t)' /\ ~Accepted(j, t)'
          /\ (Fits => mine'[j][t] = 0)
      BY <2>1, <3>1 DEF Before, Accepted
    <3> QED
      BY <3>2 DEF Slot, EntryCovers, InHandCovers, AcceptedOnce, Fits
  <2>4. \A j \in Instance, v \in Token : v # t => Slot(j, v)'
    BY <1>a, <1>b, <2>1, <2>2, SlotFrame DEF SlotInv
  <2> QED
    BY <1>a, <2>1, <2>3, <2>4 DEF SlotInv, UnsetIsEmpty
<1>5. ASSUME NEW i \in Instance, NEW t \in Token, NEW u \in User, Check(i, t, u)
      PROVE  SlotInv'
  <2>1. /\ mode[i] # "unset" /\ req[i] = Idle /\ exp[t] # 0 /\ ~Seen(i, t)
        /\ req' = [req EXCEPT ![i] = [phase |-> IF mode[i] = "local" THEN "l1" ELSE "l2",
                                      tok |-> t, user |-> u, ttl |-> NonceTtl(t)]]
        /\ UNCHANGED <<now, exp, l2, mode, l1, mine>>
    BY <1>5 DEF Check
  <2>2. /\ req'[i].tok = t /\ req'[i].ttl = NonceTtl(t)
        /\ req'[i].phase = IF mode[i] = "local" THEN "l1" ELSE "l2"
        /\ \A j \in Instance : j # i => req'[j] = req[j]
    BY <1>a, <2>1 DEF TypeOK
  <2>3. \A j \in Instance, v \in Token : j # i => Slot(j, v)'
    BY <1>a, <1>b, <2>1, <2>2, OtherSlots
  <2>4. \A v \in Token : ~Before(i, v) /\ ~Accepted(i, v) /\ ~Accepted(i, v)'
    BY <2>1, <2>2 DEF Before, Accepted, Idle
  <2>5. ASSUME NEW v \in Token, v # t
        PROVE  Slot(i, v)'
    <3>1. ~Before(i, v)'
      BY <2>2, <2>5 DEF Before
    <3>2. EntryCovers(i, v)' /\ InHandCovers(i, v)'
      BY <2>1, <2>4, <3>1 DEF SlotInv, Slot, EntryCovers, InHandCovers
    <3>3. Fits => AcceptedOnce(i, v)'
      BY <2>1, <2>4, <3>1 DEF SlotInv, Slot, AcceptedOnce
    <3> QED
      BY <3>2, <3>3 DEF Slot, Fits
  <2>6. Slot(i, t)'
    <3>1. exp[t] \in Nat /\ NonceTtl(t) + now.s >= exp[t]
      BY <1>a, SlotTypes, NonceTtlCovers
    <3>2. EntryCovers(i, t)' /\ InHandCovers(i, t)'
      BY <2>1, <2>2, <2>4, <3>1 DEF SlotInv, Slot, EntryCovers, InHandCovers
    <3>3. l1[i][t].until # Never => exp[t] <= now.s
      BY <1>a, <2>1, DeadEntry DEF Seen, SlotInv, Slot
    <3>4. Fits => AcceptedOnce(i, t)'
      BY <2>1, <2>4, <3>3 DEF SlotInv, Slot, AcceptedOnce
    <3> QED
      BY <3>2, <3>4 DEF Slot, Fits
  <2> QED
    BY <1>a, <2>1, <2>2, <2>3, <2>5, <2>6 DEF SlotInv, UnsetIsEmpty
<1>6. ASSUME NEW i \in Instance, SetReplyLost(i) \/ SetRefused(i) \/ Execute(i) \/ FailAfterConsume(i)
      PROVE  SlotInv'
  <2>1. /\ req' = [req EXCEPT ![i] = Idle]
        /\ UNCHANGED <<now, exp, mode, l1, mine>>
        /\ req[i].phase \in {"l2", "reply"}
    BY <1>6 DEF SetReplyLost, SetRefused, Execute, FailAfterConsume
  <2>2. req'[i] = Idle /\ \A j \in Instance : j # i => req'[j] = req[j]
    BY <1>a, <2>1 DEF TypeOK
  <2>3. \A v \in Token : l2'[v] = l2[v] \/ l2'[v].s >= exp[v]
    <3>1. CASE l2' = l2
      BY <3>1
    <3>2. CASE SetReplyLost(i)
      <4>1. req[i].phase = "l2" /\ l2' = [l2 EXCEPT ![req[i].tok] = In(req[i].ttl)]
        BY <3>2 DEF SetReplyLost
      <4>2. req[i].tok \in Token /\ req[i].ttl \in Nat
        BY <1>a, <4>1, RequestShape
      <4>3. req[i].ttl + now.s >= exp[req[i].tok]
        BY <4>1, <4>2 DEF SlotInv, Slot, InHandCovers, Before
      <4>4. In(req[i].ttl).s = now.s + req[i].ttl
        BY <1>a, <4>2, InIsTime
      <4>5. exp[req[i].tok] \in Nat
        BY <1>a, <4>2 DEF TypeOK
      <4>6. In(req[i].ttl).s >= exp[req[i].tok]
        BY <1>b, <4>2, <4>3, <4>4, <4>5
      <4> QED
        BY <1>a, <4>1, <4>2, <4>6 DEF TypeOK
    <3> QED
      BY <1>6, <3>1, <3>2 DEF SetRefused, Execute, FailAfterConsume
  <2>4. \A j \in Instance, v \in Token : j # i => Slot(j, v)'
    BY <1>a, <1>b, <2>1, <2>2, <2>3, OtherSlots
  <2>5. ASSUME NEW v \in Token
        PROVE  Slot(i, v)'
    <3>1. ~Accepted(i, v) /\ Slot(i, v)
      BY <2>1 DEF Accepted, SlotInv
    <3>2. req'[i].phase \notin {"l1", "l2"}
      BY <2>2 DEF Idle
    <3> QED
      BY <1>a, <2>1, <2>3, <3>1, <3>2, SlotDropped
  <2> QED
    BY <1>a, <2>1, <2>2, <2>4, <2>5 DEF SlotInv, UnsetIsEmpty
<1>7. CASE UNCHANGED vars
  <2>1. UNCHANGED <<now, exp, l2, mode, l1, req, mine>>
    BY <1>7 DEF vars
  <2>2. \A j \in Instance, v \in Token : Slot(j, v)'
    BY <1>a, <1>b, <2>1, SlotFrame DEF SlotInv
  <2> QED
    BY <1>a, <2>1, <2>2 DEF SlotInv, UnsetIsEmpty
<1> QED
  BY <1>a, <1>1, <1>2, <1>3, <1>4, <1>5, <1>6, <1>7, SlotSetAccepted, SlotRecord DEF Next

\* What a process remembers covers the deadlines: the invariant of L1 and the
\* requests in hand.
THEOREM SlotInvariance == Spec => []SlotInv
  BY SlotInit, SlotNext, PTL DEF Spec

LEMMA SlotsAreCoherent == SlotInv => CacheCoherent
<1> SUFFICES ASSUME SlotInv, NEW i \in Instance, NEW t \in Token,
                    mode[i] = "redis", Live(l1[i][t].until), now.s < exp[t]
             PROVE  Live(l2[t])
  BY DEF CacheCoherent
<1>1. TypeOK /\ EntryCovers(i, t)
  BY DEF SlotInv, Slot
<1>2. l1[i][t].until # Never
  BY <1>1, NeverIsDead
<1>3. l2[t].s >= exp[t]
  BY <1>1, <1>2 DEF EntryCovers
<1>4. now.s \in Nat /\ exp[t] \in Nat /\ l2[t].s \in Nat
  BY <1>1, SlotTypes
<1> QED
  BY <1>1, <1>3, <1>4, LaterIsLive

\* L1 never refuses what Redis would have accepted (CacheCoherent).
THEOREM CacheTheorem == Spec => []CacheCoherent
  BY SlotInvariance, SlotsAreCoherent, PTL

----------------------------------------------------------------------------
(* ExecutionBacked: requests past their acceptance are counted too.           *)

Holds(i, t) == Accepted(i, t) \/ (req[i].phase = "reply" /\ req[i].tok = t)
Holders(t) == {i \in Instance : Holds(i, t)}

Backed(t) == /\ IsFiniteSet(Holders(t))
             /\ executed[t] + Cardinality(Holders(t)) <= early[t] + late[t]

BackedInv == \A t \in Token : Backed(t)

\* No request is dropped, and none is accepted without being counted.
LEMMA BackedFrame ==
    ASSUME TypeOK, NEW t \in Token, Backed(t), Holders(t)' \subseteq Holders(t),
           executed'[t] = executed[t], early'[t] = early[t], late'[t] = late[t]
    PROVE  Backed(t)'
<1>1. executed[t] \in Nat /\ early[t] \in Nat /\ late[t] \in Nat
  BY DEF TypeOK
<1>2. /\ IsFiniteSet(Holders(t)') /\ Cardinality(Holders(t)') <= Cardinality(Holders(t))
      /\ Cardinality(Holders(t)') \in Nat /\ Cardinality(Holders(t)) \in Nat
  BY FS_Subset, FS_CardinalityType DEF Backed
<1> QED
  BY <1>1, <1>2 DEF Backed

LEMMA AddOne ==
    ASSUME NEW S, NEW x, IsFiniteSet(S)
    PROVE  /\ IsFiniteSet(S \cup {x})
           /\ Cardinality(S \cup {x}) <= Cardinality(S) + 1
           /\ Cardinality(S) \in Nat
<1>1. Cardinality(S) \in Nat
  BY FS_CardinalityType
<1>2. /\ IsFiniteSet(S \cup {x})
      /\ Cardinality(S \cup {x}) = Cardinality(S) \/ Cardinality(S \cup {x}) = Cardinality(S) + 1
  BY FS_AddElement
<1> QED
  BY <1>1, <1>2

\* An acceptance adds at most one holder.
LEMMA BackedAccept ==
    ASSUME TypeOK, NEW i \in Instance, NEW t \in Token, Backed(t), Accept(i, t),
           Holders(t)' \subseteq Holders(t) \cup {i}, executed'[t] = executed[t]
    PROVE  Backed(t)'
<1>1. executed[t] \in Nat /\ early[t] \in Nat /\ late[t] \in Nat
  BY DEF TypeOK
<1>2. early'[t] + late'[t] = early[t] + late[t] + 1
  <2>1. early \in [Token -> Nat] /\ late \in [Token -> Nat]
    BY DEF TypeOK
  <2> QED
    BY <1>1, <2>1 DEF Accept
<1>3. /\ IsFiniteSet(Holders(t) \cup {i})
      /\ Cardinality(Holders(t) \cup {i}) <= Cardinality(Holders(t)) + 1
      /\ Cardinality(Holders(t)) \in Nat
  <2>1. IsFiniteSet(Holders(t))
    BY DEF Backed
  <2> QED
    BY <2>1, AddOne
<1>4. /\ IsFiniteSet(Holders(t)') /\ Cardinality(Holders(t)') <= Cardinality(Holders(t) \cup {i})
      /\ Cardinality(Holders(t)') \in Nat /\ Cardinality(Holders(t) \cup {i}) \in Nat
  BY <1>3, FS_Subset, FS_CardinalityType
<1> QED
  BY <1>1, <1>2, <1>3, <1>4 DEF Backed

LEMMA BackedInit == Init => BackedInv
<1> SUFFICES ASSUME Init, NEW t \in Token
             PROVE  Backed(t)
  BY DEF BackedInv
<1>1. Holders(t) = {}
  BY DEF Init, Holders, Holds, Accepted, Idle
<1>2. IsFiniteSet({}) /\ Cardinality({}) = 0
  BY FS_EmptySet
<1> QED
  BY <1>1, <1>2 DEF Init, Backed

LEMMA BackedNext == TypeOK /\ SlotInv /\ BackedInv /\ [Next]_vars => BackedInv'
<1> SUFFICES ASSUME TypeOK, SlotInv, BackedInv, [Next]_vars, NEW t \in Token
             PROVE  Backed(t)'
  BY DEF BackedInv
<1>a. Backed(t)
  BY DEF BackedInv
<1>c. ASSUME UNCHANGED <<req, mode, executed, early, late>>
      PROVE  Backed(t)'
  <2>1. Holders(t)' = Holders(t)
    BY <1>c DEF Holders, Holds, Accepted
  <2> QED
    BY <1>a, <1>c, <2>1, BackedFrame
<1>d. ASSUME NEW i \in Instance, req'[i] = Idle, UNCHANGED <<executed, early, late>>,
             \A j \in Instance : j # i => req'[j] = req[j] /\ mode'[j] = mode[j]
      PROVE  Backed(t)'
  <2>1. ~Holds(i, t)'
    BY <1>d DEF Holds, Accepted, Idle
  <2>2. Holders(t)' \subseteq Holders(t)
    BY <1>d, <2>1 DEF Holders, Holds, Accepted
  <2> QED
    BY <1>a, <1>d, <2>2, BackedFrame
<1>1. CASE Tick
  BY <1>1, <1>c DEF Tick
<1>2. ASSUME NEW i \in Instance, Boot(i)
      PROVE  Backed(t)'
  <2>1. mode[i] = "unset" /\ UNCHANGED <<req, executed, early, late>>
        /\ \E m : mode' = [mode EXCEPT ![i] = m]
    BY <1>2 DEF Boot
  <2>2. req'[i] = Idle
    BY <2>1 DEF SlotInv, UnsetIsEmpty
  <2>3. \A j \in Instance : j # i => req'[j] = req[j] /\ mode'[j] = mode[j]
    BY <2>1 DEF TypeOK
  <2> QED
    BY <1>d, <2>1, <2>2, <2>3
<1>3. ASSUME NEW i \in Instance, Crash(i) \/ SetReplyLost(i) \/ SetRefused(i) \/ FailAfterConsume(i)
      PROVE  Backed(t)'
  <2>1. /\ req' = [req EXCEPT ![i] = Idle] /\ UNCHANGED <<executed, early, late>>
        /\ mode' = mode \/ mode' = [mode EXCEPT ![i] = "unset"]
    BY <1>3 DEF Crash, SetReplyLost, SetRefused, FailAfterConsume
  <2>2. req'[i] = Idle /\ \A j \in Instance : j # i => req'[j] = req[j] /\ mode'[j] = mode[j]
    BY <2>1 DEF TypeOK
  <2> QED
    BY <1>d, <2>1, <2>2
<1>4. ASSUME NEW i \in Instance, NEW u \in Token, NEW v \in User, Issue(i, u, v)
      PROVE  Backed(t)'
  BY <1>4, <1>c DEF Issue
<1>5. ASSUME NEW i \in Instance, NEW u \in Token, NEW v \in User, Check(i, u, v)
      PROVE  Backed(t)'
  <2>1. /\ req' = [req EXCEPT ![i] = [phase |-> IF mode[i] = "local" THEN "l1" ELSE "l2",
                                      tok |-> u, user |-> v, ttl |-> NonceTtl(u)]]
        /\ UNCHANGED <<mode, executed, early, late>>
    BY <1>5 DEF Check
  <2>2. /\ req'[i].phase = IF mode[i] = "local" THEN "l1" ELSE "l2"
        /\ \A j \in Instance : j # i => req'[j] = req[j]
    BY <2>1 DEF TypeOK
  <2>3. ~Holds(i, t)'
    BY <2>1, <2>2 DEF Holds, Accepted
  <2>4. Holders(t)' \subseteq Holders(t)
    BY <2>1, <2>2, <2>3 DEF Holders, Holds, Accepted
  <2> QED
    BY <1>a, <2>1, <2>4, BackedFrame
<1>6. ASSUME NEW i \in Instance, SetAccepted(i) \/ Record(i)
      PROVE  Backed(t)'
  <2>1. req[i].phase \in {"l1", "l2"} /\ req[i] \in Request /\ req[i].tok \in Token
    BY <1>6, RequestShape DEF SetAccepted, Record
  <2>2. PICK u \in Token : u = req[i].tok
    BY <2>1
  <2>3. UNCHANGED <<mode, executed>>
    BY <1>6 DEF SetAccepted, Record
  <2>4. /\ req'[i].tok = u
        /\ \A j \in Instance : j # i => req'[j] = req[j]
    BY <1>6, <2>1, <2>2 DEF TypeOK, Request, SetAccepted, Record
  <2>5. Holders(t)' \subseteq Holders(t) \cup {i}
    BY <2>3, <2>4 DEF Holders, Holds, Accepted
  <2>6. CASE Accept(i, u)
    <3>1. CASE u = t
      BY <1>a, <2>3, <2>5, <2>6, <3>1, BackedAccept
    <3>2. CASE u # t
      <4>1. ~Holds(i, t)'
        BY <2>4, <3>2 DEF Holds, Accepted
      <4>2. Holders(t)' \subseteq Holders(t)
        BY <2>5, <4>1 DEF Holders
      <4>3. early'[t] = early[t] /\ late'[t] = late[t]
        BY <2>6, <3>2 DEF Accept, TypeOK
      <4> QED
        BY <1>a, <2>3, <4>2, <4>3, BackedFrame
    <3> QED
      BY <3>1, <3>2
  <2>7. CASE Record(i) /\ mode[i] # "local"
    <3>1. UNCHANGED <<early, late>> /\ req[i].phase = "l1"
      BY <2>7 DEF Record
    <3>2. Holds(i, t)' => Holds(i, t)
      BY <2>2, <2>4, <2>7, <3>1 DEF Holds, Accepted
    <3>3. Holders(t)' \subseteq Holders(t)
      BY <2>5, <3>2 DEF Holders
    <3> QED
      BY <1>a, <2>3, <3>1, <3>3, BackedFrame
  <2> QED
    BY <1>6, <2>2, <2>6, <2>7 DEF SetAccepted, Record
<1>7. ASSUME NEW i \in Instance, Execute(i)
      PROVE  Backed(t)'
  <2>1. /\ req[i].phase = "reply"
        /\ executed' = [executed EXCEPT ![req[i].tok] = @ + 1]
        /\ req' = [req EXCEPT ![i] = Idle]
        /\ UNCHANGED <<mode, early, late>>
    BY <1>7 DEF Execute
  <2>2. req'[i] = Idle /\ \A j \in Instance : j # i => req'[j] = req[j]
    BY <2>1 DEF TypeOK
  <2>3. ~Holds(i, t)'
    BY <2>2 DEF Holds, Accepted, Idle
  <2>4. CASE req[i].tok = t
    <3>1. i \in Holders(t)
      BY <2>1, <2>4 DEF Holders, Holds
    <3>2. Holders(t)' \subseteq Holders(t) \ {i}
      BY <2>1, <2>2, <2>3 DEF Holders, Holds, Accepted
    <3>3. IsFiniteSet(Holders(t))
      BY <1>a DEF Backed
    <3>4. /\ IsFiniteSet(Holders(t) \ {i})
          /\ Cardinality(Holders(t) \ {i}) = Cardinality(Holders(t)) - 1
          /\ Cardinality(Holders(t)) \in Nat
      BY <3>1, <3>3, FS_RemoveElement, FS_CardinalityType
    <3>5. IsFiniteSet(Holders(t)') /\ Cardinality(Holders(t)') <= Cardinality(Holders(t) \ {i})
      BY <3>2, <3>4, FS_Subset
    <3>6. Cardinality(Holders(t)') \in Nat
      BY <3>5, FS_CardinalityType
    <3>7. executed \in [Token -> Nat] /\ early[t] \in Nat /\ late[t] \in Nat
      BY DEF TypeOK
    <3>8. executed'[t] = executed[t] + 1
      BY <2>1, <2>4, <3>7
    <3>9. executed[t] + Cardinality(Holders(t)) <= early[t] + late[t]
      BY <1>a DEF Backed
    <3>10. executed[t] \in Nat
      BY <3>7
    <3>11. executed'[t] + Cardinality(Holders(t)') <= early[t] + late[t]
      BY <3>4, <3>5, <3>6, <3>7, <3>8, <3>9, <3>10
    <3> QED
      BY <2>1, <3>5, <3>11 DEF Backed
  <2>5. CASE req[i].tok # t
    <3>1. executed'[t] = executed[t]
      BY <2>1, <2>5 DEF TypeOK
    <3>2. Holders(t)' \subseteq Holders(t)
      BY <2>1, <2>2, <2>3 DEF Holders, Holds, Accepted
    <3> QED
      BY <1>a, <2>1, <3>1, <3>2, BackedFrame
  <2> QED
    BY <2>4, <2>5
<1>8. CASE UNCHANGED vars
  BY <1>8, <1>c DEF vars
<1> QED
  BY <1>1, <1>2, <1>3, <1>4, <1>5, <1>6, <1>7, <1>8 DEF Next

LEMMA BackedCounts == TypeOK /\ BackedInv => ExecutionBacked
<1> SUFFICES ASSUME TypeOK, NEW t \in Token, Backed(t)
             PROVE  executed[t] + Cardinality({i \in Instance : req[i].phase = "reply" /\ req[i].tok = t})
                        <= early[t] + late[t]
  BY DEF ExecutionBacked, BackedInv
<1> DEFINE R == {i \in Instance : req[i].phase = "reply" /\ req[i].tok = t}
<1>1. R \subseteq Holders(t)
  BY DEF Holders, Holds
<1> HIDE DEF R
<1>2. /\ IsFiniteSet(Holders(t)) /\ IsFiniteSet(R)
      /\ Cardinality(R) <= Cardinality(Holders(t))
  BY <1>1, FS_Subset DEF Backed
<1>3. Cardinality(R) \in Nat /\ Cardinality(Holders(t)) \in Nat
  BY <1>2, FS_CardinalityType
<1>4. executed[t] \in Nat /\ early[t] \in Nat /\ late[t] \in Nat
  BY DEF TypeOK
<1>5. executed[t] + Cardinality(R) <= early[t] + late[t]
  BY <1>2, <1>3, <1>4 DEF Backed
<1> QED
  BY <1>5 DEF R

\* Every "executed" reply has an acceptance of its own (ExecutionBacked), for any
\* number of processes, crashes and lost replies.
THEOREM BackedTheorem == Spec => []ExecutionBacked
<1>1. Spec => []BackedInv
  BY BackedInit, BackedNext, TypeCorrect, SlotInvariance, PTL DEF Spec
<1> QED
  BY <1>1, BackedCounts, TypeCorrect, PTL

----------------------------------------------------------------------------
(* The gateway without a key directory (LocalGateway).                        *)

\* A step of the gateway is a step of ExecutionToken as far as its variables go,
\* or the handler of a request with objects of its own.
LEMMA GatewayStep ==
    ASSUME [GatewayNext]_gatewayVars
    PROVE  [Next]_vars \/ \E i \in Instance : ExecuteAside(i)
<1>1. ASSUME NEW i \in Instance, NEW t \in Token, NEW u \in User, IssueAside(i, t, u)
      PROVE  Issue(i, t, u)
  BY <1>1 DEF IssueAside, LoopIdle, Issue
<1>2. ASSUME NEW i \in Instance, NEW t \in Token, NEW u \in User,
             IssueSigned(i, t, u) \/ CheckSigned(i, t, u)
      PROVE  Issue(i, t, u) \/ Check(i, t, u)
  BY <1>2 DEF IssueSigned, CheckSigned
<1>3. ASSUME NEW i \in Instance, Start(i) \/ Restart(i) \/ Unsigned(i)
      PROVE  Next
  BY <1>3 DEF Start, Restart, Unsigned, Next
<1>4. ASSUME NEW i \in Instance,
             LoadKey(i) \/ OpenKeyFile(i) \/ WriteKeyFile(i) \/ WriteKeyFails(i) \/ AsideFails(i)
      PROVE  UNCHANGED vars
  BY <1>4 DEF LoadKey, OpenKeyFile, WriteKeyFile, WriteKeyFails, AsideFails
<1>5. UNCHANGED gatewayVars => UNCHANGED vars
  BY DEF gatewayVars
<1> QED
  BY <1>1, <1>2, <1>3, <1>4, <1>5 DEF GatewayNext, Next

\* What ExecuteAside does to the variables of ExecutionToken.
LEMMA AsideStep ==
    ASSUME TypeOK, aside \in [Instance -> Aside], NEW i \in Instance, ExecuteAside(i)
    PROVE  /\ TypeOK'
           /\ UNCHANGED <<now, exp, sub, mode, l1, req, mine>>
           /\ \A t \in Token : l2'[t] = l2[t] \/ l2'[t].s >= exp[t]
<1>1. aside[i] \in Aside /\ aside[i].kind = "execute"
  BY DEF ExecuteAside
<1>2. aside[i].tok \in Token
  BY <1>1 DEF Aside, NoAside
<1>3. PICK t \in Token : t = aside[i].tok
  BY <1>2
<1>4. /\ UNCHANGED <<now, exp, sub, mode, l1, req, mine>>
      /\ l2' = l2 \/ l2' = [l2 EXCEPT ![t] = In(NonceTtl(t))]
      /\ early' = early \/ early' = [early EXCEPT ![t] = @ + 1]
      /\ late' = late \/ late' = [late EXCEPT ![t] = @ + 1]
      /\ executed' = executed \/ executed' = [executed EXCEPT ![t] = @ + 1]
  BY <1>3 DEF ExecuteAside
<1>5. NonceTtl(t) \in Nat /\ NonceTtl(t) + now.s >= exp[t]
  BY NonceTtlCovers
<1>6. In(NonceTtl(t)) \in Time /\ In(NonceTtl(t)).s = now.s + NonceTtl(t)
  BY <1>5, InIsTime
<1>7. now.s \in Nat /\ exp[t] \in Nat
  BY DEF TypeOK, Time
<1>8. \A v \in Token : l2'[v] = l2[v] \/ l2'[v].s >= exp[v]
  <2>1. In(NonceTtl(t)).s >= exp[t]
    BY <1>5, <1>6, <1>7
  <2> QED
    BY <1>4, <2>1 DEF TypeOK
<1>9. l2' \in [Token -> Time]
  BY <1>4, <1>6 DEF TypeOK
<1>10. early' \in [Token -> Nat] /\ late' \in [Token -> Nat] /\ executed' \in [Token -> Nat]
  <2>1. early \in [Token -> Nat] /\ late \in [Token -> Nat] /\ executed \in [Token -> Nat]
    BY DEF TypeOK
  <2>2. ASSUME NEW f, f \in [Token -> Nat]
        PROVE  [f EXCEPT ![t] = @ + 1] \in [Token -> Nat]
    BY <2>2
  <2> QED
    BY <1>4, <2>1, <2>2
<1> QED
  BY <1>4, <1>8, <1>9, <1>10 DEF TypeOK

LEMMA GatewayTypeInit == GatewayInit => GatewayTypeOK
<1> SUFFICES ASSUME GatewayInit
             PROVE  GatewayTypeOK
  OBVIOUS
<1>1. TypeOK
  BY InitType DEF GatewayInit
<1>2. keyFile \in KeyFile /\ made \in Nat
  <2>1. keyFile = Missing("unset") \/ keyFile = Missing("absent") \/ keyFile = Saved(1)
    BY DEF GatewayInit
  <2>2. made = keyFile.key
    BY DEF GatewayInit
  <2> QED
    BY <2>1, <2>2 DEF KeyFile, Missing, Saved
<1>3. saving \in [Instance -> [key : Nat, opened : BOOLEAN]]
  BY DEF GatewayInit, NotSaving
<1> QED
  BY <1>1, <1>2, <1>3 DEF GatewayInit, GatewayTypeOK, Aside

\* What a step does to the history of the stores that are not kept.
LEMMA StrayStep ==
    ASSUME [GatewayNext]_gatewayVars
    PROVE  \/ /\ UNCHANGED <<strayVars, mode>>
              /\ aside' = aside \/ \E i \in Instance : aside' = [aside EXCEPT ![i] = NoAside]
           \/ \E i \in Instance : Start(i)
           \/ \E i \in Instance : Restart(i)
           \/ \E i \in Instance : ExecuteAside(i)
<1>1. ASSUME NEW i \in Instance,
             LoadKey(i) \/ OpenKeyFile(i) \/ WriteKeyFile(i) \/ WriteKeyFails(i)
      PROVE  UNCHANGED <<strayVars, mode, aside>>
  BY <1>1 DEF LoadKey, OpenKeyFile, WriteKeyFile, WriteKeyFails, vars
<1>2. ASSUME NEW i \in Instance, AsideFails(i)
      PROVE  UNCHANGED <<strayVars, mode>> /\ aside' = [aside EXCEPT ![i] = NoAside]
  BY <1>2 DEF AsideFails, vars
<1>3. ASSUME NEW i \in Instance, NEW t \in Token, NEW u \in User,
             IssueSigned(i, t, u) \/ CheckSigned(i, t, u) \/ IssueAside(i, t, u)
      PROVE  /\ UNCHANGED <<strayVars, mode>>
             /\ aside' = aside \/ aside' = [aside EXCEPT ![i] = NoAside]
  BY <1>3 DEF IssueSigned, CheckSigned, IssueAside, Issue, Check
<1>4. ASSUME NEW i \in Instance, Unsigned(i)
      PROVE  UNCHANGED mode
  BY <1>4 DEF Unsigned, SetAccepted, SetReplyLost, SetRefused, Record, Execute, FailAfterConsume
<1>5. Tick => UNCHANGED mode
  BY DEF Tick
<1>6. UNCHANGED gatewayVars => UNCHANGED <<strayVars, mode, aside>>
  BY DEF gatewayVars, vars
<1> QED
  BY <1>1, <1>2, <1>3, <1>4, <1>5, <1>6 DEF GatewayNext

LEMMA StrayType ==
    ASSUME GatewayTypeOK, [GatewayNext]_gatewayVars
    PROVE  extra' \in [Instance -> Nat] /\ stray' \in [Instance -> [Token -> Nat]]
<1>a. /\ stray \in [Instance -> [Token -> Nat]] /\ extra \in [Instance -> Nat]
      /\ aside \in [Instance -> Aside]
  BY DEF GatewayTypeOK
<1>1. ASSUME NEW i \in Instance, Start(i)
      PROVE  extra' \in [Instance -> Nat] /\ stray' \in [Instance -> [Token -> Nat]]
  <2>1. stray' = stray /\ (extra' = [extra EXCEPT ![i] = 0] \/ extra' = [extra EXCEPT ![i] = 1])
    BY <1>1 DEF Start
  <2> QED
    BY <1>a, <2>1
<1>2. ASSUME NEW i \in Instance, Restart(i)
      PROVE  extra' \in [Instance -> Nat] /\ stray' \in [Instance -> [Token -> Nat]]
  <2>1. extra' = [extra EXCEPT ![i] = 0] /\ stray' = [stray EXCEPT ![i] = [t \in Token |-> 0]]
    BY <1>2 DEF Restart
  <2> QED
    BY <1>a, <2>1
<1>3. ASSUME NEW i \in Instance, ExecuteAside(i)
      PROVE  extra' \in [Instance -> Nat] /\ stray' \in [Instance -> [Token -> Nat]]
  <2>1. aside[i] \in Aside /\ aside[i].kind = "execute"
    BY <1>3, <1>a DEF ExecuteAside
  <2>2. PICK t \in Token : t = aside[i].tok
    BY <2>1 DEF Aside, NoAside
  <2>3. extra' = extra /\ (stray' = stray \/ stray' = [stray EXCEPT ![i][t] = @ + 1])
    BY <1>3, <2>2 DEF ExecuteAside
  <2>4. [stray[i] EXCEPT ![t] = @ + 1] \in [Token -> Nat]
    BY <1>a
  <2> QED
    BY <1>a, <2>3, <2>4
<1> QED
  BY <1>a, <1>1, <1>2, <1>3, StrayStep DEF strayVars

LEMMA GatewayTypeNext == GatewayTypeOK /\ [GatewayNext]_gatewayVars => GatewayTypeOK'
<1> SUFFICES ASSUME GatewayTypeOK, [GatewayNext]_gatewayVars
             PROVE  GatewayTypeOK'
  OBVIOUS
<1>a. /\ TypeOK'
      /\ extra' \in [Instance -> Nat] /\ stray' \in [Instance -> [Token -> Nat]]
  BY GatewayStep, AsideStep, NextType, StrayType DEF GatewayTypeOK
<1>b. /\ keyFile \in KeyFile /\ made \in Nat
      /\ key \in [Instance -> Nat]
      /\ saving \in [Instance -> [key : Nat, opened : BOOLEAN]]
      /\ signer \in [Token -> Nat]
      /\ aside \in [Instance -> Aside]
      /\ deployed \in SUBSET Instance
  BY DEF GatewayTypeOK
<1>c. NoAside \in Aside /\ NotSaving \in [key : Nat, opened : BOOLEAN] /\ keyFile.key \in Nat
  BY <1>b DEF Aside, NotSaving, KeyFile
<1>1. ASSUME NEW i \in Instance, Start(i)
      PROVE  GatewayTypeOK'
  <2>1. \E a \in Aside : aside' = [aside EXCEPT ![i] = a]
    BY <1>1 DEF Start
  <2> QED
    BY <1>1, <1>a, <1>b, <2>1 DEF Start, keyVars, GatewayTypeOK
<1>2. ASSUME NEW i \in Instance, Restart(i)
      PROVE  GatewayTypeOK'
  <2>1. key' = [key EXCEPT ![i] = 0]
        /\ saving' = [saving EXCEPT ![i] = NotSaving]
        /\ aside' = [aside EXCEPT ![i] = NoAside]
        /\ UNCHANGED <<deployed, keyFile, made, signer>>
    BY <1>2 DEF Restart
  <2>2. /\ key' \in [Instance -> Nat] /\ aside' \in [Instance -> Aside]
        /\ saving' \in [Instance -> [key : Nat, opened : BOOLEAN]]
    BY <1>b, <1>c, <2>1
  <2> QED
    BY <1>a, <1>b, <2>1, <2>2 DEF GatewayTypeOK
<1>3. ASSUME NEW i \in Instance, LoadKey(i)
      PROVE  GatewayTypeOK'
  <2>1. /\ \/ made' = made + 1 /\ key' = [key EXCEPT ![i] = made + 1] /\ saving' = saving
           \/ /\ made' = made + 1 /\ key' = key
              /\ saving' = [saving EXCEPT ![i] = [key |-> made + 1, opened |-> FALSE]]
           \/ made' = made /\ key' = [key EXCEPT ![i] = keyFile.key] /\ saving' = saving
        /\ UNCHANGED <<deployed, keyFile, signer, aside>>
    BY <1>3 DEF LoadKey, KeepInMemory, MakeForFile
  <2>2. made + 1 \in Nat /\ [key |-> made + 1, opened |-> FALSE] \in [key : Nat, opened : BOOLEAN]
    BY <1>b
  <2>3. key' \in [Instance -> Nat] /\ made' \in Nat
    BY <1>b, <1>c, <2>1, <2>2
  <2>4. saving' \in [Instance -> [key : Nat, opened : BOOLEAN]]
    BY <1>b, <2>1, <2>2
  <2> QED
    BY <1>a, <1>b, <2>1, <2>3, <2>4 DEF GatewayTypeOK
<1>4. ASSUME NEW i \in Instance, OpenKeyFile(i)
      PROVE  GatewayTypeOK'
  <2>1. /\ keyFile' = Missing("torn") /\ saving' = [saving EXCEPT ![i].opened = TRUE]
        /\ UNCHANGED <<deployed, made, key, signer, aside>>
    BY <1>4 DEF OpenKeyFile
  <2>2. [saving[i] EXCEPT !.opened = TRUE] \in [key : Nat, opened : BOOLEAN]
    BY <1>b
  <2>3. saving' \in [Instance -> [key : Nat, opened : BOOLEAN]]
    BY <1>b, <2>1, <2>2
  <2>4. keyFile' \in KeyFile
    BY <2>1 DEF Missing, KeyFile
  <2> QED
    BY <1>a, <1>b, <2>1, <2>3, <2>4 DEF GatewayTypeOK
<1>5. ASSUME NEW i \in Instance, WriteKeyFile(i) \/ WriteKeyFails(i)
      PROVE  GatewayTypeOK'
  <2>1. /\ \/ keyFile' = Saved(saving[i].key) /\ key' = [key EXCEPT ![i] = saving[i].key]
           \/ keyFile' = keyFile /\ key' = key
        /\ saving' = [saving EXCEPT ![i] = NotSaving]
        /\ UNCHANGED <<deployed, made, signer, aside>>
    BY <1>5 DEF WriteKeyFile, WriteKeyFails
  <2>2. saving[i].key \in Nat
    BY <1>b
  <2>3. keyFile' \in KeyFile /\ key' \in [Instance -> Nat]
    BY <1>b, <2>1, <2>2 DEF Saved, KeyFile
  <2>4. saving' \in [Instance -> [key : Nat, opened : BOOLEAN]]
    BY <1>b, <1>c, <2>1
  <2> QED
    BY <1>a, <1>b, <2>1, <2>3, <2>4 DEF GatewayTypeOK
<1>6. ASSUME NEW i \in Instance, ExecuteAside(i) \/ AsideFails(i)
      PROVE  GatewayTypeOK'
  <2>1. aside' = [aside EXCEPT ![i] = NoAside] /\ UNCHANGED <<deployed, keyVars>>
    BY <1>6 DEF ExecuteAside, AsideFails
  <2>2. aside' \in [Instance -> Aside]
    BY <1>b, <1>c, <2>1
  <2> QED
    BY <1>a, <1>b, <2>1, <2>2 DEF keyVars, GatewayTypeOK
<1>7. ASSUME NEW i \in Instance, NEW t \in Token, NEW u \in User,
             IssueSigned(i, t, u) \/ CheckSigned(i, t, u) \/ IssueAside(i, t, u)
      PROVE  GatewayTypeOK'
  <2>1. /\ UNCHANGED <<deployed, keyFile, key, saving>>
        /\ \/ signer' = signer /\ made' = made
           \/ signer' = [signer EXCEPT ![t] = key[i]] /\ made' = made
           \/ signer' = [signer EXCEPT ![t] = made + 1] /\ made' = made + 1
           \/ signer' = [signer EXCEPT ![t] = keyFile.key] /\ made' = made
        /\ aside' = aside \/ aside' = [aside EXCEPT ![i] = NoAside]
    BY <1>7 DEF IssueSigned, CheckSigned, IssueAside, keyVars
  <2>2. signer' \in [Token -> Nat] /\ made' \in Nat
    BY <1>b, <1>c, <2>1
  <2>3. aside' \in [Instance -> Aside]
    BY <1>b, <1>c, <2>1
  <2> QED
    BY <1>a, <1>b, <2>1, <2>2, <2>3 DEF GatewayTypeOK
<1>8. CASE UNCHANGED <<deployed, keyVars, aside, strayVars>>
  BY <1>8, <1>a, <1>b DEF keyVars, GatewayTypeOK
<1> QED
  BY <1>1, <1>2, <1>3, <1>4, <1>5, <1>6, <1>7, <1>8 DEF GatewayNext, gatewayVars

LEMMA GatewaySlotNext == GatewayTypeOK /\ SlotInv /\ [GatewayNext]_gatewayVars => SlotInv'
<1> SUFFICES ASSUME GatewayTypeOK, SlotInv, NEW i \in Instance, ExecuteAside(i)
             PROVE  SlotInv'
  BY GatewayStep, SlotNext
<1>1. TypeOK /\ aside \in [Instance -> Aside]
  BY DEF GatewayTypeOK
<1>2. /\ TypeOK'
      /\ UNCHANGED <<now, exp, sub, mode, l1, req, mine>>
      /\ \A t \in Token : l2'[t] = l2[t] \/ l2'[t].s >= exp[t]
  BY <1>1, AsideStep
<1>3. now.s <= now'.s
  BY <1>1, <1>2 DEF TypeOK, Time
<1>4. ASSUME NEW j \in Instance, NEW t \in Token
      PROVE  Slot(j, t)'
  BY <1>1, <1>2, <1>3, SlotFrame DEF SlotInv
<1> QED
  BY <1>2, <1>4 DEF SlotInv, UnsetIsEmpty

\* Type correctness of the gateway, and what its L1 stores remember.
THEOREM GatewayInvariance == GatewaySpec => [](GatewayTypeOK /\ SlotInv)
<1>1. GatewayInit => GatewayTypeOK /\ SlotInv
  BY GatewayTypeInit, SlotInit DEF GatewayInit
<1>2. GatewayTypeOK /\ SlotInv /\ [GatewayNext]_gatewayVars => (GatewayTypeOK /\ SlotInv)'
  BY GatewayTypeNext, GatewaySlotNext
<1> QED
  BY <1>1, <1>2, PTL DEF GatewaySpec

\* A process has no more acceptances by stores of single requests than such stores,
\* one of which may still be about to be used.
Strays(i, t) == /\ stray[i][t] + (IF aside[i].kind = "execute" THEN 1 ELSE 0) <= extra[i]
                /\ mode[i] = "unset" => stray[i][t] = 0

StrayInv == \A i \in Instance, t \in Token : Strays(i, t)

LEMMA StrayInit == GatewayInit => StrayInv
  BY DEF GatewayInit, StrayInv, Strays, NoAside

LEMMA StrayNext == GatewayTypeOK /\ StrayInv /\ [GatewayNext]_gatewayVars => StrayInv'
<1> SUFFICES ASSUME GatewayTypeOK, StrayInv, [GatewayNext]_gatewayVars,
                    NEW j \in Instance, NEW u \in Token
             PROVE  Strays(j, u)'
  BY DEF StrayInv
<1>a. /\ stray \in [Instance -> [Token -> Nat]] /\ stray[j] \in [Token -> Nat]
      /\ extra \in [Instance -> Nat] /\ aside \in [Instance -> Aside]
      /\ stray[j][u] \in Nat /\ extra[j] \in Nat
  BY DEF GatewayTypeOK
<1>b. /\ stray[j][u] + (IF aside[j].kind = "execute" THEN 1 ELSE 0) <= extra[j]
      /\ mode[j] = "unset" => stray[j][u] = 0
  BY DEF StrayInv, Strays
<1> USE DEF Strays
<1>c. aside[j] \in Aside /\ NoAside.kind # "execute"
  BY <1>a DEF NoAside
<1>1. ASSUME NEW i \in Instance, Start(i)
      PROVE  Strays(j, u)'
  <2>1. PICK a \in Aside : /\ aside' = [aside EXCEPT ![i] = a]
                           /\ extra' = [extra EXCEPT ![i] = IF a.kind = "execute" THEN 1 ELSE 0]
    BY <1>1 DEF Start
  <2>2. /\ stray' = stray /\ mode[i] = "unset"
        /\ \A k \in Instance : k # i => mode'[k] = mode[k]
    BY <1>1 DEF Start, Boot, GatewayTypeOK, TypeOK
  <2>3. CASE j = i
    <3>1. stray[i][u] = 0
      BY <1>b, <2>2, <2>3
    <3> QED
      BY <1>a, <2>1, <2>2, <2>3, <3>1
  <2>4. CASE j # i
    BY <1>a, <1>b, <2>1, <2>2, <2>4
  <2> QED
    BY <2>3, <2>4
<1>2. ASSUME NEW i \in Instance, Restart(i)
      PROVE  Strays(j, u)'
  <2>1. /\ aside' = [aside EXCEPT ![i] = NoAside] /\ extra' = [extra EXCEPT ![i] = 0]
        /\ stray' = [stray EXCEPT ![i] = [t \in Token |-> 0]]
        /\ \A k \in Instance : k # i => mode'[k] = mode[k]
    BY <1>2 DEF Restart, Crash, GatewayTypeOK, TypeOK
  <2> QED
    BY <1>a, <1>b, <1>c, <2>1
<1>3. ASSUME NEW i \in Instance, ExecuteAside(i)
      PROVE  Strays(j, u)'
  <2>1. aside[i] \in Aside /\ aside[i].kind = "execute" /\ aside' = [aside EXCEPT ![i] = NoAside]
        /\ mode' = mode /\ mode[i] # "unset"
    BY <1>3, <1>a DEF ExecuteAside, LoopIdle
  <2>2. PICK t \in Token : t = aside[i].tok
    BY <2>1 DEF Aside, NoAside
  <2>3. extra' = extra /\ (stray' = stray \/ stray' = [stray EXCEPT ![i][t] = @ + 1])
    BY <1>3, <2>2 DEF ExecuteAside
  <2>4. /\ stray'[j][u] \in Nat /\ stray'[j][u] <= stray[j][u] + 1
        /\ j # i => stray'[j][u] = stray[j][u]
    BY <1>a, <2>3
  <2> QED
    BY <1>a, <1>b, <1>c, <2>1, <2>3, <2>4
<1>4. CASE /\ UNCHANGED <<strayVars, mode>>
           /\ aside' = aside \/ \E i \in Instance : aside' = [aside EXCEPT ![i] = NoAside]
  BY <1>4, <1>a, <1>b, <1>c DEF strayVars
<1> QED
  BY <1>1, <1>2, <1>3, <1>4, StrayStep

\* A process accepts a token before its deadline at most once for each store it has
\* built since it started, as long as L1 has room for all tokens (LocalSingleUse),
\* with Redis and without, and whichever of its first requests overlapped.
THEOREM LocalTheorem ==
    ASSUME IsFiniteSet(Token)
    PROVE  GatewaySpec => []LocalSingleUse
<1>1. GatewayTypeOK /\ SlotInv /\ StrayInv => LocalSingleUse
  <2> SUFFICES ASSUME GatewayTypeOK, SlotInv, StrayInv, Fits,
                      NEW i \in Instance, NEW t \in Token
               PROVE  Taken(i, t) <= 1 + extra[i]
    BY DEF LocalSingleUse, Fits
  <2>1. mine[i][t] <= 1
    BY DEF SlotInv, Slot, AcceptedOnce
  <2>2. stray[i][t] <= extra[i] /\ mine[i][t] \in Nat /\ stray[i][t] \in Nat /\ extra[i] \in Nat
    <3>1. stray[i][t] + (IF aside[i].kind = "execute" THEN 1 ELSE 0) <= extra[i]
      BY DEF StrayInv, Strays
    <3> QED
      BY <3>1 DEF GatewayTypeOK, TypeOK
  <2> QED
    BY <2>1, <2>2 DEF Taken
<1>2. GatewaySpec => []StrayInv
  BY StrayInit, StrayNext, GatewayInvariance, PTL DEF GatewaySpec
<1> QED
  BY <1>1, <1>2, GatewayInvariance, PTL

----------------------------------------------------------------------------
(* EphemeralSingleUse: without a key file a key dies with the nonces of the   *)
(* tokens it signed.                                                          *)

\* Keys are numbered as they are made, and no two processes have the same one.
KeysDistinct ==
    /\ \A i \in Instance : key[i] <= made /\ (mode[i] = "unset" => key[i] = 0)
    /\ \A i, j \in Instance : key[i] # 0 /\ key[i] = key[j] => i = j
    /\ \A i \in Instance : saving[i].key = 0

\* A token is signed when it is issued.
SignedWhenIssued ==
    \A t \in Token : /\ signer[t] <= made
                     /\ signer[t] = 0 <=> exp[t] = 0
                     /\ exp[t] = 0 => early[t] = 0

\* A request in hand was verified with the key its process has; one with objects
\* of its own presents a token that no key of its process will verify.
VerifiedInHand ==
    \A i \in Instance :
        /\ req[i] # Idle => key[i] # 0 /\ key[i] = signer[req[i].tok]
        /\ aside[i].kind = "execute" => /\ exp[aside[i].tok] # 0
                                        /\ key[i] # signer[aside[i].tok]

\* The process that has the key of a token has seen all its acceptances.
SeenAll ==
    Fits => \A t \in Token :
                /\ early[t] <= 1
                /\ \A i \in Instance :
                       key[i] # 0 /\ key[i] = signer[t] => early[t] = mine[i][t]

EphemeralInv ==
    keyFile.kind = "unset" => KeysDistinct /\ SignedWhenIssued /\ VerifiedInHand /\ SeenAll

LEMMA EphemeralInit == GatewayInit => EphemeralInv
<1> SUFFICES ASSUME GatewayInit, keyFile.kind = "unset"
             PROVE  KeysDistinct /\ SignedWhenIssued /\ VerifiedInHand /\ SeenAll
  BY DEF EphemeralInv
<1> USE DEF GatewayInit, Init
<1>1. made \in Nat
  BY GatewayTypeInit DEF GatewayTypeOK
<1>2. KeysDistinct
  BY <1>1 DEF KeysDistinct, NotSaving
<1>3. SignedWhenIssued
  BY <1>1 DEF SignedWhenIssued
<1>4. VerifiedInHand
  BY DEF VerifiedInHand, NoAside
<1>5. SeenAll
  BY DEF SeenAll
<1> QED
  BY <1>2, <1>3, <1>4, <1>5

\* A step that accepts token t at process i, which has its key.
LEMMA AcceptSeen ==
    ASSUME GatewayTypeOK, SlotInv', KeysDistinct, SeenAll, TypeOK',
           NEW i \in Instance, NEW t \in Token, Accept(i, t),
           key[i] # 0, key[i] = signer[t], UNCHANGED <<key, signer>>
    PROVE  SeenAll'
<1>1. TypeOK /\ early \in [Token -> Nat] /\ mine \in [Instance -> [Token -> Nat]]
  BY DEF GatewayTypeOK, TypeOK
<1>2. \/ /\ early' = [early EXCEPT ![t] = @ + 1]
         /\ mine' = [mine EXCEPT ![i][t] = @ + 1]
      \/ early' = early /\ mine' = mine
  BY DEF Accept
<1> SUFFICES ASSUME Fits
             PROVE  \A u \in Token :
                        /\ early'[u] <= 1
                        /\ \A j \in Instance :
                               key[j] # 0 /\ key[j] = signer[u] => early'[u] = mine'[j][u]
  BY DEF SeenAll, Fits
<1>3. \A u \in Token :
          /\ early[u] <= 1
          /\ \A j \in Instance : key[j] # 0 /\ key[j] = signer[u] => early[u] = mine[j][u]
  BY DEF SeenAll
<1>4. CASE early' = early /\ mine' = mine
  BY <1>3, <1>4
<1>5. CASE early' = [early EXCEPT ![t] = @ + 1] /\ mine' = [mine EXCEPT ![i][t] = @ + 1]
  <2>1. early'[t] = early[t] + 1 /\ mine'[i][t] = mine[i][t] + 1
    BY <1>1, <1>5
  <2>2. early[t] = mine[i][t]
    BY <1>3
  <2>3. mine'[i][t] <= 1
    BY DEF SlotInv, Slot, Fits, AcceptedOnce
  <2>4. \A j \in Instance : key[j] = signer[t] => j = i
    BY DEF KeysDistinct
  <2>5. \A u \in Token : u # t => early'[u] = early[u] /\ \A j \in Instance : mine'[j][u] = mine[j][u]
    BY <1>1, <1>5
  <2> QED
    BY <1>3, <2>1, <2>2, <2>3, <2>4, <2>5
<1> QED
  BY <1>2, <1>4, <1>5

LEMMA EphemeralNext ==
    GatewayTypeOK /\ SlotInv /\ EphemeralInv /\ [GatewayNext]_gatewayVars => EphemeralInv'
<1> SUFFICES ASSUME GatewayTypeOK, SlotInv, EphemeralInv, [GatewayNext]_gatewayVars,
                    keyFile'.kind = "unset"
             PROVE  (KeysDistinct /\ SignedWhenIssued /\ VerifiedInHand /\ SeenAll)'
  BY DEF EphemeralInv
<1>a. GatewayTypeOK' /\ SlotInv' /\ TypeOK /\ TypeOK'
  BY GatewayTypeNext, GatewaySlotNext DEF GatewayTypeOK
<1>b. /\ keyFile \in KeyFile /\ made \in Nat
      /\ key \in [Instance -> Nat]
      /\ saving \in [Instance -> [key : Nat, opened : BOOLEAN]]
      /\ signer \in [Token -> Nat]
      /\ aside \in [Instance -> Aside]
      /\ exp \in [Token -> Nat]
      /\ mode \in [Instance -> {"unset", "redis", "cut", "local"}]
      /\ early \in [Token -> Nat]
  BY DEF GatewayTypeOK, TypeOK
<1>c. keyFile.kind = "unset"
  <2>1. keyFile' = keyFile \/ keyFile' = Missing("torn") \/ \E k \in Nat : keyFile' = Saved(k)
    <3>1. ASSUME NEW i \in Instance, OpenKeyFile(i) \/ WriteKeyFile(i)
          PROVE  keyFile' = Missing("torn") \/ \E k \in Nat : keyFile' = Saved(k)
      BY <1>b, <3>1 DEF OpenKeyFile, WriteKeyFile
    <3>2. ASSUME ~\E i \in Instance : OpenKeyFile(i) \/ WriteKeyFile(i)
          PROVE  keyFile' = keyFile
      BY <3>2 DEF GatewayNext, Start, Restart, LoadKey, WriteKeyFails, ExecuteAside, AsideFails,
                  IssueSigned, CheckSigned, IssueAside, gatewayVars, keyVars
    <3> QED
      BY <3>1, <3>2
  <2> QED
    BY <2>1 DEF Missing, Saved
<1>d. KeysDistinct /\ SignedWhenIssued /\ VerifiedInHand /\ SeenAll
  BY <1>c DEF EphemeralInv
<1>e. ASSUME UNCHANGED <<key, made, saving, signer, exp, mode, req, aside, early, mine>>
      PROVE  (KeysDistinct /\ SignedWhenIssued /\ VerifiedInHand /\ SeenAll)'
  BY <1>d, <1>e DEF KeysDistinct, SignedWhenIssued, VerifiedInHand, SeenAll, Fits
<1>f. \A i \in Instance : req[i] # Idle => req[i].tok \in Token
  BY <1>a DEF TypeOK, Request
<1>g. \A i \in Instance : aside[i].kind = "execute" => aside[i].tok \in Token
  <2> SUFFICES ASSUME NEW i \in Instance, aside[i].kind = "execute"
               PROVE  aside[i].tok \in Token
    OBVIOUS
  <2>1. aside[i] \in Aside
    BY <1>b
  <2> QED
    BY <2>1 DEF Aside, NoAside
<1>1. CASE Tick /\ UNCHANGED <<deployed, keyVars, aside, strayVars>>
  BY <1>1, <1>e DEF Tick, keyVars
<1>2. ASSUME NEW i \in Instance, Start(i)
      PROVE  (KeysDistinct /\ SignedWhenIssued /\ VerifiedInHand /\ SeenAll)'
  <2>1. /\ mode[i] = "unset" /\ \E m : mode' = [mode EXCEPT ![i] = m]
        /\ UNCHANGED <<key, made, saving, signer, exp, req, early, mine>>
    BY <1>2 DEF Start, Boot, keyVars
  <2>2. PICK a \in Aside : /\ a.kind = "execute" => exp[a.tok] # 0
                           /\ aside' = [aside EXCEPT ![i] = a]
    BY <1>2 DEF Start
  <2>3. key[i] = 0
    BY <1>d, <2>1 DEF KeysDistinct
  <2>4. \A j \in Instance : j # i => mode'[j] = mode[j] /\ aside'[j] = aside[j]
    BY <1>b, <2>1, <2>2
  <2>5. KeysDistinct'
    BY <1>d, <2>1, <2>3, <2>4 DEF KeysDistinct
  <2>6. SignedWhenIssued' /\ SeenAll'
    BY <1>d, <2>1 DEF SignedWhenIssued, SeenAll, Fits
  <2>7. a.kind = "execute" => a.tok \in Token
    BY DEF Aside, NoAside
  <2>8. a.kind = "execute" => signer[a.tok] # 0
    BY <1>d, <2>2, <2>7 DEF SignedWhenIssued
  <2>9. aside'[i] = a
    BY <1>b, <2>2
  <2>10. VerifiedInHand'
    BY <1>d, <2>1, <2>2, <2>3, <2>4, <2>8, <2>9 DEF VerifiedInHand
  <2> QED
    BY <2>5, <2>6, <2>10
<1>3. ASSUME NEW i \in Instance, Restart(i)
      PROVE  (KeysDistinct /\ SignedWhenIssued /\ VerifiedInHand /\ SeenAll)'
  <2>1. /\ mode' = [mode EXCEPT ![i] = "unset"]
        /\ req' = [req EXCEPT ![i] = Idle]
        /\ mine' = [mine EXCEPT ![i] = [t \in Token |-> 0]]
        /\ key' = [key EXCEPT ![i] = 0]
        /\ saving' = [saving EXCEPT ![i] = NotSaving]
        /\ aside' = [aside EXCEPT ![i] = NoAside]
        /\ UNCHANGED <<exp, early, made, signer>>
    BY <1>3 DEF Restart, Crash
  <2>2. /\ key'[i] = 0 /\ req'[i] = Idle /\ aside'[i].kind # "execute" /\ saving'[i].key = 0
        /\ \A j \in Instance : j # i => /\ key'[j] = key[j] /\ req'[j] = req[j] /\ aside'[j] = aside[j]
                                        /\ saving'[j] = saving[j] /\ mode'[j] = mode[j]
                                        /\ mine'[j] = mine[j]
    BY <1>a, <1>b, <2>1 DEF TypeOK, NoAside, NotSaving
  <2>3. KeysDistinct'
    BY <1>b, <1>d, <2>1, <2>2 DEF KeysDistinct
  <2>4. SignedWhenIssued'
    BY <1>d, <2>1 DEF SignedWhenIssued
  <2>5. VerifiedInHand'
    BY <1>d, <2>1, <2>2 DEF VerifiedInHand
  <2>6. SeenAll'
    BY <1>d, <2>1, <2>2 DEF SeenAll, Fits
  <2> QED
    BY <2>3, <2>4, <2>5, <2>6
<1>4. ASSUME NEW i \in Instance, LoadKey(i)
      PROVE  (KeysDistinct /\ SignedWhenIssued /\ VerifiedInHand /\ SeenAll)'
  <2>1. /\ made' = made + 1 /\ key' = [key EXCEPT ![i] = made + 1]
        /\ mode[i] # "unset" /\ req[i] = Idle
        /\ UNCHANGED <<saving, signer, exp, mode, req, aside, early, mine>>
    BY <1>4, <1>c DEF LoadKey, KeepInMemory, LoopIdle, vars
  <2>2. key'[i] = made + 1 /\ \A j \in Instance : j # i => key'[j] = key[j]
    BY <1>b, <2>1
  <2>3. \A j \in Instance : key[j] \in Nat /\ key[j] <= made
    BY <1>b, <1>d DEF KeysDistinct
  <2>4. \A t \in Token : signer[t] \in Nat /\ signer[t] <= made
    BY <1>b, <1>d DEF SignedWhenIssued
  <2>5. KeysDistinct'
    <3>1. \A j \in Instance : key'[j] <= made'
      BY <1>b, <2>1, <2>2, <2>3
    <3>2. \A j \in Instance : j # i => key'[j] # key'[i]
      BY <1>b, <2>2, <2>3
    <3> QED
      BY <1>b, <1>d, <2>1, <2>2, <3>1, <3>2 DEF KeysDistinct
  <2>6. \A t \in Token : signer[t] <= made' /\ signer[t] # key'[i]
    BY <1>b, <2>1, <2>2, <2>4
  <2>7. SignedWhenIssued'
    BY <1>d, <2>1, <2>6 DEF SignedWhenIssued
  <2>8. VerifiedInHand'
    BY <1>d, <1>g, <2>1, <2>2, <2>6 DEF VerifiedInHand
  <2>9. SeenAll'
    BY <1>d, <2>1, <2>2, <2>6 DEF SeenAll, Fits
  <2> QED
    BY <2>5, <2>7, <2>8, <2>9
<1>5. ASSUME NEW i \in Instance, OpenKeyFile(i) \/ WriteKeyFile(i) \/ WriteKeyFails(i)
      PROVE  (KeysDistinct /\ SignedWhenIssued /\ VerifiedInHand /\ SeenAll)'
  <2>1. WriteKeyFails(i)
    BY <1>5 DEF OpenKeyFile, WriteKeyFile, Missing, Saved
  <2>2. saving' = [saving EXCEPT ![i] = NotSaving]
        /\ UNCHANGED <<key, made, signer, exp, mode, req, aside, early, mine>>
    BY <2>1 DEF WriteKeyFails, vars
  <2>3. \A j \in Instance : saving'[j].key = 0
    BY <1>b, <1>d, <2>2 DEF KeysDistinct, NotSaving
  <2> QED
    BY <1>d, <2>2, <2>3 DEF KeysDistinct, SignedWhenIssued, VerifiedInHand, SeenAll, Fits
<1>6. ASSUME NEW i \in Instance, ExecuteAside(i)
      PROVE  FALSE
  <2>1. aside[i].kind = "execute" /\ AsideKey(i) = signer[aside[i].tok]
    BY <1>6 DEF ExecuteAside
  <2>2. AsideKey(i) = key[i] \/ AsideKey(i) = 0
    BY <1>c DEF AsideKey
  <2>3. key[i] # signer[aside[i].tok] /\ exp[aside[i].tok] # 0
    BY <1>d, <2>1 DEF VerifiedInHand
  <2>4. signer[aside[i].tok] # 0
    BY <1>d, <1>g, <2>1, <2>3 DEF SignedWhenIssued
  <2> QED
    BY <2>1, <2>2, <2>3, <2>4
<1>7. ASSUME NEW i \in Instance, AsideFails(i)
      PROVE  (KeysDistinct /\ SignedWhenIssued /\ VerifiedInHand /\ SeenAll)'
  <2>1. aside' = [aside EXCEPT ![i] = NoAside]
        /\ UNCHANGED <<key, made, saving, signer, exp, mode, req, early, mine>>
    BY <1>7 DEF AsideFails, vars, keyVars
  <2>2. aside'[i].kind # "execute" /\ \A j \in Instance : j # i => aside'[j] = aside[j]
    BY <1>b, <2>1 DEF NoAside
  <2> QED
    BY <1>d, <2>1, <2>2 DEF KeysDistinct, SignedWhenIssued, VerifiedInHand, SeenAll, Fits
<1>8. ASSUME NEW i \in Instance, Unsigned(i), UNCHANGED <<deployed, keyVars, aside, strayVars>>
      PROVE  (KeysDistinct /\ SignedWhenIssued /\ VerifiedInHand /\ SeenAll)'
  <2>1. UNCHANGED <<key, made, saving, signer, exp, mode, aside>>
    BY <1>8 DEF Unsigned, SetAccepted, SetReplyLost, SetRefused, Record, Execute,
                FailAfterConsume, keyVars
  <2>2. req[i].phase # "idle"
    BY <1>8 DEF Unsigned, SetAccepted, SetReplyLost, SetRefused, Record, Execute, FailAfterConsume
  <2>3. req[i] # Idle /\ req[i] \in Request
    BY <1>a, <2>2, RequestShape
  <2>4. PICK t \in Token : t = req[i].tok
    BY <1>f, <2>3
  <2>5. key[i] # 0 /\ key[i] = signer[t]
    BY <1>d, <2>3, <2>4 DEF VerifiedInHand
  <2>6. \A j \in Instance : req'[j] # Idle => req[j] # Idle /\ req'[j].tok = req[j].tok
    <3>1. \/ req' = [req EXCEPT ![i] = Idle]
          \/ req' = [req EXCEPT ![i].phase = "l1"]
          \/ req' = [req EXCEPT ![i].phase = "reply"]
      BY <1>8 DEF Unsigned, SetAccepted, SetReplyLost, SetRefused, Record, Execute, FailAfterConsume
    <3>2. \A j \in Instance : j # i => req'[j] = req[j]
      BY <1>a, <3>1 DEF TypeOK
    <3>3. req'[i] = Idle \/ req'[i].tok = req[i].tok
      BY <1>a, <2>3, <3>1 DEF TypeOK, Request
    <3> QED
      BY <2>3, <3>2, <3>3
  <2>7. \/ Accept(i, t)
        \/ UNCHANGED <<early, mine>>
    BY <1>8, <2>4 DEF Unsigned, SetAccepted, SetReplyLost, SetRefused, Record, Execute, FailAfterConsume
  <2>8. KeysDistinct'
    BY <1>d, <2>1 DEF KeysDistinct
  <2>9. VerifiedInHand'
    BY <1>d, <2>1, <2>6 DEF VerifiedInHand
  <2>10. SignedWhenIssued'
    <3>1. exp[t] # 0
      BY <1>d, <2>5 DEF SignedWhenIssued
    <3>2. \A u \in Token : u # t => early'[u] = early[u]
      BY <1>b, <2>7 DEF Accept
    <3> QED
      BY <1>d, <2>1, <3>1, <3>2 DEF SignedWhenIssued
  <2>11. SeenAll'
    <3>1. CASE Accept(i, t)
      BY <1>a, <1>d, <2>1, <2>5, <3>1, AcceptSeen
    <3>2. CASE UNCHANGED <<early, mine>>
      BY <1>d, <2>1, <3>2 DEF SeenAll, Fits
    <3> QED
      BY <2>7, <3>1, <3>2
  <2> QED
    BY <2>8, <2>9, <2>10, <2>11
<1>9. ASSUME NEW i \in Instance, NEW t \in Token, NEW u \in User,
             IssueSigned(i, t, u) \/ IssueAside(i, t, u)
      PROVE  (KeysDistinct /\ SignedWhenIssued /\ VerifiedInHand /\ SeenAll)'
  <2>1. /\ exp[t] = 0 /\ exp' = [exp EXCEPT ![t] = now.s + TTL]
        /\ UNCHANGED <<mode, req, early, mine, key, saving>>
    BY <1>9 DEF IssueSigned, Issue, IssueAside
  <2>2. PICK k \in Nat : /\ signer' = [signer EXCEPT ![t] = k]
                         /\ \/ k = key[i] /\ k # 0 /\ made' = made
                            \/ k = made + 1 /\ made' = made + 1
    <3>1. CASE IssueSigned(i, t, u)
      BY <1>b, <3>1 DEF IssueSigned
    <3>2. CASE IssueAside(i, t, u)
      BY <1>b, <1>c, <3>2 DEF IssueAside
    <3> QED
      BY <1>9, <3>1, <3>2
  <2>3. \A j \in Instance : aside'[j] = aside[j] \/ aside'[j].kind # "execute"
    BY <1>9, <1>b DEF IssueSigned, IssueAside, NoAside
  <2>4. exp'[t] # 0 /\ \A v \in Token : v # t => exp'[v] = exp[v] /\ signer'[v] = signer[v]
    <3>1. now.s + TTL # 0 /\ now.s + TTL \in Nat
      BY <1>a, TokenAssumption DEF TypeOK, Time
    <3> QED
      BY <1>b, <2>1, <2>2, <3>1
  <2>5. \A j \in Instance : key[j] \in Nat /\ key[j] <= made /\ key[j] <= made'
    BY <1>b, <1>d, <2>2 DEF KeysDistinct
  <2>6. KeysDistinct'
    BY <1>d, <2>1, <2>5 DEF KeysDistinct
  <2>7. signer'[t] = k
    BY <1>b, <2>2
  <2>8. k # 0 /\ k <= made' /\ \A v \in Token : signer[v] <= made'
    BY <1>b, <1>d, <2>2, <2>5 DEF SignedWhenIssued
  <2>9. early[t] = 0 /\ signer[t] = 0
    BY <1>d, <2>1 DEF SignedWhenIssued
  <2>10. SignedWhenIssued'
    BY <1>d, <2>1, <2>4, <2>7, <2>8 DEF SignedWhenIssued
  <2>11. VerifiedInHand'
    <3>1. \A j \in Instance : req[j] # Idle => req[j].tok # t
      BY <1>d, <2>9 DEF VerifiedInHand
    <3>2. \A j \in Instance : aside[j].kind = "execute" => aside[j].tok # t
      BY <1>d, <2>1 DEF VerifiedInHand
    <3> QED
      BY <1>d, <1>f, <1>g, <2>1, <2>3, <2>4, <3>1, <3>2 DEF VerifiedInHand
  <2>12. SeenAll'
    <3> SUFFICES ASSUME Fits
                 PROVE  \A v \in Token :
                            /\ early[v] <= 1
                            /\ \A j \in Instance :
                                   key[j] # 0 /\ key[j] = signer'[v] => early[v] = mine[j][v]
      BY <2>1 DEF SeenAll, Fits
    <3>1. \A j \in Instance : mine[j][t] = 0
      BY <1>a, <2>1, SlotUnissued DEF SlotInv
    <3> QED
      BY <1>d, <2>4, <2>9, <3>1 DEF SeenAll
  <2> QED
    BY <2>6, <2>10, <2>11, <2>12
<1>10. ASSUME NEW i \in Instance, NEW t \in Token, NEW u \in User, CheckSigned(i, t, u)
       PROVE  (KeysDistinct /\ SignedWhenIssued /\ VerifiedInHand /\ SeenAll)'
  <2>1. /\ key[i] # 0 /\ key[i] = signer[t]
        /\ req' = [req EXCEPT ![i] = [phase |-> IF mode[i] = "local" THEN "l1" ELSE "l2",
                                      tok |-> t, user |-> u, ttl |-> NonceTtl(t)]]
        /\ UNCHANGED <<key, made, saving, signer, exp, mode, aside, early, mine>>
    BY <1>10 DEF CheckSigned, Check, keyVars
  <2>2. req'[i].tok = t /\ \A j \in Instance : j # i => req'[j] = req[j]
    BY <1>a, <2>1 DEF TypeOK
  <2> QED
    BY <1>d, <2>1, <2>2 DEF KeysDistinct, SignedWhenIssued, VerifiedInHand, SeenAll, Fits
<1>11. CASE UNCHANGED gatewayVars
  BY <1>11, <1>e DEF gatewayVars, vars, keyVars
<1> QED
  BY <1>1, <1>2, <1>3, <1>4, <1>5, <1>6, <1>7, <1>8, <1>9, <1>10, <1>11 DEF GatewayNext

\* Without a key file a token is accepted at most once before its deadline, without
\* Redis and after restarts too, as long as L1 has room (EphemeralSingleUse).
THEOREM EphemeralTheorem ==
    ASSUME IsFiniteSet(Token)
    PROVE  GatewaySpec => []EphemeralSingleUse
<1>1. EphemeralInv => EphemeralSingleUse
  BY DEF EphemeralInv, SeenAll, Fits, EphemeralSingleUse
<1>2. GatewaySpec => []EphemeralInv
  BY EphemeralInit, EphemeralNext, GatewayInvariance, PTL DEF GatewaySpec
<1> QED
  BY <1>1, <1>2, PTL

----------------------------------------------------------------------------
(* TokensSurviveRestart: a key is used by others only once it is in the file. *)

\* A process that was not started has no key and is making none.
StartedOnly ==
    \A i \in Instance :
        /\ mode[i] # "unset" => i \in deployed
        /\ mode[i] = "unset" => saving[i] = NotSaving
        /\ keyFile.kind = "unset" => saving[i] = NotSaving
        /\ saving[i] # NotSaving => saving[i].key # 0 /\ made # 0

\* As long as one process makes keys, or one key was made, the key in the file is
\* the only one in use, and without a key in the file there is none in use.
FileFirst ==
    keyFile.kind # "unset" /\ (OneProcess \/ made <= 1) =>
        /\ keyFile.kind = "key" =>
               /\ \A i \in Instance : saving[i] = NotSaving /\ key[i] \in {0, keyFile.key}
               /\ \A t \in Token : signer[t] \in {0, keyFile.key}
        /\ keyFile.kind # "key" =>
               /\ \A i \in Instance : key[i] = 0
               /\ \A t \in Token : signer[t] = 0
        /\ \A i, j \in Instance : saving[i] # NotSaving /\ saving[j] # NotSaving => i = j

FileInv == StartedOnly /\ FileFirst

LEMMA FileInit == GatewayInit => FileInv
<1> SUFFICES ASSUME GatewayInit
             PROVE  FileInv
  OBVIOUS
<1>1. \A i \in Instance : mode[i] = "unset" /\ saving[i] = NotSaving /\ key[i] = 0
  BY DEF GatewayInit, Init
<1>2. \A t \in Token : signer[t] = 0
  BY DEF GatewayInit
<1> QED
  BY <1>1, <1>2 DEF FileInv, StartedOnly, FileFirst

LEMMA FileNext == GatewayTypeOK /\ FileInv /\ [GatewayNext]_gatewayVars => FileInv'
<1> SUFFICES ASSUME GatewayTypeOK, FileInv, [GatewayNext]_gatewayVars
             PROVE  FileInv'
  OBVIOUS
<1>b. /\ keyFile \in KeyFile /\ made \in Nat
      /\ key \in [Instance -> Nat]
      /\ saving \in [Instance -> [key : Nat, opened : BOOLEAN]]
      /\ signer \in [Token -> Nat]
      /\ mode \in [Instance -> {"unset", "redis", "cut", "local"}]
  BY DEF GatewayTypeOK, TypeOK
<1>d. StartedOnly /\ FileFirst
  BY DEF FileInv
<1>e. \A i \in Instance : saving[i].key # 0 \/ saving[i].opened => saving[i] # NotSaving
  BY DEF NotSaving
<1>1. ASSUME UNCHANGED <<deployed, mode, keyFile, made, key, saving, signer>>
      PROVE  FileInv'
  BY <1>d, <1>1 DEF FileInv, StartedOnly, FileFirst, OneProcess
<1>2. ASSUME NEW i \in Instance, Start(i)
      PROVE  FileInv'
  <2>1. /\ i \in deployed /\ mode[i] = "unset" /\ \E m : mode' = [mode EXCEPT ![i] = m]
        /\ UNCHANGED <<deployed, keyFile, made, key, saving, signer>>
    BY <1>2 DEF Start, Boot, keyVars
  <2>2. \A j \in Instance : j # i => mode'[j] = mode[j]
    BY <1>b, <2>1
  <2> QED
    BY <1>d, <2>1, <2>2 DEF FileInv, StartedOnly, FileFirst, OneProcess
<1>3. ASSUME NEW i \in Instance, Restart(i)
      PROVE  FileInv'
  <2>1. /\ mode' = [mode EXCEPT ![i] = "unset"]
        /\ key' = [key EXCEPT ![i] = 0]
        /\ saving' = [saving EXCEPT ![i] = NotSaving]
        /\ UNCHANGED <<deployed, keyFile, made, signer>>
    BY <1>3 DEF Restart, Crash
  <2>2. /\ mode'[i] = "unset" /\ key'[i] = 0 /\ saving'[i] = NotSaving
        /\ \A j \in Instance : j # i => /\ mode'[j] = mode[j] /\ key'[j] = key[j]
                                        /\ saving'[j] = saving[j]
    BY <1>b, <2>1
  <2>3. StartedOnly'
    BY <1>d, <2>1, <2>2 DEF StartedOnly
  <2>4. FileFirst'
    BY <1>d, <2>1, <2>2 DEF FileFirst, OneProcess
  <2> QED
    BY <2>3, <2>4 DEF FileInv
<1>4. ASSUME NEW i \in Instance, LoadKey(i)
      PROVE  FileInv'
  <2>1. /\ mode[i] # "unset" /\ saving[i] = NotSaving
        /\ UNCHANGED <<deployed, mode, keyFile, signer>>
    BY <1>4 DEF LoadKey, LoopIdle, vars
  <2>2. CASE keyFile.kind = "unset"
    <3>1. UNCHANGED saving /\ made' = made + 1
      BY <1>4, <2>2 DEF LoadKey, KeepInMemory
    <3>2. made' # 0
      BY <1>b, <3>1
    <3> QED
      BY <1>d, <2>1, <2>2, <3>1, <3>2 DEF FileInv, StartedOnly, FileFirst
  <2>3. CASE keyFile.kind = "absent"
    <3>1. /\ made' = made + 1 /\ UNCHANGED key
          /\ saving' = [saving EXCEPT ![i] = [key |-> made + 1, opened |-> FALSE]]
      BY <1>4, <2>3 DEF LoadKey, MakeForFile
    <3>2. made' # 0 /\ (made' <= 1 => made = 0) /\ made + 1 # 0
      BY <1>b, <3>1
    <3>3. saving'[i].key = made + 1 /\ \A j \in Instance : j # i => saving'[j] = saving[j]
      BY <1>b, <3>1
    <3>4. StartedOnly'
      BY <1>d, <2>1, <2>3, <3>2, <3>3 DEF StartedOnly
    <3>5. FileFirst'
      <4> SUFFICES ASSUME OneProcess \/ made' <= 1
                   PROVE  /\ \A j \in Instance : key[j] = 0
                          /\ \A t \in Token : signer[t] = 0
                          /\ \A j, k \in Instance :
                                 saving'[j] # NotSaving /\ saving'[k] # NotSaving => j = k
        BY <2>1, <2>3, <3>1 DEF FileFirst, OneProcess
      <4>1. OneProcess \/ made <= 1
        BY <1>b, <3>2
      <4>2. \A j \in Instance : saving[j] # NotSaving => j = i
        <5>1. CASE OneProcess
          BY <1>d, <2>1, <5>1 DEF StartedOnly, OneProcess
        <5>2. CASE made = 0
          BY <1>d, <5>2 DEF StartedOnly
        <5> QED
          BY <3>2, <5>1, <5>2
      <4> QED
        BY <1>d, <2>3, <3>3, <4>1, <4>2 DEF FileFirst
    <3> QED
      BY <3>4, <3>5 DEF FileInv
  <2>4. CASE keyFile.kind = "key"
    <3>1. UNCHANGED <<made, saving>> /\ key' = [key EXCEPT ![i] = keyFile.key]
      BY <1>4, <2>4 DEF LoadKey
    <3>2. key'[i] = keyFile.key /\ \A j \in Instance : j # i => key'[j] = key[j]
      BY <1>b, <3>1
    <3> QED
      BY <1>d, <2>1, <2>4, <3>1, <3>2 DEF FileInv, StartedOnly, FileFirst, OneProcess
  <2> QED
    BY <1>4, <2>2, <2>3, <2>4 DEF LoadKey
<1>5. ASSUME NEW i \in Instance, OpenKeyFile(i)
      PROVE  FileInv'
  <2>1. /\ saving[i].key # 0 /\ keyFile' = Missing("torn")
        /\ saving' = [saving EXCEPT ![i].opened = TRUE]
        /\ UNCHANGED <<deployed, mode, made, key, signer>>
    BY <1>5 DEF OpenKeyFile, vars
  <2>2. keyFile'.kind = "torn" /\ keyFile.kind # "unset"
    BY <1>d, <1>e, <2>1 DEF StartedOnly, Missing
  <2>3. saving'[i].key = saving[i].key /\ \A j \in Instance : j # i => saving'[j] = saving[j]
    BY <1>b, <2>1
  <2>4. StartedOnly'
    BY <1>d, <1>e, <2>1, <2>2, <2>3 DEF StartedOnly
  <2>5. FileFirst'
    BY <1>d, <1>e, <2>1, <2>2, <2>3 DEF FileFirst, OneProcess
  <2> QED
    BY <2>4, <2>5 DEF FileInv
<1>6. ASSUME NEW i \in Instance, WriteKeyFile(i)
      PROVE  FileInv'
  <2>1. /\ saving[i].opened /\ keyFile' = Saved(saving[i].key)
        /\ key' = [key EXCEPT ![i] = saving[i].key]
        /\ saving' = [saving EXCEPT ![i] = NotSaving]
        /\ UNCHANGED <<deployed, mode, made, signer>>
    BY <1>6 DEF WriteKeyFile, vars
  <2>2. keyFile'.kind = "key" /\ keyFile'.key = saving[i].key
    BY <2>1 DEF Saved
  <2>3. /\ saving'[i] = NotSaving /\ key'[i] = saving[i].key
        /\ \A j \in Instance : j # i => saving'[j] = saving[j] /\ key'[j] = key[j]
    BY <1>b, <2>1
  <2>4. keyFile.kind # "unset" /\ saving[i] # NotSaving
    BY <1>d, <1>e, <2>1 DEF StartedOnly
  <2>5. StartedOnly'
    BY <1>d, <2>1, <2>2, <2>3 DEF StartedOnly
  <2>6. FileFirst'
    <3> SUFFICES ASSUME OneProcess \/ made <= 1
                 PROVE  /\ \A j \in Instance : saving'[j] = NotSaving /\ key'[j] \in {0, saving[i].key}
                        /\ \A t \in Token : signer[t] \in {0, saving[i].key}
      BY <2>1, <2>2 DEF FileFirst, OneProcess
    <3>1. /\ \A j \in Instance : saving[j] # NotSaving => j = i
          /\ \A j \in Instance : key[j] = 0
          /\ \A t \in Token : signer[t] = 0
      BY <1>d, <2>4 DEF FileFirst
    <3> QED
      BY <2>3, <3>1
  <2> QED
    BY <2>5, <2>6 DEF FileInv
<1>7. ASSUME NEW i \in Instance, WriteKeyFails(i)
      PROVE  FileInv'
  <2>1. /\ saving' = [saving EXCEPT ![i] = NotSaving]
        /\ UNCHANGED <<deployed, mode, keyFile, made, key, signer>>
    BY <1>7 DEF WriteKeyFails, vars
  <2>2. saving'[i] = NotSaving /\ \A j \in Instance : j # i => saving'[j] = saving[j]
    BY <1>b, <2>1
  <2> QED
    BY <1>d, <2>1, <2>2 DEF FileInv, StartedOnly, FileFirst, OneProcess
<1>8. ASSUME NEW i \in Instance, NEW t \in Token, NEW u \in User,
             IssueSigned(i, t, u) \/ IssueAside(i, t, u)
      PROVE  FileInv'
  <2>1. /\ UNCHANGED <<deployed, mode, keyFile, key, saving>>
        /\ made' = made \/ (keyFile.kind = "unset" /\ made' = made + 1)
    BY <1>8 DEF IssueSigned, Issue, IssueAside
  <2>2. keyFile.kind # "unset" =>
            \/ key[i] # 0 /\ signer' = [signer EXCEPT ![t] = key[i]]
            \/ keyFile.kind = "key" /\ signer' = [signer EXCEPT ![t] = keyFile.key]
    BY <1>8 DEF IssueSigned, IssueAside
  <2>3. StartedOnly'
    BY <1>b, <1>d, <2>1 DEF StartedOnly
  <2>4. FileFirst'
    <3> SUFFICES ASSUME keyFile.kind # "unset", OneProcess \/ made <= 1
                 PROVE  keyFile.kind = "key" /\ \A v \in Token : signer'[v] \in {0, keyFile.key}
      BY <1>d, <2>1 DEF FileFirst, OneProcess
    <3>1. key[i] # 0 => keyFile.kind = "key" /\ key[i] = keyFile.key
      BY <1>d DEF FileFirst
    <3>2. keyFile.kind = "key" /\ signer' = [signer EXCEPT ![t] = keyFile.key]
      BY <2>2, <3>1
    <3>3. \A v \in Token : signer[v] \in {0, keyFile.key}
      BY <1>d, <3>2 DEF FileFirst
    <3> QED
      BY <1>b, <3>2, <3>3
  <2> QED
    BY <2>3, <2>4 DEF FileInv
<1>9. ASSUME NEW i \in Instance, NEW t \in Token, NEW u \in User, CheckSigned(i, t, u)
      PROVE  FileInv'
  BY <1>1, <1>9 DEF CheckSigned, Check, keyVars
<1>10. ASSUME NEW i \in Instance,
              ExecuteAside(i) \/ AsideFails(i) \/ (Unsigned(i) /\ UNCHANGED <<deployed, keyVars, aside, strayVars>>)
       PROVE  FileInv'
  BY <1>1, <1>10 DEF ExecuteAside, AsideFails, Unsigned, SetAccepted, SetReplyLost, SetRefused,
                     Record, Execute, FailAfterConsume, keyVars, vars
<1>11. CASE Tick /\ UNCHANGED <<deployed, keyVars, aside, strayVars>>
  BY <1>1, <1>11 DEF Tick, keyVars
<1>12. CASE UNCHANGED gatewayVars
  BY <1>1, <1>12 DEF gatewayVars, vars, keyVars
<1> QED
  BY <1>2, <1>3, <1>4, <1>5, <1>6, <1>7, <1>8, <1>9, <1>10, <1>11, <1>12 DEF GatewayNext

\* A process alone on its key file, and any number of processes on a file that was
\* there first, hand out no token that a later start cannot verify
\* (TokensSurviveRestart), whatever dies or fails while the file is written.
THEOREM RestartTheorem == GatewaySpec => []TokensSurviveRestart
<1>1. GatewayTypeOK /\ FileInv => TokensSurviveRestart
  <2> SUFFICES ASSUME GatewayTypeOK, FileInv, keyFile.kind # "unset", OneProcess \/ made = 1,
                      NEW t \in Token, signer[t] # 0
               PROVE  keyFile = Saved(signer[t])
    BY DEF TokensSurviveRestart
  <2>1. keyFile.kind = "key" /\ signer[t] = keyFile.key
    BY DEF FileInv, FileFirst
  <2>2. keyFile \in [kind : {"unset", "absent", "torn", "key"}, key : Nat]
    BY DEF GatewayTypeOK, KeyFile
  <2> QED
    BY <2>1, <2>2 DEF Saved
<1>2. GatewaySpec => []FileInv
  BY FileInit, FileNext, GatewayInvariance, PTL DEF GatewaySpec
<1> QED
  BY <1>1, <1>2, GatewayInvariance, PTL

=============================================================================
