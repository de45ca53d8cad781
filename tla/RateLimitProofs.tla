--------------------------- MODULE RateLimitProofs ---------------------------
(* Proofs about RateLimit, for any number of processes, any limit and window; *)
(* and about VelocityTracker, for any threads, scopes, charges and limits.    *)
EXTENDS RateLimit, VelocityTracker, FiniteSetTheorems, TLAPS

----------------------------------------------------------------------------
(* The inductive invariant                                                    *)

\* Nothing is counted for a window before it begins.
NotBefore == /\ \A w \in WindowId : now.w < w => key[w].n = 0 /\ passed[w] = 0
             /\ \A i \in Instance : req[i] # Idle => req[i].win <= now.w

\* A counter outlives its window, and until then it has counted what passed.
OutlivesWindow ==
    \A w \in WindowId : now.w <= w => /\ key[w].bounded => w < key[w].w
                                      /\ passed[w] <= key[w].n

\* What a counter counted was let pass, up to the limit; and a request that
\* was told of more than the limit came after a limit's worth of others.
Full(w) == passed[w] + late[w] >= MaxCalls
SlotsGiven ==
    /\ \A w \in WindowId : Full(w) \/ passed[w] + late[w] >= key[w].n
    /\ \A i \in Instance : req[i].phase \in {"expire", "reply"} =>
           Full(req[i].win) \/ Within(req[i].n)

\* What a process admitted in the last window is in its list, which is no longer
\* than the limit then; no stamp is of the future.
Past(c) == c.at.w < now.w \/ (c.at.w = now.w /\ c.at.s <= now.s)
ListsKept ==
    \A i \in Instance : /\ IsFiniteSet(stamps[i])
                        /\ \A c \in stamps[i] \cup calls[i] : Past(c)
                        /\ \A c \in calls[i] : Recent(c) => c \in stamps[i]

RedisInv == NotBefore /\ OutlivesWindow /\ LimitPerWindow /\ SlotsGiven /\ RefusedAtLimit

IInv == TypeOK /\ RedisInv /\ LeakBounded /\ ListsKept /\ SlidingLimit

----------------------------------------------------------------------------
(* Types                                                                      *)

LEMMA CounterTypes ==
    ASSUME TypeOK
    PROVE  /\ \A n \in Nat : Fresh(n) \in Counter
           /\ \A k \in Counter : Incremented(k) \in Counter /\ Bounded(k) \in Counter
<1>1. 0 \in 0 .. Window - 1
  BY LimitAssumption
<1>2. \A n \in Nat : Fresh(n) \in Counter
  BY <1>1 DEF Fresh, Counter
<1>3. now.w \in Nat /\ now.s \in 0 .. Window - 1
  BY LimitAssumption DEF TypeOK, Time, WindowId
<1>4. ASSUME NEW k \in Counter
      PROVE  Incremented(k) \in Counter /\ Bounded(k) \in Counter
  <2>1. [k EXCEPT !.n = @ + 1] \in Counter
    BY DEF Counter
  <2>2. Bounded(k) \in Counter
    BY <1>3 DEF Bounded, Counter
  <2> QED
    BY <1>2, <2>1, <2>2 DEF Incremented
<1> QED
  BY <1>2, <1>4

\* What a request for window w does to the counters, as far as types go.
LEMMA CountType ==
    ASSUME TypeOK, NEW w \in WindowId, Count(w)
    PROVE  /\ key' \in [WindowId -> Counter]
           /\ passed' \in [WindowId -> Nat]
           /\ late' \in [WindowId -> Nat]
<1>1. key' = [key EXCEPT ![w] = Incremented(@)]
  BY DEF Count
<1>2. key' \in [WindowId -> Counter]
  BY <1>1, CounterTypes DEF TypeOK
<1>3. /\ passed' = passed \/ passed' = [passed EXCEPT ![w] = @ + 1]
      /\ late' = late \/ late' = [late EXCEPT ![w] = @ + 1]
  BY DEF Count
<1> QED
  BY <1>2, <1>3 DEF TypeOK

LEMMA TypeInit == Init => TypeOK
<1> SUFFICES ASSUME Init
             PROVE  TypeOK
  OBVIOUS
<1>1. 0 \in 0 .. Window - 1 /\ 0 \in WindowId
  BY LimitAssumption DEF WindowId
<1>2. Fresh(0) \in Counter
  BY <1>1 DEF Fresh, Counter
<1>3. now \in Time /\ key \in [WindowId -> Counter]
  BY <1>1, <1>2 DEF Init, Time
<1> QED
  BY <1>3 DEF Init, TypeOK

LEMMA TypeNext == TypeOK /\ [Next]_vars => TypeOK'
<1> SUFFICES ASSUME TypeOK, [Next]_vars
             PROVE  TypeOK'
  OBVIOUS
<1> USE DEF TypeOK
<1>1. ASSUME Tick
      PROVE  TypeOK'
  <2>1. now.w \in 0 .. MaxWindow /\ now.s \in 0 .. Window - 1
    BY DEF Time, WindowId
  <2>2. ASSUME now.s + 1 < Window, now' = [w |-> now.w, s |-> now.s + 1]
        PROVE  now' \in Time
    <3>1. now.s + 1 \in 0 .. Window - 1
      BY <2>1, <2>2, LimitAssumption
    <3> QED
      BY <2>1, <2>2, <3>1 DEF Time, WindowId
  <2>3. ASSUME now.w < MaxWindow, now' = [w |-> now.w + 1, s |-> 0]
        PROVE  now' \in Time
    <3>1. now.w + 1 \in 0 .. MaxWindow /\ 0 \in 0 .. Window - 1
      BY <2>1, <2>3, LimitAssumption
    <3> QED
      BY <2>3, <3>1 DEF Time, WindowId
  <2>4. now' \in Time
    BY <1>1, <2>2, <2>3 DEF Tick
  <2> QED
    BY <1>1, <2>4 DEF Tick, redisVars, listVars
<1>2. ASSUME NEW i \in Instance, Boot(i)
      PROVE  TypeOK'
  BY <1>2 DEF Boot, redisVars, listVars
<1>3. ASSUME NEW i \in Instance, Crash(i)
      PROVE  TypeOK'
  BY <1>3 DEF Crash, LeaksAfter
<1>4. ASSUME NEW i \in Instance, ReadClock(i)
      PROVE  TypeOK'
  <2>1. [phase |-> "incr", win |-> now.w, n |-> 0] \in Request
    BY DEF Request, Time
  <2> QED
    BY <1>4, <2>1 DEF ReadClock, redisVars, listVars
<1>5. ASSUME NEW i \in Instance, Incr(i)
      PROVE  TypeOK'
  <2>1. req[i] \in Request
    BY <1>5 DEF Incr, Idle
  <2>2. req[i].win \in WindowId /\ Count(req[i].win)
    BY <1>5, <2>1 DEF Incr, Request
  <2>3. /\ key' \in [WindowId -> Counter]
        /\ passed' \in [WindowId -> Nat]
        /\ late' \in [WindowId -> Nat]
    BY <2>2, CountType
  <2>4. key'[req[i].win].n \in Nat
    BY <2>2, <2>3 DEF Counter
  <2>5. req' \in [Instance -> {Idle} \cup Request]
    <3>1. [req[i] EXCEPT !.phase = "expire", !.n = key'[req[i].win].n] \in Request
      BY <2>1, <2>4 DEF Request
    <3>2. req' = [req EXCEPT ![i] = [req[i] EXCEPT !.phase = "expire",
                                                   !.n = key'[req[i].win].n]]
      BY <1>5 DEF Incr
    <3> QED
      BY <3>1, <3>2
  <2> QED
    BY <1>5, <2>3, <2>5 DEF Incr, listVars
<1>6. ASSUME NEW i \in Instance, IncrLost(i)
      PROVE  TypeOK'
  <2>1. req[i] \in Request
    BY <1>6 DEF IncrLost, Idle
  <2>2. req[i].win \in WindowId /\ Count(req[i].win)
    BY <1>6, <2>1 DEF IncrLost, Request
  <2>3. /\ key' \in [WindowId -> Counter]
        /\ passed' \in [WindowId -> Nat]
        /\ late' \in [WindowId -> Nat]
    BY <2>2, CountType
  <2> QED
    BY <1>6, <2>3 DEF IncrLost, listVars
<1>7. ASSUME NEW i \in Instance, Expire(i)
      PROVE  TypeOK'
  <2>1. req[i] \in Request
    BY <1>7 DEF Expire, Idle
  <2>2. req[i].win \in WindowId
    BY <2>1 DEF Request
  <2>3. key' \in [WindowId -> Counter]
    BY <1>7, <2>2, CounterTypes DEF Expire
  <2>4. [req[i] EXCEPT !.phase = "reply"] \in Request
    BY <2>1 DEF Request
  <2>5. req' \in [Instance -> {Idle} \cup Request]
    BY <1>7, <2>4 DEF Expire
  <2> QED
    BY <1>7, <2>3, <2>5 DEF Expire, listVars
<1>8. ASSUME NEW i \in Instance, RedisFails(i)
      PROVE  TypeOK'
  BY <1>8 DEF RedisFails, LeaksAfter, listVars
<1>9. ASSUME NEW i \in Instance, Reply(i)
      PROVE  TypeOK'
  <2>1. req[i].win \in WindowId
    BY <1>9 DEF Reply, Idle, Request
  <2> QED
    BY <1>9, <2>1 DEF Reply, listVars
<1>10. ASSUME NEW i \in Instance, CheckList(i)
       PROVE  TypeOK'
  <2>1. [id |-> asked + 1, at |-> now] \in Stamp
    BY DEF Stamp
  <2>2. Kept(i) \in SUBSET Stamp
    BY DEF Kept
  <2> QED
    BY <1>10, <2>1, <2>2 DEF CheckList, redisVars
<1>11. CASE UNCHANGED vars
  BY <1>11 DEF vars, redisVars, listVars
<1> QED
  BY <1>1, <1>2, <1>3, <1>4, <1>5, <1>6, <1>7, <1>8, <1>9, <1>10, <1>11 DEF Next

----------------------------------------------------------------------------
(* What counting a request does                                               *)

\* The counter, and the histories, of one window before and after.
LEMMA CountOne ==
    ASSUME TypeOK, OutlivesWindow, NEW w \in WindowId, Count(w)
    PROVE  /\ \A v \in WindowId :
                  v # w => /\ key'[v] = key[v]
                           /\ passed'[v] = passed[v]
                           /\ late'[v] = late[v]
           /\ key'[w].n \in 1 .. key[w].n + 1
           /\ now.w = w => /\ key'[w].n = key[w].n + 1
                           /\ key'[w].bounded => w < key'[w].w
           /\ IF Within(key'[w].n)
              THEN /\ passed'[w] + late'[w] = passed[w] + late[w] + 1
                   /\ \/ passed'[w] = passed[w]
                      \/ now.w = w /\ passed'[w] = passed[w] + 1
              ELSE passed'[w] = passed[w] /\ late'[w] = late[w]
<1>1. key[w] \in Counter /\ passed[w] \in Nat /\ late[w] \in Nat
  BY DEF TypeOK
<1>2. now.w \in Nat /\ w \in Nat
  BY LimitAssumption DEF TypeOK, Time, WindowId
<1>3. /\ key'[w] = Incremented(key[w])
      /\ \A v \in WindowId : v # w => key'[v] = key[v]
  BY DEF Count, TypeOK
<1>4. /\ Incremented(key[w]).n \in 1 .. key[w].n + 1
      /\ now.w = w => /\ Incremented(key[w]).n = key[w].n + 1
                      /\ Incremented(key[w]).bounded => w < Incremented(key[w]).w
  <2>1. now.w = w /\ key[w].bounded => w < key[w].w
    BY <1>2 DEF OutlivesWindow
  <2>2. CASE Alive(key[w])
    <3>1. Incremented(key[w]) = [key[w] EXCEPT !.n = @ + 1]
      BY <2>2 DEF Incremented
    <3> QED
      BY <1>1, <2>1, <3>1 DEF Counter
  <2>3. CASE ~Alive(key[w])
    <3>1. Incremented(key[w]) = Fresh(1)
      BY <2>3 DEF Incremented
    <3>2. now.w = w => key[w].n = 0
      BY <1>1, <1>2, <2>1, <2>3 DEF Alive, Counter
    <3> QED
      BY <1>1, <3>1, <3>2 DEF Fresh, Counter
  <2> QED
    BY <2>2, <2>3
<1>5. CASE ~Within(key'[w].n)
  BY <1>3, <1>4, <1>5 DEF Count
<1>6. CASE Within(key'[w].n) /\ now.w = w
  <2>1. passed' = [passed EXCEPT ![w] = @ + 1] /\ late' = late
    BY <1>6 DEF Count
  <2>2. passed'[w] = passed[w] + 1 /\ \A v \in WindowId : v # w => passed'[v] = passed[v]
    BY <2>1 DEF TypeOK
  <2> QED
    BY <1>1, <1>3, <1>4, <1>6, <2>1, <2>2
<1>7. CASE Within(key'[w].n) /\ now.w # w
  <2>1. late' = [late EXCEPT ![w] = @ + 1] /\ passed' = passed
    BY <1>7 DEF Count
  <2>2. late'[w] = late[w] + 1 /\ \A v \in WindowId : v # w => late'[v] = late[v]
    BY <2>1 DEF TypeOK
  <2> QED
    BY <1>1, <1>3, <1>4, <1>7, <2>1, <2>2
<1> QED
  BY <1>5, <1>6, <1>7

\* The parts of RedisInv that the counters and the histories alone decide.
Counted == /\ \A w \in WindowId : now.w < w => key[w].n = 0 /\ passed[w] = 0
           /\ OutlivesWindow
           /\ LimitPerWindow
           /\ \A w \in WindowId : Full(w) \/ passed[w] + late[w] >= key[w].n

LEMMA CountStep ==
    ASSUME TypeOK, Counted, NEW w \in WindowId, w <= now.w, Count(w), now' = now
    PROVE  /\ Counted'
           /\ ~Within(key'[w].n) => Full(w)'
           /\ \A v \in WindowId : Full(v) => Full(v)'
<1>1. /\ now.w \in Nat /\ w \in Nat /\ MaxCalls \in Nat \ {0}
      /\ \A v \in WindowId : /\ v \in Nat
                             /\ key[v].n \in Nat
                             /\ passed[v] \in Nat
                             /\ late[v] \in Nat
  <2>1. now.w \in Nat /\ MaxCalls \in Nat \ {0} /\ \A v \in WindowId : v \in Nat
    BY LimitAssumption DEF TypeOK, Time, WindowId
  <2>2. \A v \in WindowId : key[v].n \in Nat /\ passed[v] \in Nat /\ late[v] \in Nat
    BY DEF TypeOK, Counter
  <2> QED
    BY <2>1, <2>2
<1>2. \A v \in WindowId : passed'[v] \in Nat /\ late'[v] \in Nat
  BY CountType
<1> DEFINE Others == \A v \in WindowId : v # w => /\ key'[v] = key[v]
                                                  /\ passed'[v] = passed[v]
                                                  /\ late'[v] = late[v]
           One == /\ key'[w].n \in 1 .. key[w].n + 1
                  /\ now.w = w => /\ key'[w].n = key[w].n + 1
                                  /\ key'[w].bounded => w < key'[w].w
           Slot == IF Within(key'[w].n)
                   THEN /\ passed'[w] + late'[w] = passed[w] + late[w] + 1
                        /\ \/ passed'[w] = passed[w]
                           \/ now.w = w /\ passed'[w] = passed[w] + 1
                   ELSE passed'[w] = passed[w] /\ late'[w] = late[w]
<1>3. Others /\ One /\ Slot
  BY CountOne DEF Counted
<1> HIDE DEF Others, One, Slot
<1>4. \A v \in WindowId : now'.w < v => key'[v].n = 0 /\ passed'[v] = 0
  BY <1>1, <1>3 DEF Others, Counted
<1>5. OutlivesWindow'
  <2> SUFFICES ASSUME NEW v \in WindowId, now.w <= v
               PROVE  /\ key'[v].bounded => v < key'[v].w
                      /\ passed'[v] <= key'[v].n
    BY DEF OutlivesWindow
  <2>1. CASE v # w
    BY <1>3, <2>1 DEF Others, Counted, OutlivesWindow
  <2>2. CASE v = w
    <3>1. now.w = w /\ passed[w] <= key[w].n
      BY <1>1, <2>2 DEF Counted, OutlivesWindow
    <3> QED
      BY <1>1, <1>2, <1>3, <2>2, <3>1 DEF One, Slot
  <2> QED
    BY <2>1, <2>2
<1>6. LimitPerWindow'
  <2> SUFFICES ASSUME NEW v \in WindowId
               PROVE  passed'[v] <= MaxCalls
    BY DEF LimitPerWindow
  <2>1. passed[v] <= MaxCalls
    BY DEF Counted, LimitPerWindow
  <2>2. CASE v # w \/ passed'[w] = passed[w]
    BY <1>3, <2>1, <2>2 DEF Others
  <2>3. CASE v = w /\ passed'[w] # passed[w]
    <3>1. Within(key'[w].n) /\ now.w = w
      BY <1>3, <2>3 DEF Slot
    <3>2. passed'[w] <= key'[w].n
      BY <1>1, <1>5, <3>1 DEF OutlivesWindow
    <3> QED
      BY <1>1, <1>2, <1>3, <2>3, <3>1, <3>2 DEF Within, One
  <2> QED
    BY <2>2, <2>3
<1>7. \A v \in WindowId : Full(v) => Full(v)'
  BY <1>1, <1>2, <1>3 DEF Others, Slot, Full
<1>8. ~Within(key'[w].n) => Full(w)'
  <2> SUFFICES ASSUME ~Within(key'[w].n)
               PROVE  Full(w)'
    OBVIOUS
  <2>1. key[w].n >= MaxCalls
    BY <1>1, <1>3 DEF Within, One
  <2>2. Full(w)
    BY <1>1, <2>1 DEF Counted, Full
  <2> QED
    BY <1>7, <2>2
<1>9. \A v \in WindowId : Full(v)' \/ passed'[v] + late'[v] >= key'[v].n
  <2> SUFFICES ASSUME NEW v \in WindowId, ~Full(v)'
               PROVE  passed'[v] + late'[v] >= key'[v].n
    OBVIOUS
  <2>1. passed[v] + late[v] >= key[v].n
    BY <1>7 DEF Counted
  <2>2. CASE v # w
    BY <1>3, <2>1, <2>2 DEF Others
  <2>3. CASE v = w
    <3>1. passed'[w] + late'[w] = passed[w] + late[w] + 1
      BY <1>3, <1>8, <2>3 DEF Slot
    <3> QED
      BY <1>1, <1>3, <2>1, <2>3, <3>1 DEF One
  <2> QED
    BY <2>2, <2>3
<1> QED
  BY <1>4, <1>5, <1>6, <1>7, <1>8, <1>9 DEF Counted

----------------------------------------------------------------------------
(* The counters in Redis                                                      *)

\* The part of RedisInv that is about one request in hand.
InHand(i) == /\ req[i] # Idle => req[i].win <= now.w
             /\ req[i].phase \in {"expire", "reply"} => Full(req[i].win) \/ Within(req[i].n)

LEMMA RedisInvParts ==
    /\ RedisInv <=> Counted /\ RefusedAtLimit /\ \A i \in Instance : InHand(i)
    /\ Counted' /\ RefusedAtLimit' /\ (\A i \in Instance : InHand(i)') => RedisInv'
BY DEF RedisInv, NotBefore, SlotsGiven, Counted, InHand

\* A step that leaves the counters and the histories alone.
LEMMA CountersAlone ==
    ASSUME Counted, UNCHANGED <<now, key, passed, late>>
    PROVE  Counted' /\ \A v \in WindowId : Full(v)' <=> Full(v)
BY DEF Counted, OutlivesWindow, LimitPerWindow, Full

\* A step of process i leaves the requests of the others as they were, and what
\* was full is full.
LEMMA InHandOthers ==
    ASSUME TypeOK, NEW i \in Instance, NEW r, req' = [req EXCEPT ![i] = r], now' = now,
           \A v \in WindowId : Full(v) => Full(v)',
           \A j \in Instance : InHand(j),
           InHand(i)'
    PROVE  \A j \in Instance : InHand(j)'
<1> SUFFICES ASSUME NEW j \in Instance, j # i
             PROVE  InHand(j)'
  OBVIOUS
<1>1. req'[j] = req[j] /\ InHand(j)
  BY DEF TypeOK
<1>2. req[j] = Idle \/ req[j].win \in WindowId
  BY DEF TypeOK, Request
<1>3. req[j] # Idle => (Full(req[j].win) => Full(req[j].win)')
  BY <1>2
<1>4. Idle.phase \notin {"expire", "reply"}
  BY DEF Idle
<1> QED
  BY <1>1, <1>3, <1>4 DEF InHand, Full

LEMMA IdleInHand ==
    ASSUME TypeOK, NEW i \in Instance, req' = [req EXCEPT ![i] = Idle]
    PROVE  InHand(i)'
BY DEF TypeOK, InHand, Idle

LEMMA RedisInit == Init => RedisInv
<1> SUFFICES ASSUME Init
             PROVE  RedisInv
  OBVIOUS
<1>1. TypeOK
  BY TypeInit
<1>2. \A w \in WindowId : key[w] = Fresh(0) /\ passed[w] = 0 /\ late[w] = 0
  BY DEF Init
<1>3. Counted
  BY <1>2, LimitAssumption
     DEF Counted, OutlivesWindow, LimitPerWindow, Full, Fresh
<1>4. RefusedAtLimit /\ \A i \in Instance : InHand(i)
  BY DEF Init, RefusedAtLimit, InHand, Idle
<1> QED
  BY <1>3, <1>4, RedisInvParts

LEMMA RedisNext == TypeOK /\ RedisInv /\ [Next]_vars => RedisInv'
<1> SUFFICES ASSUME TypeOK, RedisInv, [Next]_vars
             PROVE  RedisInv'
  OBVIOUS
<1>p. Counted /\ RefusedAtLimit /\ \A i \in Instance : InHand(i)
  BY RedisInvParts
<1>t. TypeOK'
  BY TypeNext
<1>a. ASSUME UNCHANGED <<now, req, redisVars>>
      PROVE  RedisInv'
  BY <1>a DEF redisVars, RedisInv, NotBefore, OutlivesWindow, LimitPerWindow,
              SlotsGiven, Full, RefusedAtLimit
<1>b. ASSUME NEW i \in Instance, UNCHANGED <<now, key, passed, late, refused>>,
             NEW r, req' = [req EXCEPT ![i] = r], InHand(i)'
      PROVE  RedisInv'
  <2>1. Counted' /\ \A v \in WindowId : Full(v)' <=> Full(v)
    BY <1>b, <1>p, CountersAlone
  <2>2. \A j \in Instance : InHand(j)'
    BY <1>b, <1>p, <2>1, InHandOthers
  <2>3. RefusedAtLimit'
    BY <1>b, <1>p DEF RefusedAtLimit
  <2> QED
    BY <2>1, <2>2, <2>3, RedisInvParts
<1>1. ASSUME Tick
      PROVE  RedisInv'
  <2>1. now.w \in Nat /\ now'.w \in Nat /\ now.w <= now'.w /\ \A w \in WindowId : w \in Nat
    BY <1>1, LimitAssumption DEF Tick, TypeOK, Time, WindowId
  <2>2. UNCHANGED <<req, key, passed, late, refused>>
    BY <1>1 DEF Tick, redisVars
  <2>3. Counted'
    BY <1>p, <2>1, <2>2 DEF Counted, OutlivesWindow, LimitPerWindow, Full
  <2>4. \A i \in Instance : InHand(i)'
    <3> SUFFICES ASSUME NEW i \in Instance
                 PROVE  InHand(i)'
      OBVIOUS
    <3>1. req[i] = Idle \/ req[i].win \in Nat
      BY <2>1 DEF TypeOK, Request
    <3> QED
      BY <1>p, <2>1, <2>2, <3>1 DEF InHand, Full
  <2>5. RefusedAtLimit'
    BY <1>p, <2>2 DEF RefusedAtLimit
  <2> QED
    BY <2>3, <2>4, <2>5, RedisInvParts
<1>2. ASSUME NEW i \in Instance, Boot(i)
      PROVE  RedisInv'
  BY <1>2, <1>a DEF Boot
<1>3. ASSUME NEW i \in Instance, Crash(i)
      PROVE  RedisInv'
  <2>1. req' = [req EXCEPT ![i] = Idle] /\ UNCHANGED <<now, key, passed, late, refused>>
    BY <1>3 DEF Crash
  <2> QED
    BY <1>b, <2>1, IdleInHand
<1>4. ASSUME NEW i \in Instance, ReadClock(i)
      PROVE  RedisInv'
  <2> DEFINE r == [phase |-> "incr", win |-> now.w, n |-> 0]
  <2>1. req' = [req EXCEPT ![i] = r] /\ UNCHANGED <<now, key, passed, late, refused>>
    BY <1>4 DEF ReadClock, redisVars
  <2>2. req'[i] = r /\ now' = now /\ now.w \in Nat
    BY <2>1, LimitAssumption DEF TypeOK, Time, WindowId
  <2>3. InHand(i)'
    BY <2>2 DEF InHand
  <2> HIDE DEF r
  <2> QED
    BY <1>b, <2>1, <2>3
<1>5. ASSUME NEW i \in Instance, Incr(i) \/ IncrLost(i)
      PROVE  RedisInv'
  <2>1. req[i] \in Request
    BY <1>5 DEF Incr, IncrLost, TypeOK, Idle
  <2>w. PICK w \in WindowId : w = req[i].win
    BY <2>1 DEF Request
  <2>2. w <= now.w /\ Count(w) /\ now' = now
    BY <1>5, <1>p, <2>1, <2>w DEF Incr, IncrLost, Request, InHand, Idle
  <2>3. /\ Counted'
        /\ ~Within(key'[w].n) => Full(w)'
        /\ \A v \in WindowId : Full(v) => Full(v)'
    BY <1>p, <2>2, CountStep
  <2>4. RefusedAtLimit'
    <3>1. refused' = refused
      BY <1>5 DEF Incr, IncrLost
    <3> QED
      BY <1>p, <2>3, <3>1 DEF RefusedAtLimit, Full, TypeOK
  <2>5. CASE IncrLost(i)
    <3>1. req' = [req EXCEPT ![i] = Idle]
      BY <2>5 DEF IncrLost
    <3>2. \A j \in Instance : InHand(j)'
      BY <1>p, <2>2, <2>3, <3>1, IdleInHand, InHandOthers
    <3> QED
      BY <2>3, <2>4, <3>2, RedisInvParts
  <2>6. CASE Incr(i)
    <3> DEFINE r == [req[i] EXCEPT !.phase = "expire", !.n = key'[w].n]
    <3>1. req' = [req EXCEPT ![i] = r]
      BY <2>6, <2>w DEF Incr
    <3>2. req'[i].win = w /\ req'[i].n = key'[w].n
      BY <2>1, <2>w, <3>1 DEF TypeOK, Request
    <3>3. InHand(i)'
      BY <2>2, <2>3, <3>2 DEF InHand, Within
    <3> HIDE DEF r
    <3>4. \A j \in Instance : InHand(j)'
      BY <1>p, <2>2, <2>3, <3>1, <3>3, InHandOthers
    <3> QED
      BY <2>3, <2>4, <3>4, RedisInvParts
  <2> QED
    BY <1>5, <2>5, <2>6
<1>6. ASSUME NEW i \in Instance, Expire(i)
      PROVE  RedisInv'
  <2> DEFINE w == req[i].win
             k == key[w]
  <2>1. req[i] \in Request
    BY <1>6 DEF Expire, TypeOK, Idle
  <2>2. w \in WindowId /\ w <= now.w /\ UNCHANGED <<now, passed, late, refused>>
    BY <1>6, <1>p, <2>1 DEF Expire, Request, InHand, Idle
  <2>3. key' = [key EXCEPT ![w] = IF Alive(k) THEN Bounded(k) ELSE k]
    BY <1>6 DEF Expire
  <2>4. /\ key'[w] = IF Alive(k) THEN Bounded(k) ELSE k
        /\ \A v \in WindowId : v # w => key'[v] = key[v]
    BY <2>2, <2>3 DEF TypeOK
  <2>5. \A v \in WindowId : key'[v].n = key[v].n
    BY <2>4 DEF Bounded
  <2>6. OutlivesWindow'
    <3>1. now.w \in Nat /\ w \in Nat
      BY <2>2, LimitAssumption DEF TypeOK, Time, WindowId
    <3>2. Alive(k) => key'[w].w = now.w + 1
      BY <2>4 DEF Bounded
    <3>3. now.w <= w => (key'[w].bounded => w < key'[w].w)
      BY <1>p, <2>2, <2>4, <3>1, <3>2 DEF Counted, OutlivesWindow
    <3> QED
      BY <1>p, <2>2, <2>4, <2>5, <3>3 DEF Counted, OutlivesWindow
  <2>7. Counted'
    BY <1>p, <2>2, <2>5, <2>6 DEF Counted, LimitPerWindow, Full
  <2>8. \A v \in WindowId : Full(v) => Full(v)'
    BY <2>2 DEF Full
  <2>9. RefusedAtLimit'
    BY <1>p, <2>2 DEF RefusedAtLimit
  <2>10. \A j \in Instance : InHand(j)'
    <3>1. CASE req' = [req EXCEPT ![i] = Idle]
      BY <1>p, <2>2, <2>8, <3>1, IdleInHand, InHandOthers
    <3>2. CASE req' = [req EXCEPT ![i].phase = "reply"]
      <4> DEFINE r == [req[i] EXCEPT !.phase = "reply"]
      <4>1. req' = [req EXCEPT ![i] = r]
        BY <3>2
      <4>2. req'[i].win = w /\ req'[i].n = req[i].n
        BY <2>1, <4>1 DEF TypeOK, Request
      <4>3. Full(w) \/ Within(req[i].n)
        BY <1>6, <1>p DEF Expire, InHand
      <4>4. InHand(i)'
        BY <2>2, <4>2, <4>3 DEF InHand, Within, Full
      <4> HIDE DEF r
      <4> QED
        BY <1>p, <2>2, <2>8, <4>1, <4>4, InHandOthers
    <3> QED
      BY <1>6, <3>1, <3>2 DEF Expire
  <2> QED
    BY <2>7, <2>9, <2>10, RedisInvParts
<1>7. ASSUME NEW i \in Instance, RedisFails(i)
      PROVE  RedisInv'
  <2>1. req' = [req EXCEPT ![i] = Idle] /\ UNCHANGED <<now, key, passed, late, refused>>
    BY <1>7 DEF RedisFails
  <2> QED
    BY <1>b, <2>1, IdleInHand
<1>8. ASSUME NEW i \in Instance, Reply(i)
      PROVE  RedisInv'
  <2>1. req' = [req EXCEPT ![i] = Idle] /\ UNCHANGED <<now, key, passed, late>>
    BY <1>8 DEF Reply
  <2>2. Counted' /\ \A v \in WindowId : Full(v)' <=> Full(v)
    BY <1>p, <2>1, CountersAlone
  <2>3. \A j \in Instance : InHand(j)'
    BY <1>p, <2>1, <2>2, IdleInHand, InHandOthers
  <2>4. Full(req[i].win) \/ Within(req[i].n)
    BY <1>8, <1>p DEF Reply, InHand
  <2>5. RefusedAtLimit'
    BY <1>8, <1>p, <2>1, <2>4 DEF Reply, RefusedAtLimit, Full
  <2> QED
    BY <2>2, <2>3, <2>5, RedisInvParts
<1>9. ASSUME NEW i \in Instance, CheckList(i)
      PROVE  RedisInv'
  BY <1>9, <1>a DEF CheckList
<1>10. CASE UNCHANGED vars
  BY <1>10, <1>a DEF vars, redisVars
<1> QED
  BY <1>1, <1>2, <1>3, <1>4, <1>5, <1>6, <1>7, <1>8, <1>9, <1>10 DEF Next

----------------------------------------------------------------------------
(* Counters that Redis keeps for ever                                         *)

LEMMA StrandedFinite == IsFiniteSet(Stranded) /\ IsFiniteSet(Stranded')
<1>1. IsFiniteSet(WindowId)
  BY FS_Interval, LimitAssumption DEF WindowId
<1>2. Stranded \subseteq WindowId /\ Stranded' \subseteq WindowId
  BY DEF Stranded
<1> QED
  BY <1>1, <1>2, FS_Subset

\* A step strands no counter, or one at a price.
LEMMA LeakStep ==
    ASSUME TypeOK, LeakBounded, NEW w,
           \/ Stranded' \subseteq Stranded /\ leaks' = leaks
           \/ Stranded' \subseteq Stranded \cup {w} /\ leaks' = leaks + 1
    PROVE  LeakBounded'
<1>1. Cardinality(Stranded) \in Nat /\ Cardinality(Stranded') \in Nat /\ leaks \in Nat
  BY StrandedFinite, FS_CardinalityType DEF TypeOK
<1>2. CASE Stranded' \subseteq Stranded /\ leaks' = leaks
  <2>1. Cardinality(Stranded') <= Cardinality(Stranded)
    BY <1>2, StrandedFinite, FS_Subset
  <2> QED
    BY <1>1, <1>2, <2>1 DEF LeakBounded
<1>3. CASE Stranded' \subseteq Stranded \cup {w} /\ leaks' = leaks + 1
  <2>1. /\ IsFiniteSet(Stranded \cup {w})
        /\ Cardinality(Stranded \cup {w}) <= Cardinality(Stranded) + 1
    BY <1>1, StrandedFinite, FS_AddElement
  <2>2. /\ Cardinality(Stranded') <= Cardinality(Stranded \cup {w})
        /\ Cardinality(Stranded \cup {w}) \in Nat
    BY <1>3, <2>1, FS_Subset, FS_CardinalityType
  <2> QED
    BY <1>1, <1>3, <2>1, <2>2 DEF LeakBounded
<1> QED
  BY <1>2, <1>3

\* A request that ends strands its counter at most, and then it is a leak.
LEMMA EndsRequest ==
    ASSUME TypeOK, LeakBounded, NEW i \in Instance, key' = key,
           req' = [req EXCEPT ![i] = Idle], leaks' = LeaksAfter(i)
    PROVE  LeakBounded'
<1>1. \A j \in Instance : j # i => req'[j] = req[j]
  BY DEF TypeOK
<1>2. CASE req[i].phase = "expire"
  <2>1. Stranded' \subseteq Stranded \cup {req[i].win}
    BY <1>1 DEF Stranded
  <2>2. leaks' = leaks + 1
    BY <1>2 DEF LeaksAfter
  <2> QED
    BY <2>1, <2>2, LeakStep
<1>3. CASE req[i].phase # "expire"
  <2>1. Stranded' \subseteq Stranded
    BY <1>1, <1>3 DEF Stranded
  <2>2. leaks' = leaks
    BY <1>3 DEF LeaksAfter
  <2> QED
    BY <2>1, <2>2, LeakStep
<1> QED
  BY <1>2, <1>3

LEMMA LeakInit == Init => LeakBounded
<1> SUFFICES ASSUME Init
             PROVE  LeakBounded
  OBVIOUS
<1>1. Stranded = {}
  BY DEF Init, Stranded, Fresh
<1>2. Cardinality(Stranded) = 0
  BY <1>1, FS_EmptySet
<1> QED
  BY <1>2 DEF Init, LeakBounded

LEMMA LeakNext == TypeOK /\ RedisInv /\ LeakBounded /\ [Next]_vars => LeakBounded'
<1> SUFFICES ASSUME TypeOK, RedisInv, LeakBounded, [Next]_vars
             PROVE  LeakBounded'
  OBVIOUS
<1>a. ASSUME UNCHANGED <<key, req, leaks>>
      PROVE  LeakBounded'
  BY <1>a DEF LeakBounded, Stranded
<1>1. CASE Tick
  BY <1>1, <1>a DEF Tick, redisVars
<1>2. ASSUME NEW i \in Instance, Boot(i) \/ CheckList(i)
      PROVE  LeakBounded'
  BY <1>2, <1>a DEF Boot, CheckList, redisVars
<1>3. ASSUME NEW i \in Instance, Crash(i) \/ RedisFails(i)
      PROVE  LeakBounded'
  BY <1>3, EndsRequest DEF Crash, RedisFails
<1>4. ASSUME NEW i \in Instance, ReadClock(i) \/ Reply(i)
      PROVE  LeakBounded'
  <2>1. /\ key' = key /\ leaks' = leaks /\ req[i].phase # "expire"
        /\ \A j \in Instance : j # i => req'[j] = req[j]
    BY <1>4 DEF ReadClock, Reply, redisVars, Idle, TypeOK
  <2>2. Stranded' \subseteq Stranded
    BY <2>1 DEF Stranded
  <2> QED
    BY <2>1, <2>2, LeakStep
<1>5. ASSUME NEW i \in Instance, Incr(i) \/ IncrLost(i)
      PROVE  LeakBounded'
  <2>1. req[i] \in Request
    BY <1>5 DEF Incr, IncrLost, TypeOK, Idle
  <2>w. PICK w \in WindowId : w = req[i].win
    BY <2>1 DEF Request
  <2>2. /\ req[i].phase = "incr"
        /\ \A v \in WindowId : v # w => key'[v] = key[v]
        /\ \A j \in Instance : j # i => req'[j] = req[j]
    BY <1>5, <2>w DEF Incr, IncrLost, Count, TypeOK
  <2>3. Stranded' \subseteq Stranded \cup {w}
    BY <2>2 DEF Stranded
  <2>4. CASE IncrLost(i)
    <3>1. leaks' = leaks + 1
      BY <2>4 DEF IncrLost
    <3> QED
      BY <2>3, <3>1, LeakStep
  <2>5. CASE Incr(i)
    <3>1. req'[i] = [req[i] EXCEPT !.phase = "expire", !.n = key'[req[i].win].n]
      BY <2>5 DEF Incr, TypeOK
    <3>2. req'[i].phase = "expire" /\ req'[i].win = w
      BY <2>1, <2>w, <3>1 DEF Request
    <3>3. w \notin Stranded' /\ leaks' = leaks
      BY <2>5, <3>2 DEF Stranded, Incr
    <3> QED
      BY <2>3, <3>3, LeakStep
  <2> QED
    BY <1>5, <2>4, <2>5
<1>6. ASSUME NEW i \in Instance, Expire(i)
      PROVE  LeakBounded'
  <2>1. req[i] \in Request
    BY <1>6 DEF Expire, TypeOK, Idle
  <2>w. PICK w \in WindowId : w = req[i].win
    BY <2>1 DEF Request
  <2>2. /\ leaks' = leaks
        /\ key'[w] = IF Alive(key[w]) THEN Bounded(key[w]) ELSE key[w]
        /\ \A v \in WindowId : v # w => key'[v] = key[v]
        /\ \A j \in Instance : j # i => req'[j] = req[j]
    BY <1>6, <2>w DEF Expire, TypeOK
  <2>3. key'[w].n > 0 => key'[w].bounded
    BY <2>2 DEF Alive, Bounded
  <2>4. Stranded' \subseteq Stranded
    BY <2>2, <2>3, <2>w DEF Stranded
  <2> QED
    BY <2>2, <2>4, LeakStep
<1>7. CASE UNCHANGED vars
  BY <1>7, <1>a DEF vars
<1> QED
  BY <1>1, <1>2, <1>3, <1>4, <1>5, <1>6, <1>7 DEF Next

----------------------------------------------------------------------------
(* The lists of the processes                                                 *)

\* With the clock, what is past stays past and what is no longer recent stays so.
LEMMA RecentOverTime ==
    ASSUME TypeOK, Tick, NEW c \in Stamp
    PROVE  /\ Past(c) => Past(c)'
           /\ Past(c) /\ Recent(c)' => Recent(c)
<1>1. /\ c.at.w \in Nat /\ c.at.s \in Nat /\ now.w \in Nat /\ now.s \in Nat
      /\ c.at.s <= Window - 1
  BY LimitAssumption DEF TypeOK, Stamp, Time, WindowId
<1>2. \/ now'.w = now.w /\ now'.s = now.s + 1
      \/ now'.w = now.w + 1 /\ now'.s = 0
  BY DEF Tick
<1> QED
  BY <1>1, <1>2 DEF Past, Recent

LEMMA ListsInit == Init => ListsKept /\ SlidingLimit
<1> SUFFICES ASSUME Init
             PROVE  ListsKept /\ SlidingLimit
  OBVIOUS
<1>1. \A i \in Instance : {c \in calls[i] : Recent(c)} = {}
  BY DEF Init
<1>2. SlidingLimit
  BY <1>1, FS_EmptySet, LimitAssumption DEF SlidingLimit
<1>3. ListsKept
  BY FS_EmptySet DEF Init, ListsKept
<1> QED
  BY <1>2, <1>3

\* The two parts about the list of process i.
Listed(i) == /\ IsFiniteSet(stamps[i])
             /\ \A c \in stamps[i] \cup calls[i] : Past(c)
             /\ \A c \in calls[i] : Recent(c) => c \in stamps[i]
             /\ Cardinality({c \in calls[i] : Recent(c)}) <= MaxCalls

LEMMA ListsNext ==
    TypeOK /\ ListsKept /\ SlidingLimit /\ [Next]_vars => ListsKept' /\ SlidingLimit'
<1> SUFFICES ASSUME TypeOK, ListsKept, SlidingLimit, [Next]_vars, NEW i \in Instance
             PROVE  Listed(i)'
  BY DEF ListsKept, SlidingLimit, Listed
<1>p. Listed(i)
  BY DEF ListsKept, SlidingLimit, Listed
<1>t. stamps[i] \in SUBSET Stamp /\ calls[i] \in SUBSET Stamp /\ MaxCalls \in Nat
  BY LimitAssumption DEF TypeOK
<1>a. ASSUME now' = now, stamps'[i] = stamps[i], calls'[i] = calls[i]
      PROVE  Listed(i)'
  BY <1>a, <1>p DEF Listed, Past, Recent
<1>b. IsFiniteSet({c \in calls[i] : Recent(c)})
  <2>1. {c \in calls[i] : Recent(c)} \subseteq stamps[i] /\ IsFiniteSet(stamps[i])
    BY <1>p DEF Listed
  <2> QED
    BY <2>1, FS_Subset
<1>1. CASE Tick
  <2>1. stamps' = stamps /\ calls' = calls
    BY <1>1 DEF Tick, listVars
  <2>2. \A c \in stamps[i] \cup calls[i] : Past(c)' /\ (Recent(c)' => Recent(c))
    BY <1>1, <1>p, <1>t, RecentOverTime DEF Listed
  <2>3. {c \in calls[i] : Recent(c)}' \subseteq {c \in calls[i] : Recent(c)}
    BY <2>1, <2>2
  <2>4. Cardinality({c \in calls[i] : Recent(c)}') \in Nat
        /\ Cardinality({c \in calls[i] : Recent(c)}) \in Nat
        /\ Cardinality({c \in calls[i] : Recent(c)}') <=
           Cardinality({c \in calls[i] : Recent(c)})
    BY <1>b, <2>3, FS_Subset, FS_CardinalityType
  <2>5. Cardinality({c \in calls[i] : Recent(c)}') <= MaxCalls
    BY <1>p, <1>t, <2>4 DEF Listed
  <2> QED
    BY <1>p, <2>1, <2>2, <2>5 DEF Listed
<1>2. ASSUME NEW j \in Instance, Crash(j)
      PROVE  Listed(i)'
  <2>1. now' = now /\ (j # i => stamps'[i] = stamps[i] /\ calls'[i] = calls[i])
    BY <1>2 DEF Crash, TypeOK
  <2>2. ASSUME j = i
        PROVE  Listed(i)'
    <3>1. stamps'[i] = {} /\ calls'[i] = {}
      BY <1>2, <2>2 DEF Crash, TypeOK
    <3>2. {c \in calls[i] : Recent(c)}' = {}
      BY <3>1
    <3>3. Cardinality({c \in calls[i] : Recent(c)}') = 0 /\ IsFiniteSet(stamps'[i])
      BY <3>1, <3>2, FS_EmptySet
    <3> QED
      BY <1>t, <3>1, <3>3 DEF Listed
  <2> QED
    BY <1>a, <2>1, <2>2
<1>3. ASSUME NEW j \in Instance, CheckList(j)
      PROVE  Listed(i)'
  <2>s. PICK stamp : stamp = [id |-> asked + 1, at |-> now]
    OBVIOUS
  <2>1. /\ now' = now
        /\ j # i => stamps'[i] = stamps[i] /\ calls'[i] = calls[i]
    BY <1>3 DEF CheckList, TypeOK
  <2>2. ASSUME j = i
        PROVE  Listed(i)'
    <3>1. stamps'[i] = Kept(i) \cup {stamp}
      BY <1>3, <2>2, <2>s DEF CheckList, TypeOK
    <3>2. \/ calls'[i] = calls[i]
          \/ /\ Within(Cardinality(stamps'[i]))
             /\ calls'[i] = calls[i] \cup {stamp}
      BY <1>3, <2>2, <2>s DEF CheckList, TypeOK
    <3>3. Past(stamp)'
      <4>1. now.w \in Nat /\ now.s \in Nat
        BY LimitAssumption DEF TypeOK, Time, WindowId
      <4> QED
        BY <2>1, <2>s, <4>1 DEF Past
    <3>4. IsFiniteSet(stamps'[i])
      <4>1. IsFiniteSet(Kept(i))
        BY <1>p, FS_Subset DEF Listed, Kept
      <4> QED
        BY <3>1, <4>1, FS_AddElement
    <3>5. \A c \in stamps'[i] \cup calls'[i] : Past(c)'
      <4>1. \A c \in stamps[i] \cup calls[i] : Past(c)'
        BY <1>p, <2>1 DEF Listed, Past
      <4> QED
        BY <3>1, <3>2, <3>3, <4>1 DEF Kept
    <3>6. \A c \in calls'[i] : Recent(c)' => c \in stamps'[i]
      <4>1. \A c : Recent(c)' <=> Recent(c)
        BY <2>1 DEF Recent
      <4> QED
        BY <1>p, <3>1, <3>2, <4>1 DEF Listed, Kept
    <3>7. Cardinality({c \in calls[i] : Recent(c)}') <= MaxCalls
      <4>1. CASE calls'[i] = calls[i]
        <5>1. {c \in calls[i] : Recent(c)}' = {c \in calls[i] : Recent(c)}
          BY <2>1, <4>1 DEF Recent
        <5> QED
          BY <1>p, <5>1 DEF Listed
      <4>2. CASE Within(Cardinality(stamps'[i]))
        <5>1. {c \in calls[i] : Recent(c)}' \subseteq stamps'[i]
          BY <3>6
        <5>2. Cardinality({c \in calls[i] : Recent(c)}') <= Cardinality(stamps'[i])
          BY <3>4, <5>1, FS_Subset
        <5>3. /\ Cardinality({c \in calls[i] : Recent(c)}') \in Nat
              /\ Cardinality(stamps'[i]) \in Nat
          BY <3>4, <5>1, FS_Subset, FS_CardinalityType
        <5> QED
          BY <1>t, <4>2, <5>2, <5>3 DEF Within
      <4> QED
        BY <3>2, <4>1, <4>2
    <3> QED
      BY <3>4, <3>5, <3>6, <3>7 DEF Listed
  <2> QED
    BY <1>a, <2>1, <2>2
<1>4. ASSUME now' = now, UNCHANGED listVars
      PROVE  Listed(i)'
  BY <1>4, <1>a DEF listVars
<1>5. ASSUME NEW j \in Instance,
             Boot(j) \/ ReadClock(j) \/ Incr(j) \/ IncrLost(j) \/ Expire(j)
             \/ RedisFails(j) \/ Reply(j)
      PROVE  Listed(i)'
  BY <1>4, <1>5 DEF Boot, ReadClock, Incr, IncrLost, Expire, RedisFails, Reply
<1>6. CASE UNCHANGED vars
  BY <1>4, <1>6 DEF vars, listVars
<1> QED
  BY <1>1, <1>2, <1>3, <1>5, <1>6 DEF Next

----------------------------------------------------------------------------
(* The theorems                                                               *)

\* Every variable keeps its type: a window has one counter, its expiry is a second
\* of some window, and a request in hand names a window of the clock.
THEOREM TypeCorrect == Spec => []TypeOK
<1>1. Init => TypeOK
  BY TypeInit
<1>2. TypeOK /\ [Next]_vars => TypeOK'
  BY TypeNext
<1> QED
  BY <1>1, <1>2, PTL DEF Spec

\* The inductive invariant holds: Redis has counted no less than what passed, a
\* counter outlives its window, and a list holds what its process admitted.
THEOREM Invariance == Spec => []IInv
<1>1. Init => IInv
  BY TypeInit, RedisInit, LeakInit, ListsInit DEF IInv
<1>2. IInv /\ [Next]_vars => IInv'
  <2> SUFFICES ASSUME IInv, [Next]_vars
               PROVE  IInv'
    OBVIOUS
  <2> QED
    BY TypeNext, RedisNext, LeakNext, ListsNext DEF IInv
<1> QED
  BY <1>1, <1>2, PTL DEF Spec

\* RedisRateLimiter.check lets no more requests of a window through than the limit
\* while the window lasts, for any number of processes, crashes and lost replies.
THEOREM LimitTheorem == Spec => []LimitPerWindow
<1>1. IInv => LimitPerWindow
  BY DEF IInv, RedisInv
<1> QED
  BY <1>1, Invariance, PTL

\* It refuses in a window only when a limit's worth of its requests were counted.
THEOREM RefusedTheorem == Spec => []RefusedAtLimit
<1>1. IInv => RefusedAtLimit
  BY DEF IInv, RedisInv
<1> QED
  BY <1>1, Invariance, PTL

\* Each counter that Redis keeps for ever is owed to a request of its own that
\* ended between INCR and EXPIRE.
THEOREM LeakTheorem == Spec => []LeakBounded
<1>1. IInv => LeakBounded
  BY DEF IInv
<1> QED
  BY <1>1, Invariance, PTL

\* The in-memory fallback admits no more than the limit in any span of a window.
THEOREM SlidingTheorem == Spec => []SlidingLimit
<1>1. IInv => SlidingLimit
  BY DEF IInv
<1> QED
  BY <1>1, Invariance, PTL


----------------------------------------------------------------------------
(* VelocityTracker: the inductive invariant                                   *)

WindowType == [stamps : SUBSET Stamps, value : Nat, risk : Nat, sensitive : Nat]

\* The stamps of S that the closed window ending at t holds.
Young(S, t) == {c \in S : t <= c.at + WindowSeconds}

\* Stamps appended later were taken no earlier.
Ordered(S) == \A c, d \in S : c.id <= d.id => c.at <= d.at

\* The lock holds one thread, and no stamp is later than the time it read.
OneInside ==
    \A th \in Thread : section[th].in =>
        /\ \A other \in Thread : section[other].in => other = th
        /\ section[th].at <= clock
        /\ \A s \in Scope : \A c \in log[s] : c.at <= section[th].at

StampsInOrder ==
    \A s \in Scope : /\ IsFiniteSet(log[s])
                     /\ Ordered(log[s])
                     /\ \A c \in log[s] : c.id <= appended /\ c.at <= clock

\* Only what is too old for every answer to come has left a deque.
NothingLost ==
    \A s \in Scope :
        /\ windows[s].stamps \subseteq log[s]
        /\ \A c \in log[s] : c \notin windows[s].stamps =>
               /\ c.at + WindowSeconds < clock
               /\ \A th \in Thread : section[th].in => c.at + WindowSeconds < section[th].at

SumsStay == \A s \in tripped : OverSum(windows[s])

VelocityInv == /\ VelocityTypeOK /\ OneInside /\ StampsInOrder /\ NothingLost /\ SumsStay
               /\ WindowExact /\ BlockedUntilReset

----------------------------------------------------------------------------

\* Popping from the left while the first is too old removes exactly the too old.
LEMMA PruneExact ==
    ASSUME NEW w \in WindowType, NEW t \in Nat, Ordered(w.stamps)
    PROVE  /\ Prune(w, t) \in WindowType
           /\ Prune(w, t).stamps = Young(w.stamps, t)
           /\ Prune(w, t).value = w.value
           /\ Prune(w, t).risk = w.risk
           /\ Prune(w, t).sensitive = w.sensitive
<1> DEFINE S == {c \in w.stamps : \E d \in w.stamps : d.id <= c.id /\ t <= d.at + WindowSeconds}
<1>1. w.stamps \in SUBSET Stamps
  BY DEF WindowType
<1>2. \A c \in w.stamps : c.id \in Nat /\ c.at \in Nat
  BY <1>1 DEF Stamps
<1>3. S = Young(w.stamps, t)
  <2>1. ASSUME NEW c \in w.stamps, NEW d \in w.stamps, d.id <= c.id, t <= d.at + WindowSeconds
        PROVE  t <= c.at + WindowSeconds
    <3>1. d.at <= c.at
      BY <2>1 DEF Ordered
    <3> QED
      BY <1>2, <2>1, <3>1, VelocityAssumption
  <2>2. ASSUME NEW c \in w.stamps, t <= c.at + WindowSeconds
        PROVE  \E d \in w.stamps : d.id <= c.id /\ t <= d.at + WindowSeconds
    BY <1>2, <2>2
  <2> QED
    BY <2>1, <2>2 DEF Young
<1>4. S \in SUBSET Stamps
  BY <1>1
<1>5. Prune(w, t) = [w EXCEPT !.stamps = S]
  BY DEF Prune
<1> HIDE DEF S
<1> QED
  BY <1>3, <1>4, <1>5 DEF WindowType

\* Sums that only grow stay over their limit.
LEMMA OverSumGrows ==
    ASSUME NEW w \in WindowType, NEW v \in WindowType, OverSum(w),
           w.value <= v.value, w.risk <= v.risk, w.sensitive <= v.sensitive
    PROVE  OverSum(v)
<1>1. /\ w.value \in Nat /\ w.risk \in Nat /\ w.sensitive \in Nat
      /\ v.value \in Nat /\ v.risk \in Nat /\ v.sensitive \in Nat
  BY DEF WindowType
<1>2. Max.value \in Nat /\ Max.risk \in Nat /\ Max.sensitive \in Nat
  BY VelocityAssumption
<1> QED
  BY <1>1, <1>2 DEF OverSum

\* The end of record and of get_state: a scope has the stamps L and the window w.
LEMMA EvaluateStep ==
    ASSUME VelocityInv,
           NEW th \in Thread, NEW s \in Scope, section[th].in,
           NEW w \in WindowType, NEW L \in SUBSET Stamps, IsFiniteSet(L), log[s] \subseteq L,
           \A c \in log[s] : c \notin windows[s].stamps => c.at + WindowSeconds < section[th].at,
           windows' = [windows EXCEPT ![s] = w],
           log' = [log EXCEPT ![s] = L],
           w.stamps = Young(L, section[th].at),
           Ordered(L), \A c \in L : c.id <= appended' /\ c.at <= section[th].at,
           appended' \in Nat, appended <= appended',
           s \in tripped => OverSum(w),
           Evaluate(s, w, section[th].at),
           Release(th), UNCHANGED clock
    PROVE  VelocityInv'
<1> DEFINE t == section[th].at
<1>1. /\ clock \in Nat /\ clock' = clock
      /\ section \in [Thread -> [in : BOOLEAN, at : Nat]]
      /\ windows \in [Scope -> WindowType]
      /\ log \in [Scope -> SUBSET Stamps]
      /\ tripped \in SUBSET Scope
      /\ appended \in Nat
  BY DEF VelocityInv, VelocityTypeOK, WindowType
<1>2. t \in Nat /\ t <= clock
  BY <1>1 DEF VelocityInv, OneInside
<1>3. section' = [section EXCEPT ![th] = Outside]
  BY DEF Release
<1>4. \A other \in Thread : ~section'[other].in
  <2>1. section'[th] = Outside
    BY <1>1, <1>3
  <2>2. \A other \in Thread : other # th => ~section[other].in
    BY DEF VelocityInv, OneInside
  <2>3. \A other \in Thread : other # th => section'[other] = section[other]
    BY <1>1, <1>3
  <2> QED
    BY <2>1, <2>2, <2>3 DEF Outside
<1>5. /\ windows'[s] = w /\ log'[s] = L
      /\ \A r \in Scope : r # s => windows'[r] = windows[r] /\ log'[r] = log[r]
  BY <1>1
<1>6. answer' = [given |-> TRUE, scope |-> s, at |-> t, count |-> Cardinality(w.stamps),
                 blocked |-> Cardinality(w.stamps) > Max.requests \/ OverSum(w)]
  BY DEF Evaluate
<1>7. tripped' = IF OverSum(w) THEN tripped \cup {s} ELSE tripped
  BY DEF Evaluate
<1>8. Cardinality(w.stamps) \in Nat
  <2>1. w.stamps \subseteq L
    BY DEF Young
  <2> QED
    BY <2>1, FS_Subset, FS_CardinalityType
<1>9. OverSum(w) \in BOOLEAN
  BY DEF OverSum
<1>10. VelocityTypeOK'
  <2>1. section' \in [Thread -> [in : BOOLEAN, at : Nat]]
    BY <1>1, <1>3 DEF Outside
  <2>2. windows' \in [Scope -> WindowType]
    BY <1>1
  <2>3. log' \in [Scope -> SUBSET Stamps]
    BY <1>1
  <2>4. tripped' \in SUBSET Scope
    BY <1>1, <1>7
  <2>5. answer' \in Answer
    <3>1. (Cardinality(w.stamps) > Max.requests \/ OverSum(w)) \in BOOLEAN
      OBVIOUS
    <3> HIDE DEF t
    <3> QED
      BY <1>2, <1>6, <1>8, <3>1 DEF Answer
  <2> QED
    BY <1>1, <2>1, <2>2, <2>3, <2>4, <2>5 DEF VelocityTypeOK, WindowType
<1>11. \A c \in L : c.at \in Nat /\ c.at <= clock
  <2>1. \A c \in L : c.at \in Nat
    BY DEF Stamps
  <2> QED
    BY <1>1, <1>2, <2>1
<1>12. OneInside'
  BY <1>4 DEF OneInside
<1>13. StampsInOrder'
  <2>1. ASSUME NEW r \in Scope, r # s
        PROVE  IsFiniteSet(log'[r]) /\ Ordered(log'[r])
               /\ \A c \in log'[r] : c.id <= appended' /\ c.at <= clock'
    <3>1. IsFiniteSet(log[r]) /\ Ordered(log[r]) /\ \A c \in log[r] : c.id <= appended /\ c.at <= clock
      BY DEF VelocityInv, StampsInOrder
    <3>2. \A c \in log[r] : c.id \in Nat
      BY <1>1 DEF Stamps
    <3> QED
      BY <1>1, <1>5, <2>1, <3>1, <3>2
  <2>2. IsFiniteSet(log'[s]) /\ Ordered(log'[s])
        /\ \A c \in log'[s] : c.id <= appended' /\ c.at <= clock'
    BY <1>1, <1>5, <1>11
  <2>3. \A r \in Scope : IsFiniteSet(log'[r]) /\ Ordered(log'[r])
                         /\ \A c \in log'[r] : c.id <= appended' /\ c.at <= clock'
    BY <2>1, <2>2
  <2> QED
    BY <2>3 DEF StampsInOrder, Ordered
<1>14. NothingLost'
  <2>1. ASSUME NEW r \in Scope, r # s
        PROVE  windows'[r].stamps \subseteq log'[r]
               /\ \A c \in log'[r] : c \notin windows'[r].stamps => c.at + WindowSeconds < clock'
    BY <1>1, <1>5, <2>1 DEF VelocityInv, NothingLost
  <2>2. windows'[s].stamps \subseteq log'[s]
    BY <1>5 DEF Young
  <2>3. ASSUME NEW c \in L, c \notin w.stamps
        PROVE  c.at + WindowSeconds < clock
    <3>1. ~(t <= c.at + WindowSeconds)
      BY <2>3 DEF Young
    <3> QED
      BY <1>1, <1>2, <1>11, <3>1, VelocityAssumption
  <2>4. \A r \in Scope :
            windows'[r].stamps \subseteq log'[r]
            /\ \A c \in log'[r] : c \notin windows'[r].stamps => c.at + WindowSeconds < clock'
    BY <1>1, <1>5, <2>1, <2>2, <2>3
  <2> QED
    BY <1>4, <2>4 DEF NothingLost
<1>15. \A r \in tripped' : OverSum(windows'[r])
  <2>1. ASSUME NEW r \in tripped', r # s
        PROVE  OverSum(windows'[r])
    BY <1>1, <1>5, <1>7, <2>1 DEF VelocityInv, SumsStay
  <2>2. s \in tripped' => OverSum(windows'[s])
    BY <1>5, <1>7
  <2> QED
    BY <2>1, <2>2
<1>16. SumsStay'
  BY <1>15 DEF SumsStay, OverSum
<1>17. answer'.scope = s /\ answer'.at = t /\ answer'.count = Cardinality(w.stamps)
       /\ (OverSum(w) => answer'.blocked)
  <2> HIDE DEF t
  <2> QED
    BY <1>6, <1>9
<1>18. WindowExact'
  <2>1. {c \in log'[answer'.scope] : answer'.at <= c.at + WindowSeconds} = w.stamps
    BY <1>5, <1>17 DEF Young
  <2> QED
    BY <1>17, <2>1 DEF WindowExact
<1>19. BlockedUntilReset'
  <2>1. s \in tripped' => OverSum(w)
    BY <1>7
  <2> QED
    BY <1>17, <2>1 DEF BlockedUntilReset
<1> QED
  BY <1>10, <1>12, <1>13, <1>14, <1>16, <1>18, <1>19 DEF VelocityInv

LEMMA RecordStep ==
    ASSUME VelocityInv, NEW th \in Thread, NEW s \in Scope, NEW c \in Charge, Record(th, s, c)
    PROVE  VelocityInv'
<1> DEFINE t == section[th].at
           stamp == [id |-> appended + 1, at |-> t]
           w == Prune(windows[s], t)
           charged == [stamps |-> w.stamps \cup {stamp},
                       value |-> w.value + c.value,
                       risk |-> w.risk + c.risk,
                       sensitive |-> w.sensitive + c.sensitive]
           v == Prune(charged, t)
           L == log[s] \cup {stamp}
<1>1. /\ section[th].in
      /\ appended' = appended + 1
      /\ windows' = [windows EXCEPT ![s] = v]
      /\ log' = [log EXCEPT ![s] = L]
      /\ Evaluate(s, v, t)
      /\ Release(th)
      /\ UNCHANGED clock
  BY DEF Record
<1>2. /\ clock \in Nat /\ appended \in Nat
      /\ section \in [Thread -> [in : BOOLEAN, at : Nat]]
      /\ windows[s] \in WindowType
      /\ log[s] \in SUBSET Stamps
  BY DEF VelocityInv, VelocityTypeOK, WindowType
<1>3. t \in Nat
  BY <1>2
<1>4. c \in [value : Nat, risk : Nat, sensitive : {0, 1}]
  BY VelocityAssumption DEF ChargeType
<1>5. c.value \in Nat /\ c.risk \in Nat /\ c.sensitive \in Nat
  BY <1>4
<1>6. stamp \in Stamps
  BY <1>2, <1>3 DEF Stamps
<1>7. \A d \in log[s] : d.id \in Nat /\ d.at \in Nat /\ d.id <= appended /\ d.at <= t
  <2>1. \A d \in log[s] : d.id \in Nat /\ d.at \in Nat
    BY <1>2 DEF Stamps
  <2> QED
    BY <1>1, <2>1 DEF VelocityInv, StampsInOrder, OneInside
<1>8. windows[s].stamps \subseteq log[s] /\ Ordered(log[s]) /\ IsFiniteSet(log[s])
  BY DEF VelocityInv, NothingLost, StampsInOrder
<1>9. stamp.id = appended + 1 /\ stamp.at = t
  OBVIOUS
<1>10. L \in SUBSET Stamps /\ IsFiniteSet(L) /\ log[s] \subseteq L
  <2> HIDE DEF stamp
  <2>1. IsFiniteSet(log[s] \cup {stamp})
    BY <1>8, FS_AddElement
  <2> QED
    BY <1>2, <1>6, <2>1
<1>11. Ordered(L)
  <2>1. ASSUME NEW d \in log[s]
        PROVE  d.at <= stamp.at /\ ~(stamp.id <= d.id)
    BY <1>2, <1>3, <1>7, <1>9
  <2>2. stamp.at <= stamp.at
    BY <1>3, <1>9
  <2> HIDE DEF stamp
  <2> QED
    BY <1>8, <2>1, <2>2 DEF Ordered
<1>12. \A d \in L : d.id <= appended' /\ d.at <= t
  <2>1. \A d \in log[s] : d.id <= appended + 1 /\ d.at <= t
    BY <1>2, <1>7
  <2>2. stamp.id <= appended + 1 /\ stamp.at <= t
    BY <1>2, <1>3, <1>9
  <2> HIDE DEF stamp, t
  <2> QED
    BY <1>1, <2>1, <2>2
<1>13. Ordered(windows[s].stamps)
  BY <1>8 DEF Ordered
<1>14. /\ w \in WindowType
       /\ w.stamps = Young(windows[s].stamps, t)
       /\ w.value = windows[s].value /\ w.risk = windows[s].risk
       /\ w.sensitive = windows[s].sensitive
  <2> HIDE DEF t
  <2> QED
    BY <1>2, <1>3, <1>13, PruneExact
<1> HIDE DEF t, stamp, w
<1>15. w.stamps \subseteq log[s]
  BY <1>8, <1>14 DEF Young
<1>16. charged \in WindowType
  <2>1. w.stamps \cup {stamp} \in SUBSET Stamps
    BY <1>2, <1>6, <1>15
  <2>2. w.value \in Nat /\ w.risk \in Nat /\ w.sensitive \in Nat
    BY <1>14 DEF WindowType
  <2>3. /\ w.value + c.value \in Nat /\ w.risk + c.risk \in Nat
        /\ w.sensitive + c.sensitive \in Nat
    BY <1>5, <2>2
  <2> QED
    BY <2>1, <2>3 DEF WindowType
<1>17. /\ charged.stamps = w.stamps \cup {stamp}
       /\ charged.value = w.value + c.value /\ charged.risk = w.risk + c.risk
       /\ charged.sensitive = w.sensitive + c.sensitive
  OBVIOUS
<1>18. Ordered(charged.stamps)
  BY <1>11, <1>15, <1>17 DEF Ordered
<1> HIDE DEF charged
<1>19. /\ v \in WindowType
       /\ v.stamps = Young(charged.stamps, t)
       /\ v.value = charged.value /\ v.risk = charged.risk
       /\ v.sensitive = charged.sensitive
  BY <1>3, <1>16, <1>18, PruneExact
<1> HIDE DEF v
<1>20. \A d \in log[s] : d \notin windows[s].stamps => d.at + WindowSeconds < t
  BY <1>1 DEF VelocityInv, NothingLost, t
<1>21. v.stamps = Young(L, t)
  <2>1. ASSUME NEW d \in log[s], t <= d.at + WindowSeconds
        PROVE  d \in windows[s].stamps
    BY <1>3, <1>7, <1>20, <2>1, VelocityAssumption
  <2>2. Young(log[s], t) \subseteq w.stamps
    BY <1>14, <2>1 DEF Young
  <2> QED
    BY <1>15, <1>17, <1>19, <2>2 DEF Young
<1>22. s \in tripped => OverSum(v)
  <2> SUFFICES ASSUME s \in tripped
               PROVE  OverSum(v)
    OBVIOUS
  <2>1. OverSum(windows[s])
    BY DEF VelocityInv, SumsStay
  <2>2. windows[s].value \in Nat /\ windows[s].risk \in Nat /\ windows[s].sensitive \in Nat
    BY <1>2 DEF WindowType
  <2>3. /\ windows[s].value <= v.value /\ windows[s].risk <= v.risk
        /\ windows[s].sensitive <= v.sensitive
    BY <1>5, <1>14, <1>17, <1>19, <2>2
  <2> QED
    BY <1>2, <1>19, <2>1, <2>3, OverSumGrows
<1> HIDE DEF L
<1>23. appended' \in Nat /\ appended <= appended'
  BY <1>1, <1>2
<1> QED
  BY <1>1, <1>10, <1>11, <1>12, <1>19, <1>20, <1>21, <1>22, <1>23, EvaluateStep DEF t

LEMMA GetStateStep ==
    ASSUME VelocityInv, NEW th \in Thread, NEW s \in Scope, GetState(th, s)
    PROVE  VelocityInv'
<1> DEFINE t == section[th].at
           w == Prune(windows[s], t)
<1>1. /\ section[th].in
      /\ windows' = [windows EXCEPT ![s] = w]
      /\ Evaluate(s, w, t)
      /\ Release(th)
      /\ UNCHANGED <<clock, appended, log>>
  BY DEF GetState
<1>2. /\ appended \in Nat
      /\ section \in [Thread -> [in : BOOLEAN, at : Nat]]
      /\ windows[s] \in WindowType
      /\ log \in [Scope -> SUBSET Stamps]
  BY DEF VelocityInv, VelocityTypeOK, WindowType
<1>3. t \in Nat
  BY <1>2
<1>4. /\ windows[s].stamps \subseteq log[s] /\ Ordered(log[s]) /\ IsFiniteSet(log[s])
      /\ \A c \in log[s] : c.id <= appended /\ c.at <= t
      /\ \A c \in log[s] : c \notin windows[s].stamps => c.at + WindowSeconds < t
  BY <1>1 DEF VelocityInv, NothingLost, StampsInOrder, OneInside
<1>5. Ordered(windows[s].stamps)
  BY <1>4 DEF Ordered
<1> HIDE DEF t
<1>6. /\ w \in WindowType
      /\ w.stamps = Young(windows[s].stamps, t)
      /\ w.value = windows[s].value /\ w.risk = windows[s].risk
      /\ w.sensitive = windows[s].sensitive
  BY <1>2, <1>3, <1>5, PruneExact
<1> HIDE DEF w
<1>7. w.stamps = Young(log[s], t)
  <2>1. ASSUME NEW c \in log[s], t <= c.at + WindowSeconds
        PROVE  c \in windows[s].stamps
    <3>1. c.at \in Nat
      BY <1>2 DEF Stamps
    <3> QED
      BY <1>3, <1>4, <2>1, <3>1, VelocityAssumption
  <2> QED
    BY <1>4, <1>6, <2>1 DEF Young
<1>8. s \in tripped => OverSum(w)
  BY <1>6 DEF VelocityInv, SumsStay, OverSum
<1>9. log' = [log EXCEPT ![s] = log[s]] /\ appended' = appended /\ appended <= appended'
  BY <1>1, <1>2
<1>10. log[s] \in SUBSET Stamps
  BY <1>2
<1>11. \A c \in log[s] : c.id <= appended' /\ c.at <= t
  BY <1>1, <1>4
<1> QED
  BY <1>1, <1>2, <1>4, <1>6, <1>7, <1>8, <1>9, <1>10, <1>11, EvaluateStep DEF t

\* After a step without an answer that empties some scopes and opens the section
\* to no one.
LEMMA ClearStep ==
    ASSUME VelocityInv, NEW S \in SUBSET Scope, NEW th \in Thread,
           section' = [section EXCEPT ![th] = Outside] \/ section' = [o \in Thread |-> Outside],
           windows' = [s \in Scope |-> IF s \in S THEN EmptyWindow ELSE windows[s]],
           log' = [s \in Scope |-> IF s \in S THEN {} ELSE log[s]],
           tripped' = tripped \ S,
           answer' = NoAnswer,
           UNCHANGED clock,
           appended' = appended \/ (appended' = 0 /\ S = Scope)
    PROVE  VelocityInv'
<1>1. /\ clock \in Nat /\ appended \in Nat
      /\ section \in [Thread -> [in : BOOLEAN, at : Nat]]
      /\ windows \in [Scope -> WindowType]
      /\ log \in [Scope -> SUBSET Stamps]
      /\ tripped \in SUBSET Scope
  BY DEF VelocityInv, VelocityTypeOK, WindowType
<1>2. EmptyWindow \in WindowType /\ EmptyWindow.stamps = {}
  BY DEF EmptyWindow, WindowType
<1>3. \A o \in Thread : section'[o] = section[o] \/ section'[o] = Outside
  BY <1>1
<1>4. \A o \in Thread : section'[o].in => section'[o] = section[o]
  BY <1>3 DEF Outside
<1>5. \A s \in Scope : \/ s \in S /\ windows'[s] = EmptyWindow /\ log'[s] = {}
                       \/ s \notin S /\ windows'[s] = windows[s] /\ log'[s] = log[s]
  OBVIOUS
<1>6. VelocityTypeOK'
  <2>1. section' \in [Thread -> [in : BOOLEAN, at : Nat]]
    <3>1. Outside \in [in : BOOLEAN, at : Nat]
      BY DEF Outside
    <3>2. CASE section' = [section EXCEPT ![th] = Outside]
      BY <1>1, <3>1, <3>2
    <3>3. CASE section' = [o \in Thread |-> Outside]
      BY <3>1, <3>3
    <3> QED
      BY <3>2, <3>3
  <2>2. windows' \in [Scope -> WindowType]
    BY <1>1, <1>2
  <2>3. log' \in [Scope -> SUBSET Stamps]
    BY <1>1
  <2> QED
    BY <1>1, <2>1, <2>2, <2>3 DEF VelocityTypeOK, WindowType
<1>7. OneInside'
  <2>1. \A s \in Scope : log'[s] \subseteq log[s]
    BY <1>5
  <2> QED
    BY <1>4, <2>1 DEF VelocityInv, OneInside
<1>8. StampsInOrder'
  <2>1. ASSUME NEW s \in Scope
        PROVE  IsFiniteSet(log'[s]) /\ Ordered(log'[s])
               /\ \A c \in log'[s] : c.id <= appended' /\ c.at <= clock'
    <3>1. CASE log'[s] = {}
      BY <3>1, FS_EmptySet DEF Ordered
    <3>2. CASE s \notin S /\ log'[s] = log[s]
      BY <3>2 DEF VelocityInv, StampsInOrder
    <3> QED
      BY <1>5, <3>1, <3>2
  <2> QED
    BY <2>1 DEF StampsInOrder, Ordered
<1>9. NothingLost'
  <2>1. ASSUME NEW s \in Scope
        PROVE  /\ windows'[s].stamps \subseteq log'[s]
               /\ \A c \in log'[s] : c \notin windows'[s].stamps =>
                      /\ c.at + WindowSeconds < clock'
                      /\ \A o \in Thread : section'[o].in => c.at + WindowSeconds < section'[o].at
    <3>1. CASE windows'[s] = EmptyWindow /\ log'[s] = {}
      BY <1>2, <3>1
    <3>2. CASE windows'[s] = windows[s] /\ log'[s] = log[s]
      BY <1>4, <3>2 DEF VelocityInv, NothingLost
    <3> QED
      BY <1>5, <3>1, <3>2
  <2> QED
    BY <2>1 DEF NothingLost
<1>10. \A s \in tripped' : OverSum(windows'[s])
  BY <1>1, <1>5 DEF VelocityInv, SumsStay
<1>11. SumsStay'
  BY <1>10 DEF SumsStay, OverSum
<1>12. WindowExact' /\ BlockedUntilReset'
  BY DEF WindowExact, BlockedUntilReset, NoAnswer
<1> QED
  BY <1>6, <1>7, <1>8, <1>9, <1>11, <1>12 DEF VelocityInv

LEMMA VelocityInitInv == VelocityInit => VelocityInv
<1> SUFFICES ASSUME VelocityInit
             PROVE  VelocityInv
  OBVIOUS
<1> USE DEF VelocityInit
<1>1. \A s \in Scope : log[s] = {} /\ windows[s].stamps = {}
  BY DEF EmptyWindow
<1>2. VelocityTypeOK
  <2>1. EmptyWindow \in WindowType
    BY DEF EmptyWindow, WindowType
  <2> QED
    BY <2>1 DEF VelocityTypeOK, Outside, WindowType
<1>3. OneInside
  BY DEF OneInside, Outside
<1>4. StampsInOrder
  BY <1>1, FS_EmptySet DEF StampsInOrder, Ordered
<1>5. NothingLost
  BY <1>1 DEF NothingLost
<1>6. SumsStay /\ WindowExact /\ BlockedUntilReset
  BY DEF SumsStay, WindowExact, BlockedUntilReset, NoAnswer
<1> QED
  BY <1>2, <1>3, <1>4, <1>5, <1>6 DEF VelocityInv

LEMMA VelocityNextInv == VelocityInv /\ [VelocityNext]_velocityVars => VelocityInv'
<1> SUFFICES ASSUME VelocityInv, [VelocityNext]_velocityVars
             PROVE  VelocityInv'
  OBVIOUS
<1>1. /\ clock \in Nat
      /\ section \in [Thread -> [in : BOOLEAN, at : Nat]]
      /\ log \in [Scope -> SUBSET Stamps]
  BY DEF VelocityInv, VelocityTypeOK
<1>2. \A s \in Scope : \A c \in log[s] : c.at \in Nat
  BY <1>1 DEF Stamps
<1>3. \A th \in Thread : section[th].at \in Nat
  BY <1>1
<1>4. ASSUME ClockTick
      PROVE  VelocityInv'
  <2>1. clock' = clock + 1 /\ UNCHANGED <<section, appended, windows, log, tripped, answer>>
    BY <1>4 DEF ClockTick
  <2>2. VelocityTypeOK'
    BY <1>1, <2>1 DEF VelocityInv, VelocityTypeOK
  <2>3. OneInside'
    <3>1. \A th \in Thread : section[th].at <= clock => section[th].at <= clock'
      BY <1>1, <1>3, <2>1
    <3> QED
      BY <2>1, <3>1 DEF VelocityInv, OneInside
  <2>4. StampsInOrder'
    <3>1. \A s \in Scope : \A c \in log[s] : c.at <= clock => c.at <= clock'
      BY <1>1, <1>2, <2>1
    <3> QED
      BY <2>1, <3>1 DEF VelocityInv, StampsInOrder, Ordered
  <2>5. NothingLost'
    <3>1. \A s \in Scope : \A c \in log[s] :
              c.at + WindowSeconds < clock => c.at + WindowSeconds < clock'
      BY <1>1, <1>2, <2>1, VelocityAssumption
    <3> QED
      BY <2>1, <3>1 DEF VelocityInv, NothingLost
  <2>6. SumsStay' /\ WindowExact' /\ BlockedUntilReset'
    BY <2>1 DEF VelocityInv, SumsStay, OverSum, WindowExact, BlockedUntilReset
  <2> QED
    BY <2>2, <2>3, <2>4, <2>5, <2>6 DEF VelocityInv
<1>5. ASSUME NEW th \in Thread, Acquire(th)
      PROVE  VelocityInv'
  <2>1. /\ \A o \in Thread : ~section[o].in
        /\ section' = [section EXCEPT ![th] = [in |-> TRUE, at |-> clock]]
        /\ UNCHANGED <<clock, appended, windows, log, tripped, answer>>
    BY <1>5 DEF Acquire
  <2>2. section'[th] = [in |-> TRUE, at |-> clock]
        /\ \A o \in Thread : o # th => section'[o] = section[o]
    BY <1>1, <2>1
  <2>3. VelocityTypeOK'
    <3>1. section' \in [Thread -> [in : BOOLEAN, at : Nat]]
      BY <1>1, <2>1
    <3> QED
      BY <2>1, <3>1 DEF VelocityInv, VelocityTypeOK
  <2>4. \A o \in Thread : section'[o].in => o = th /\ section'[o].at = clock
    BY <2>1, <2>2
  <2>5. OneInside'
    <3>1. \A s \in Scope : \A c \in log[s] : c.at <= clock
      BY DEF VelocityInv, StampsInOrder
    <3> QED
      BY <1>1, <2>1, <2>4, <3>1 DEF OneInside
  <2>6. StampsInOrder'
    BY <2>1 DEF VelocityInv, StampsInOrder, Ordered
  <2>7. NothingLost'
    BY <2>1, <2>4 DEF VelocityInv, NothingLost
  <2>8. SumsStay' /\ WindowExact' /\ BlockedUntilReset'
    BY <2>1 DEF VelocityInv, SumsStay, OverSum, WindowExact, BlockedUntilReset
  <2> QED
    BY <2>3, <2>5, <2>6, <2>7, <2>8 DEF VelocityInv
<1>6. ASSUME NEW th \in Thread, NEW S \in SUBSET Scope, Reset(th, S)
      PROVE  VelocityInv'
  BY <1>6, ClearStep DEF Reset, Release
<1>7. ASSUME RestartTracker
      PROVE  VelocityInv'
  <2>1. CASE Thread = {}
    <3>1. /\ clock' = clock /\ answer' = NoAnswer /\ tripped' = {} /\ appended' = 0
          /\ section' = [o \in Thread |-> Outside]
          /\ windows' = [s \in Scope |-> EmptyWindow]
          /\ log' = [s \in Scope |-> {}]
      BY <1>7 DEF RestartTracker
    <3>2. \A s \in Scope : log'[s] = {} /\ windows'[s].stamps = {}
      BY <3>1 DEF EmptyWindow
    <3>3. VelocityTypeOK'
      BY <1>1, <3>1 DEF VelocityTypeOK, EmptyWindow, Outside
    <3>4. OneInside' /\ NothingLost'
      BY <2>1, <3>2 DEF OneInside, NothingLost
    <3>5. StampsInOrder'
      BY <3>2, FS_EmptySet DEF StampsInOrder, Ordered
    <3>6. SumsStay' /\ WindowExact' /\ BlockedUntilReset'
      BY <3>1 DEF SumsStay, WindowExact, BlockedUntilReset, NoAnswer
    <3> QED
      BY <3>3, <3>4, <3>5, <3>6 DEF VelocityInv
  <2>2. ASSUME NEW th \in Thread
        PROVE  VelocityInv'
    <3>1. tripped \in SUBSET Scope
      BY DEF VelocityInv, VelocityTypeOK
    <3>2. /\ clock' = clock /\ answer' = NoAnswer /\ tripped' = tripped \ Scope /\ appended' = 0
          /\ section' = [o \in Thread |-> Outside]
          /\ windows' = [s \in Scope |-> IF s \in Scope THEN EmptyWindow ELSE windows[s]]
          /\ log' = [s \in Scope |-> IF s \in Scope THEN {} ELSE log[s]]
      BY <1>7, <3>1 DEF RestartTracker
    <3> QED
      BY <3>2, ClearStep
  <2> QED
    BY <2>1, <2>2
<1>8. CASE UNCHANGED velocityVars
  BY <1>8 DEF velocityVars, VelocityInv, VelocityTypeOK, OneInside, StampsInOrder, Ordered,
              NothingLost, SumsStay, OverSum, WindowExact, BlockedUntilReset
<1> QED
  <2>1. \A s \in Scope : {s} \in SUBSET Scope
    OBVIOUS
  <2> QED
    BY <1>4, <1>5, <1>6, <1>7, <1>8, <2>1, RecordStep, GetStateStep DEF VelocityNext

----------------------------------------------------------------------------

\* The inductive invariant of the velocity tracker: deques hold their stamps in the
\* order of their times, and what has left them is too old for every later answer.
THEOREM VelocityInvariance == VelocitySpec => []VelocityInv
<1> QED
  BY VelocityInitInv, VelocityNextInv, PTL DEF VelocitySpec

\* VelocityTracker answers with the exact number of requests of the closed window
\* that ends at the time it read, for any number of threads and scopes.
THEOREM WindowTheorem == VelocitySpec => []WindowExact
<1>1. VelocityInv => WindowExact
  BY DEF VelocityInv
<1> QED
  BY <1>1, VelocityInvariance, PTL

\* A scope that VelocityTracker blocked for a sum stays blocked until it is reset.
THEOREM BlockedTheorem == VelocitySpec => []BlockedUntilReset
<1>1. VelocityInv => BlockedUntilReset
  BY DEF VelocityInv
<1> QED
  BY <1>1, VelocityInvariance, PTL


=============================================================================
