--------------------------- MODULE ExecutionToken ---------------------------
(* The life of an execution token: issued by POST /intent/verify, presented   *)
(* to POST /intent/execute at any gateway process, its nonce (jti) consumed   *)
(* in the process's own L1 store and in the Redis L2 store they share.        *)
(*                                                                            *)
(* One event loop runs the handlers of a process, and the handlers contain no *)
(* await, so a process has one /intent/execute in hand at a time; the steps   *)
(* of different processes interleave between the check of the deadline, the   *)
(* SET in Redis, the L1 record and the reply.  A request that is refused      *)
(* before it reaches Redis changes nothing modelled here (it writes a log     *)
(* line and counts a metric), so it is a stuttering step.                     *)
(*                                                                            *)
(* A point in time is a record [s, f]: whole seconds and a fraction.  Deadlines *)
(* of tokens are whole seconds (int(time.time()) + ttl), expiries of nonces   *)
(* keep the fraction at which they were recorded.  All clocks are one clock.  *)
EXTENDS Naturals, FiniteSets

CONSTANTS Instance,     \* gateway processes
          Token,        \* execution tokens, one jti each
          User,         \* authenticated callers
          TTL,          \* settings.execution_token_ttl_seconds
          Production,   \* settings.app_env = "production"
          MaxEntries,   \* MemoryNonceStore(max_entries)
          Fractions,    \* instants per second told apart
          MaxSec        \* bound on the clock

ASSUME TokenAssumption == /\ TTL \in Nat \ {0}
                          /\ Production \in BOOLEAN
                          /\ MaxEntries \in Nat \ {0}
                          /\ Fractions \in Nat \ {0}
                          /\ MaxSec \in Nat
ASSUME NoUserAssumption == "nobody" \notin User

VARIABLES now,      \* the time
          exp,      \* exp[t]: the exp claim, 0 while t is not issued
          sub,      \* sub[t]: the sub claim
          l2,       \* l2[t]: when the Redis key nonce:<jti> expires
          mode,     \* mode[i]: which nonce store process i built (Boot)
          l1,       \* l1[i][t]: the L1 entry of t at process i
          req,      \* req[i]: the /intent/execute request process i handles
          early,    \* history: acceptances of t before its deadline
          late,     \* history: acceptances of t at or after its deadline
          mine,     \* history: early acceptances by the stores process i keeps
          executed  \* history: "executed" replies sent for t

vars == <<now, exp, sub, l2, mode, l1, req, early, late, mine, executed>>

Time == [s : Nat, f : 0 .. Fractions - 1]
Never == [s |-> 0, f |-> 0]
NoEntry == [until |-> Never, age |-> 0]
Idle == [phase |-> "idle"]
Request == [phase : {"l2", "l1", "reply"}, tok : Token, user : User, ttl : Nat]

\* An entry or key with expiry u is there as long as u is in the future.
Live(u) == now.s < u.s \/ (now.s = u.s /\ now.f < u.f)

----------------------------------------------------------------------------
(* Mutated forms of definitions below, used to check that the properties are  *)
(* sensitive to the code they are about.                                      *)

\* The nonce is kept for one second, however long the token lasts.
ShortNonceTtl(t) == 1

\* A production process that finds Redis away runs on L1 alone.
DegradedStore == {"local"}

\* The L1 store is never consulted.
BlindSeen(i, t) == FALSE

\* The refusal of L2 is ignored and the request goes on.
RefusalIgnored(i) ==
    /\ req[i].phase = "l2"
    /\ req' = [req EXCEPT ![i].phase = "l1"]
    /\ UNCHANGED <<now, exp, sub, l2, mode, l1, early, late, mine, executed>>

----------------------------------------------------------------------------

\* now + ttl seconds, for L1 and (EX ttl) for L2.
In(ttl) == [s |-> now.s + ttl, f |-> now.f]

Init == /\ now = [s |-> 0, f |-> 0]
        /\ exp = [t \in Token |-> 0]
        /\ sub = [t \in Token |-> "nobody"]
        /\ l2 = [t \in Token |-> Never]
        /\ mode = [i \in Instance |-> "unset"]
        /\ l1 = [i \in Instance |-> [t \in Token |-> NoEntry]]
        /\ req = [i \in Instance |-> Idle]
        /\ early = [t \in Token |-> 0]
        /\ late = [t \in Token |-> 0]
        /\ mine = [i \in Instance |-> [t \in Token |-> 0]]
        /\ executed = [t \in Token |-> 0]

\* Time passes.
Tick == /\ now.s < MaxSec
        /\ now' = IF now.f + 1 < Fractions THEN [now EXCEPT !.f = @ + 1]
                                           ELSE [s |-> now.s + 1, f |-> 0]
        /\ UNCHANGED <<exp, sub, l2, mode, l1, req, early, late, mine, executed>>

----------------------------------------------------------------------------
(* The stores of a process, built on its first request and cached for its life *)

\* The stores a process may end up with when its ping of Redis fails.
StoreWithoutRedis == IF Production THEN {"cut"} ELSE {"local"}

\* get_nonce_store: the first request builds the client, which pings Redis once;
\* "redis": L1 and a working L2; "cut": an L2 whose client was disabled for good;
\* "local": L1 alone.
Boot(i) == /\ mode[i] = "unset"
           /\ \E m \in {"redis"} \cup StoreWithoutRedis : mode' = [mode EXCEPT ![i] = m]
           /\ UNCHANGED <<now, exp, sub, l2, l1, req, early, late, mine, executed>>

\* The process dies and is started again: what it kept in memory is gone.
Crash(i) == /\ mode[i] # "unset"
            /\ mode' = [mode EXCEPT ![i] = "unset"]
            /\ l1' = [l1 EXCEPT ![i] = [t \in Token |-> NoEntry]]
            /\ req' = [req EXCEPT ![i] = Idle]
            /\ mine' = [mine EXCEPT ![i] = [t \in Token |-> 0]]
            /\ UNCHANGED <<now, exp, sub, l2, early, late, executed>>

\* create_execution_token, for a permitted action of user u.
Issue(i, t, u) == /\ mode[i] # "unset"
                  /\ req[i] = Idle
                  /\ exp[t] = 0
                  /\ exp' = [exp EXCEPT ![t] = now.s + TTL]
                  /\ sub' = [sub EXCEPT ![t] = u]
                  /\ UNCHANGED <<now, l2, mode, l1, req, early, late, mine, executed>>

----------------------------------------------------------------------------
(* POST /intent/execute                                                       *)

\* "if int(exp) < int(time.time())": the token passes through its last second.
Expired(t) == exp[t] < now.s

\* max(int(exp) - int(time.time()), 1)
NonceTtl(t) == IF exp[t] > now.s + 1 THEN exp[t] - now.s ELSE 1

\* MemoryNonceStore.is_consumed, after its purge of expired entries.
Seen(i, t) == Live(l1[i][t].until)

\* verify_execution_token up to the L2 call, with any token a caller holds.
Check(i, t, u) ==
    /\ mode[i] # "unset"
    /\ req[i] = Idle
    /\ exp[t] # 0
    /\ ~Expired(t)
    /\ ~Seen(i, t)
    /\ req' = [req EXCEPT ![i] = [phase |-> IF mode[i] = "local" THEN "l1" ELSE "l2",
                                  tok |-> t, user |-> u, ttl |-> NonceTtl(t)]]
    /\ UNCHANGED <<now, exp, sub, l2, mode, l1, early, late, mine, executed>>

\* The acceptance of token t by the stores process i keeps, in the history variables.
Accept(i, t) ==
    IF now.s < exp[t]
    THEN /\ early' = [early EXCEPT ![t] = @ + 1]
         /\ mine' = [mine EXCEPT ![i][t] = @ + 1]
         /\ late' = late
    ELSE /\ late' = [late EXCEPT ![t] = @ + 1]
         /\ UNCHANGED <<early, mine>>

\* SET nonce:<jti> NX EX ttl finds no key, and the reply arrives.
SetAccepted(i) ==
    /\ req[i].phase = "l2"
    /\ mode[i] = "redis"
    /\ ~Live(l2[req[i].tok])
    /\ l2' = [l2 EXCEPT ![req[i].tok] = In(req[i].ttl)]
    /\ req' = [req EXCEPT ![i].phase = "l1"]
    /\ Accept(i, req[i].tok)
    /\ UNCHANGED <<now, exp, sub, mode, l1, executed>>

\* The key is set but the connection breaks before the reply: the caller is told
\* that the token was used.
SetReplyLost(i) ==
    /\ req[i].phase = "l2"
    /\ mode[i] = "redis"
    /\ ~Live(l2[req[i].tok])
    /\ l2' = [l2 EXCEPT ![req[i].tok] = In(req[i].ttl)]
    /\ req' = [req EXCEPT ![i] = Idle]
    /\ UNCHANGED <<now, exp, sub, mode, l1, early, late, mine, executed>>

\* The key exists, or Redis cannot be reached (always, in mode "cut"): refused.
SetRefused(i) ==
    /\ req[i].phase = "l2"
    /\ req' = [req EXCEPT ![i] = Idle]
    /\ UNCHANGED <<now, exp, sub, l2, mode, l1, early, late, mine, executed>>

\* MemoryNonceStore._evict_overflow: the first entry in insertion order.
OldestEntry(i, S) == CHOOSE t \in S : \A u \in S : l1[i][u].age <= l1[i][t].age

\* MemoryNonceStore.consume: purge, record unless present, evict on overflow.
Remember(i, t, ttl) ==
    LET live == {u \in Token : Live(l1[i][u].until)}
        kept == IF Cardinality(live) < MaxEntries THEN live
                                                  ELSE live \ {OldestEntry(i, live)}
    IN  IF t \in live THEN l1[i]
        ELSE [u \in Token |->
                IF u = t THEN [until |-> In(ttl), age |-> 0]
                ELSE IF u \in kept THEN [l1[i][u] EXCEPT !.age = @ + 1]
                ELSE NoEntry]

\* The record in L1, whose result the composite store ignores.
Record(i) ==
    /\ req[i].phase = "l1"
    /\ l1' = [l1 EXCEPT ![i] = Remember(i, req[i].tok, req[i].ttl)]
    /\ req' = [req EXCEPT ![i].phase = "reply"]
    /\ IF mode[i] = "local" THEN Accept(i, req[i].tok) ELSE UNCHANGED <<early, late, mine>>
    /\ UNCHANGED <<now, exp, sub, l2, mode, executed>>

\* The token was issued to the caller: logged as EXECUTED and answered.
Execute(i) ==
    /\ req[i].phase = "reply"
    /\ sub[req[i].tok] = req[i].user
    /\ executed' = [executed EXCEPT ![req[i].tok] = @ + 1]
    /\ req' = [req EXCEPT ![i] = Idle]
    /\ UNCHANGED <<now, exp, sub, l2, mode, l1, early, late, mine>>

\* Another user's token (403 SUBJECT_MISMATCH), or the log cannot be written
\* (500): the nonce stays consumed.
FailAfterConsume(i) ==
    /\ req[i].phase = "reply"
    /\ req' = [req EXCEPT ![i] = Idle]
    /\ UNCHANGED <<now, exp, sub, l2, mode, l1, early, late, mine, executed>>

Next == \/ Tick
        \/ \E i \in Instance : \/ Boot(i) \/ Crash(i)
                               \/ SetAccepted(i) \/ SetReplyLost(i) \/ SetRefused(i)
                               \/ Record(i) \/ Execute(i) \/ FailAfterConsume(i)
        \/ \E i \in Instance, t \in Token, u \in User : Issue(i, t, u) \/ Check(i, t, u)

Spec == Init /\ [][Next]_vars

----------------------------------------------------------------------------
(* Properties                                                                 *)

\* Every variable has its type.
TypeOK == /\ now \in Time
          /\ exp \in [Token -> Nat]
          /\ sub \in [Token -> User \cup {"nobody"}]
          /\ l2 \in [Token -> Time]
          /\ mode \in [Instance -> {"unset", "redis", "cut", "local"}]
          /\ l1 \in [Instance -> [Token -> [until : Time, age : Nat]]]
          /\ req \in [Instance -> {Idle} \cup Request]
          /\ early \in [Token -> Nat]
          /\ late \in [Token -> Nat]
          /\ mine \in [Instance -> [Token -> Nat]]
          /\ executed \in [Token -> Nat]

\* In production a token is accepted at most once before its deadline, whatever
\* the processes, their restarts, the overflow of L1 and the failures of Redis
\* do (CompositeNonceStore.consume with RedisNonceStore as L2).
SingleUseBeforeDeadline == Production => \A t \in Token : early[t] <= 1

\* L1 only caches L2: what a process with a Redis store remembers before the
\* deadline, Redis still holds; L1 never refuses what L2 would have accepted.
CacheCoherent ==
    \A i \in Instance, t \in Token :
        (mode[i] = "redis" /\ Live(l1[i][t].until) /\ now.s < exp[t]) => Live(l2[t])

\* Every "executed" reply is backed by an acceptance of its own: replies sent and
\* requests that passed the nonce store never outnumber the acceptances.
ExecutionBacked ==
    \A t \in Token :
        executed[t] + Cardinality({i \in Instance : req[i].phase = "reply" /\ req[i].tok = t})
            <= early[t] + late[t]

\* What the README says of a token: it is consumed exactly once, so one token is
\* never the ground of two "executed" replies.
ConsumedOnce == \A t \in Token : executed[t] <= 1

\* A token of this module, seen as a token of SingleUse: it is spent once its key
\* covers its deadline or the deadline has come.
AbstractState == [t \in Token |-> IF exp[t] = 0 THEN "unissued"
                                  ELSE IF l2[t].s >= exp[t] \/ now.s >= exp[t] THEN "spent"
                                  ELSE "usable"]

Abstract == INSTANCE SingleUse WITH state <- AbstractState, uses <- early

\* In production the stores implement single use: every step accepts a usable
\* token and spends it, or leaves acceptances alone and makes no token usable.
ImplementsSingleUse == Abstract!Spec

=============================================================================
