------------------------------ MODULE RateLimit ------------------------------
(* The limit on the requests of one client to one route: counters in Redis    *)
(* that all processes share, or, outside production and without Redis, a list  *)
(* of timestamps in each process.  Counters of different clients and routes    *)
(* have different keys and do not touch each other.                           *)
(*                                                                            *)
(* dispatch contains no await before it calls the handler, so a process has   *)
(* one request in hand at a time; the clock, the INCR, the EXPIRE and the     *)
(* reply of different processes interleave, and each command to Redis may be  *)
(* lost on the way there or on the way back.  Redis loses nothing itself.     *)
(*                                                                            *)
(* A point in time is a record [w, s]: the fixed window (time // Window) and  *)
(* the second in it.  Fractions of seconds are left out; all clocks are one.  *)
EXTENDS Naturals, FiniteSets

CONSTANTS Instance,     \* gateway processes
          MaxCalls,     \* the limit of the route
          Window,       \* WINDOW_SECONDS
          MaxWindow,    \* bound on the clock
          MaxRequests   \* bound on the requests

ASSUME LimitAssumption == /\ MaxCalls \in Nat \ {0}
                          /\ Window \in Nat \ {0}
                          /\ MaxWindow \in Nat
                          /\ MaxRequests \in Nat

VARIABLES now,      \* the time
          env,      \* settings.app_env of this deployment
          mode,     \* mode[i]: what process i found when it looked for Redis
          key,      \* key[w]: the Redis counter of window w
          req,      \* req[i]: the request process i is checking
          stamps,   \* stamps[i]: request_counts of process i, as a set of stamps
          asked,    \* the number of requests so far
          passed,   \* history: requests of window w counted in it, within the limit
          late,     \* history: requests of window w counted after it, within the limit
          refused,  \* history: the windows in which a request was answered 429
          leaks,    \* history: requests that ended between their INCR and EXPIRE
          calls     \* history: the stamps of requests process i admitted by its list

vars == <<now, env, mode, key, req, stamps, asked, passed, late, refused, leaks, calls>>
redisVars == <<key, passed, late, refused, leaks>>
listVars == <<stamps, calls>>

WindowId == 0 .. MaxWindow
Time == [w : WindowId, s : 0 .. Window - 1]
Stamp == [id : Nat, at : Time]
Idle == [phase |-> "idle"]
Request == [phase : {"incr", "expire", "reply"}, win : WindowId, n : Nat]

\* A counter: its value (0: there is none) and, if bounded, when it expires.
Counter == [n : Nat, bounded : BOOLEAN, w : Nat, s : 0 .. Window - 1]
Fresh(n) == [n |-> n, bounded |-> FALSE, w |-> 0, s |-> 0]
Alive(k) == k.n > 0 /\ (k.bounded => now.w < k.w \/ (now.w = k.w /\ now.s < k.s))

----------------------------------------------------------------------------
(* Mutated forms of definitions below, used to check that the properties are  *)
(* sensitive to the code they are about.                                      *)

\* "count > limit + 1" refuses.
WithinPlusOne(n) == n <= MaxCalls + 1

\* "count >= limit" refuses.
BelowLimit(n) == n < MaxCalls

\* The expiry of a counter is forgotten.
NoExpiry(k) == k

\* The list of a process forgets a request when the fixed window changes.
KeptOfWindow(i) == {c \in stamps[i] : c.at.w = now.w}

----------------------------------------------------------------------------

Init == /\ now = [w |-> 0, s |-> 0]
        /\ env \in {"development", "production"}
        /\ mode = [i \in Instance |-> "unset"]
        /\ key = [w \in WindowId |-> Fresh(0)]
        /\ req = [i \in Instance |-> Idle]
        /\ stamps = [i \in Instance |-> {}]
        /\ asked = 0
        /\ passed = [w \in WindowId |-> 0]
        /\ late = [w \in WindowId |-> 0]
        /\ refused = {}
        /\ leaks = 0
        /\ calls = [i \in Instance |-> {}]

Tick == /\ \/ /\ now.s + 1 < Window
              /\ now' = [w |-> now.w, s |-> now.s + 1]
           \/ /\ now.s + 1 = Window
              /\ now.w < MaxWindow
              /\ now' = [w |-> now.w + 1, s |-> 0]
        /\ UNCHANGED <<env, mode, req, asked, redisVars, listVars>>

\* _get_redis_limiter, at the first limited request of a process: with Redis; or
\* without it, which production answers with 503 from then on ("none").
Boot(i) == /\ mode[i] = "unset"
           /\ \E m \in {"redis", IF env = "production" THEN "none" ELSE "list"} :
                  mode' = [mode EXCEPT ![i] = m]
           /\ UNCHANGED <<now, env, req, asked, redisVars, listVars>>

\* The request of process i ends, and no EXPIRE follows its INCR.
LeaksAfter(i) == IF req[i].phase = "expire" THEN leaks + 1 ELSE leaks

\* The process dies and is started again.
Crash(i) == /\ mode[i] # "unset"
            /\ mode' = [mode EXCEPT ![i] = "unset"]
            /\ req' = [req EXCEPT ![i] = Idle]
            /\ stamps' = [stamps EXCEPT ![i] = {}]
            /\ calls' = [calls EXCEPT ![i] = {}]
            /\ leaks' = LeaksAfter(i)
            /\ UNCHANGED <<now, env, key, asked, passed, late, refused>>

----------------------------------------------------------------------------
(* RedisRateLimiter.check                                                     *)

\* window_id = int(time.time() // self._window_seconds)
ReadClock(i) == /\ mode[i] = "redis"
                /\ req[i] = Idle
                /\ asked < MaxRequests
                /\ asked' = asked + 1
                /\ req' = [req EXCEPT ![i] = [phase |-> "incr", win |-> now.w, n |-> 0]]
                /\ UNCHANGED <<now, env, mode, redisVars, listVars>>

\* INCR: a missing counter is made, without an expiry.
Incremented(k) == IF Alive(k) THEN [k EXCEPT !.n = @ + 1] ELSE Fresh(1)

\* "count > limit" refuses.
Within(n) == n <= MaxCalls

\* Redis counts a request of window w.
Count(w) ==
    /\ key' = [key EXCEPT ![w] = Incremented(@)]
    /\ IF ~Within(key'[w].n) THEN UNCHANGED <<passed, late>>
       ELSE IF now.w = w THEN passed' = [passed EXCEPT ![w] = @ + 1] /\ late' = late
       ELSE late' = [late EXCEPT ![w] = @ + 1] /\ passed' = passed

Incr(i) == /\ req[i].phase = "incr"
           /\ Count(req[i].win)
           /\ req' = [req EXCEPT ![i].phase = "expire", ![i].n = key'[req[i].win].n]
           /\ UNCHANGED <<now, env, mode, asked, refused, leaks, listVars>>

\* The reply to INCR is lost: 503, and no EXPIRE.
IncrLost(i) == /\ req[i].phase = "incr"
               /\ Count(req[i].win)
               /\ req' = [req EXCEPT ![i] = Idle]
               /\ leaks' = leaks + 1
               /\ UNCHANGED <<now, env, mode, asked, refused, listVars>>

\* The counter is given a whole window from now.
Bounded(k) == [n |-> k.n, bounded |-> TRUE, w |-> now.w + 1, s |-> now.s]

\* EXPIRE, and its reply, or 503 if the reply is lost.
Expire(i) == /\ req[i].phase = "expire"
             /\ LET k == key[req[i].win]
                IN  key' = [key EXCEPT ![req[i].win] = IF Alive(k) THEN Bounded(k) ELSE k]
             /\ \/ req' = [req EXCEPT ![i].phase = "reply"]
                \/ req' = [req EXCEPT ![i] = Idle]
             /\ UNCHANGED <<now, env, mode, asked, passed, late, refused, leaks, listVars>>

\* The command does not reach Redis: RedisUnavailableError, answered with 503.
RedisFails(i) == /\ req[i].phase \in {"incr", "expire"}
                 /\ req' = [req EXCEPT ![i] = Idle]
                 /\ leaks' = LeaksAfter(i)
                 /\ UNCHANGED <<now, env, mode, key, asked, passed, late, refused, listVars>>

\* The request goes on to its handler, or is answered 429 with a Retry-After.
Reply(i) == /\ req[i].phase = "reply"
            /\ refused' = IF Within(req[i].n) THEN refused ELSE refused \cup {req[i].win}
            /\ req' = [req EXCEPT ![i] = Idle]
            /\ UNCHANGED <<now, env, mode, key, asked, passed, late, leaks, listVars>>

----------------------------------------------------------------------------

\* "now - timestamp < window"
Recent(c) == c.at.w = now.w \/ (c.at.w + 1 = now.w /\ now.s < c.at.s)

\* The requests of the last window, in the list of the process.
Kept(i) == {c \in stamps[i] : Recent(c)}

\* The in-memory fallback, in which a refused request counts as well.
CheckList(i) ==
    LET stamp == [id |-> asked + 1, at |-> now]
    IN  /\ mode[i] = "list"
        /\ asked < MaxRequests
        /\ asked' = asked + 1
        /\ stamps' = [stamps EXCEPT ![i] = Kept(i) \cup {stamp}]
        /\ calls' = IF Within(Cardinality(stamps'[i]))
                    THEN [calls EXCEPT ![i] = @ \cup {stamp}] ELSE calls
        /\ UNCHANGED <<now, env, mode, req, redisVars>>

Next == \/ Tick
        \/ \E i \in Instance : \/ Boot(i) \/ Crash(i)
                               \/ ReadClock(i) \/ Incr(i) \/ IncrLost(i) \/ Expire(i)
                               \/ RedisFails(i) \/ Reply(i)
                               \/ CheckList(i)

Spec == Init /\ [][Next]_vars

----------------------------------------------------------------------------
(* Properties                                                                 *)

\* Every variable has its type.
TypeOK == /\ now \in Time
          /\ env \in {"development", "production"}
          /\ mode \in [Instance -> {"unset", "redis", "none", "list"}]
          /\ key \in [WindowId -> Counter]
          /\ req \in [Instance -> {Idle} \cup Request]
          /\ stamps \in [Instance -> SUBSET Stamp]
          /\ asked \in Nat
          /\ passed \in [WindowId -> Nat]
          /\ late \in [WindowId -> Nat]
          /\ refused \in SUBSET WindowId
          /\ leaks \in Nat
          /\ calls \in [Instance -> SUBSET Stamp]

\* However many processes share Redis, however often they die and whatever
\* commands and replies are lost, no more requests of a window than its limit are
\* let through while the window lasts (RedisRateLimiter.check).
LimitPerWindow == \A w \in WindowId : passed[w] <= MaxCalls

\* 429 is answered in a window only if as many requests as the limit were counted
\* for it before: lost replies use up the limit, but nothing else shortens it.
RefusedAtLimit == \A w \in refused : passed[w] + late[w] >= MaxCalls

\* INCR and EXPIRE are two commands (incr_or_raise): a counter that nobody is about
\* to bound, and that Redis keeps for ever, is the doing of a request that ended
\* between the two, and each such request leaves one at most.
Stranded == {w \in WindowId : /\ key[w].n > 0
                              /\ ~key[w].bounded
                              /\ \A i \in Instance :
                                     ~(req[i].phase = "expire" /\ req[i].win = w)}
LeakBounded == Cardinality(Stranded) <= leaks

\* A process that keeps its own list admits no more requests than the limit in any
\* span of a window, until it is restarted (the in-memory fallback of dispatch).
SlidingLimit ==
    \A i \in Instance : Cardinality({c \in calls[i] : Recent(c)}) <= MaxCalls

=============================================================================
