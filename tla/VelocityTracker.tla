--------------------------- MODULE VelocityTracker ---------------------------
(* VelocityTracker: per scope (an agent, an identity, a tenant) the times of  *)
(* the requests of the last window and the sums of their values, risks and    *)
(* sensitive operations.  Threads share it under one lock; the clock is read  *)
(* with the lock held, and may move on before the lock is released.           *)
(*                                                                            *)
(* The deque of a scope is a set of numbered stamps: the numbers are the      *)
(* order of the appends, so the deque is read from the smallest number.       *)
EXTENDS Naturals, FiniteSets

CONSTANTS Thread,         \* threads of the process
          Scope,          \* scopes
          Charge,         \* what a request may add: records of ChargeType
          WindowSeconds,  \* window_seconds
          Max,            \* max_requests, max_cumulative_value, ...
          MaxTime,        \* bound on the clock
          MaxRecords      \* bound on the requests recorded since a start

ChargeType == [value : Nat, risk : Nat, sensitive : {0, 1}]

ASSUME VelocityAssumption ==
    /\ Charge \subseteq ChargeType
    /\ WindowSeconds \in Nat
    /\ Max \in [requests : Nat, value : Nat, risk : Nat, sensitive : Nat]
    /\ MaxTime \in Nat
    /\ MaxRecords \in Nat

VARIABLES clock,     \* time.monotonic()
          section,   \* section[th]: is thread th between acquire and release, and
                     \* the time it read there
          appended,  \* the number of requests recorded, which numbers the stamps
          windows,   \* _windows; a scope without one has an empty one
          log,       \* history: the stamps of all requests since the last reset
          tripped,   \* history: scopes answered "blocked" for a sum since their reset
          answer     \* the last dictionary returned

velocityVars == <<clock, section, appended, windows, log, tripped, answer>>

Stamps == [id : Nat, at : Nat]
Outside == [in |-> FALSE, at |-> 0]
EmptyWindow == [stamps |-> {}, value |-> 0, risk |-> 0, sensitive |-> 0]
NoAnswer == [given |-> FALSE]
Answer == [given : {TRUE}, scope : Scope, at : Nat, count : Nat, blocked : BOOLEAN]

----------------------------------------------------------------------------
(* Mutated forms of definitions below, used to check that the properties are  *)
(* sensitive to the code they are about.                                      *)

\* The clock is read before the lock is acquired.
ReadThenAcquire(th) == /\ ~section[th].in
                       /\ section' = [section EXCEPT ![th] = [in |-> TRUE, at |-> clock]]
                       /\ UNCHANGED <<clock, appended, windows, log, tripped, answer>>

\* The sums of a scope are dropped with the last of its stamps.
ForgetfulPrune(w, t) ==
    LET kept == {c \in w.stamps : t <= c.at + WindowSeconds}
    IN  IF kept = {} THEN EmptyWindow ELSE [w EXCEPT !.stamps = kept]

----------------------------------------------------------------------------

VelocityInit == /\ clock = 0
                /\ section = [th \in Thread |-> Outside]
                /\ appended = 0
                /\ windows = [s \in Scope |-> EmptyWindow]
                /\ log = [s \in Scope |-> {}]
                /\ tripped = {}
                /\ answer = NoAnswer

ClockTick == /\ clock < MaxTime
             /\ clock' = clock + 1
             /\ UNCHANGED <<section, appended, windows, log, tripped, answer>>

\* "with self._lock: now = time.monotonic()"
Acquire(th) == /\ \A other \in Thread : ~section[other].in
               /\ section' = [section EXCEPT ![th] = [in |-> TRUE, at |-> clock]]
               /\ UNCHANGED <<clock, appended, windows, log, tripped, answer>>

Release(th) == section' = [section EXCEPT ![th] = Outside]

\* _prune: stamps leave the left end while they are older than the window.
Prune(w, t) ==
    [w EXCEPT !.stamps = {c \in @ : \E d \in w.stamps : d.id <= c.id /\ t <= d.at + WindowSeconds}]

\* The reasons to block that are sums; they do not depend on the time.
OverSum(w) == \/ w.value > Max.value
              \/ w.risk > Max.risk
              \/ w.sensitive > Max.sensitive

\* _evaluate
Evaluate(s, w, t) ==
    /\ answer' = [given |-> TRUE, scope |-> s, at |-> t, count |-> Cardinality(w.stamps),
                  blocked |-> Cardinality(w.stamps) > Max.requests \/ OverSum(w)]
    /\ tripped' = IF OverSum(w) THEN tripped \cup {s} ELSE tripped

\* record
Record(th, s, c) ==
    LET t == section[th].at
        stamp == [id |-> appended + 1, at |-> t]
        w == Prune(windows[s], t)
        charged == [stamps |-> w.stamps \cup {stamp},
                    value |-> w.value + c.value,
                    risk |-> w.risk + c.risk,
                    sensitive |-> w.sensitive + c.sensitive]
    IN  /\ section[th].in
        /\ appended < MaxRecords
        /\ appended' = appended + 1
        /\ windows' = [windows EXCEPT ![s] = Prune(charged, t)]
        /\ log' = [log EXCEPT ![s] = @ \cup {stamp}]
        /\ Evaluate(s, Prune(charged, t), t)
        /\ Release(th)
        /\ UNCHANGED clock

\* get_state
GetState(th, s) ==
    LET w == Prune(windows[s], section[th].at)
    IN  /\ section[th].in
        /\ windows' = [windows EXCEPT ![s] = w]
        /\ Evaluate(s, w, section[th].at)
        /\ Release(th)
        /\ UNCHANGED <<clock, appended, log>>

\* reset, of one scope or of all
Reset(th, S) ==
    /\ section[th].in
    /\ windows' = [s \in Scope |-> IF s \in S THEN EmptyWindow ELSE windows[s]]
    /\ log' = [s \in Scope |-> IF s \in S THEN {} ELSE log[s]]
    /\ tripped' = tripped \ S
    /\ answer' = NoAnswer
    /\ Release(th)
    /\ UNCHANGED <<clock, appended>>

\* The tracker lives in the memory of one process, which dies and starts again.
RestartTracker == /\ section' = [th \in Thread |-> Outside]
                  /\ appended' = 0
                  /\ windows' = [s \in Scope |-> EmptyWindow]
                  /\ log' = [s \in Scope |-> {}]
                  /\ tripped' = {}
                  /\ answer' = NoAnswer
                  /\ UNCHANGED clock

VelocityNext ==
    \/ ClockTick
    \/ RestartTracker
    \/ \E th \in Thread :
           \/ Acquire(th)
           \/ Reset(th, Scope)
           \/ \E s \in Scope : \/ GetState(th, s) \/ Reset(th, {s})
                               \/ \E c \in Charge : Record(th, s, c)

VelocitySpec == VelocityInit /\ [][VelocityNext]_velocityVars

----------------------------------------------------------------------------
(* Properties                                                                 *)

\* Every variable has its type.
VelocityTypeOK ==
    /\ clock \in Nat
    /\ section \in [Thread -> [in : BOOLEAN, at : Nat]]
    /\ appended \in Nat
    /\ windows \in [Scope -> [stamps : SUBSET Stamps, value : Nat, risk : Nat, sensitive : Nat]]
    /\ log \in [Scope -> SUBSET Stamps]
    /\ tripped \in SUBSET Scope
    /\ answer \in {NoAnswer} \cup Answer

\* Pruning from the left loses nothing and keeps nothing too old: the count of an
\* answer is the number of requests of the scope in the closed window that ends
\* at the time read, of all those since the last reset, whichever threads took
\* the lock in which order (record, get_state, _prune).
WindowExact ==
    answer.given =>
        answer.count = Cardinality({c \in log[answer.scope] : answer.at <= c.at + WindowSeconds})

\* The sums do not leave with the window: a scope once blocked for one of them is
\* blocked in every answer until it is reset or the process restarts (_evaluate).
BlockedUntilReset == answer.given /\ answer.scope \in tripped => answer.blocked

=============================================================================
