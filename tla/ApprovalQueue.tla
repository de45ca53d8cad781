---------------------------- MODULE ApprovalQueue ----------------------------
(* What the approval queue promises, without saying how: a request is decided *)
(* once, by one decision, while it is pending, and expires only when its time *)
(* has come.  HitlQueue.tla implements this as long as one process runs; with *)
(* two it does not.                                                           *)

CONSTANT Request        \* request_id values

VARIABLES state,        \* state[r]: "absent", "pending", "expired" or the verdict
          due,          \* the requests whose time has come
          made,         \* made[r]: the decisions on r, each with its verdict
          told          \* told[r]: the decisions whose caller was told of them

Init == /\ state = [r \in Request |-> "absent"]
        /\ due = {}
        /\ made = [r \in Request |-> {}]
        /\ told = [r \in Request |-> {}]

Elapse(S) == /\ \A r \in S : state[r] # "absent"
             /\ due' = due \cup S
             /\ UNCHANGED <<state, made, told>>

Submit(r) == /\ state[r] = "absent"
             /\ state' = [state EXCEPT ![r] = "pending"]
             /\ UNCHANGED <<due, made, told>>

\* Whoever decides may not learn of it, but learns of nothing else.
Decide(r) == /\ state[r] = "pending"
             /\ made[r] = {}
             /\ \E d \in made'[r] :
                    /\ made' = [made EXCEPT ![r] = {d}]
                    /\ state' = [state EXCEPT ![r] = d.verdict]
                    /\ told' = told \/ told' = [told EXCEPT ![r] = {d}]
             /\ due' = due

Expire(S) == /\ S \subseteq due
             /\ state' = [r \in Request |-> IF r \in S THEN "expired" ELSE state[r]]
             /\ UNCHANGED <<due, made, told>>

Next == \/ \E r \in Request : Submit(r) \/ Decide(r)
        \/ \E S \in SUBSET Request : Elapse(S) \/ Expire(S)

queue == <<state, due, made, told>>

Spec == Init /\ [][Next]_queue
=============================================================================
