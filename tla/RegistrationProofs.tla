------------------------- MODULE RegistrationProofs -------------------------
(* Proofs about Registration, for any number of processes, requests and       *)
(* addresses: what a client is told of an account, and what it finds later.   *)
EXTENDS Registration, TLAPS

----------------------------------------------------------------------------
(* The inductive invariant                                                    *)

\* A request that has inserted its row and not come to the end of its session.
Writing(r) == req[r].phase \in {"written", "leaving"}

\* At most one open transaction has inserted an address, and then nobody has it.
OneWriter ==
    \A r \in Request : Writing(r) =>
        /\ owner[req[r].email] = "nobody"
        /\ \A s \in Request : (Writing(s) /\ req[s].email = req[r].email) => s = r

\* 201 is about to be answered only for an account that is there.
CommittedOwns ==
    \A r \in Request : /\ req[r].phase = "committed" => owner[req[r].email] = r
                       /\ req[r].phase = "decided" => req[r].code # "201"

\* Who has not come in has no answer.
NewUnanswered == \A r \in Request : req[r].phase = "new" => answer[r] = "none"

\* A request that came in after the 201 of its address finds the account, so it
\* never gets as far as the INSERT.
LateComers ==
    ~replyFirst => \A r \in Request :
        (req[r].phase # "new" /\ req[r].created) =>
            /\ owner[req[r].email] # "nobody"
            /\ req[r].phase \in {"ready", "decided", "done"}
            /\ req[r].phase = "decided" => req[r].code \in {Expected(r), "failed"}
            /\ req[r].phase # "done" => answer[r] = "none"
            /\ \/ answer[r] \in {"none", "lost", Expected(r)}
               \/ answer[r] = "500" /\ req[r].code = "failed"

IInv == /\ TypeOK
        /\ OneWriter
        /\ CommittedOwns
        /\ NewUnanswered
        /\ LateComers
        /\ ToldIsTrue

----------------------------------------------------------------------------
(* Type correctness                                                           *)

\* Only a request that has not come in is without fields.
LEMMA RequestShape ==
    ASSUME TypeOK, NEW r \in Request, req[r].phase # "new"
    PROVE  req[r] \in RequestState
  BY DEF TypeOK, NoRequest

LEMMA TypeInit == Init => TypeOK
  BY DEF Init, TypeOK, NoRequest

\* The two ways in which most steps change a request keep its type.
LEMMA MoveType ==
    ASSUME TypeOK, NEW r \in Request, req[r].phase # "new",
           NEW ph \in Phase, Move(r, ph)
    PROVE  req' \in [Request -> RequestState \cup {NoRequest}]
<1>1. [req[r] EXCEPT !.phase = ph] \in RequestState
  BY RequestShape DEF RequestState
<1> QED
  BY <1>1 DEF TypeOK, Move

LEMMA DecideType ==
    ASSUME TypeOK, NEW r \in Request, req[r].phase # "new",
           NEW c \in Outcome, Decide(r, c)
    PROVE  req' \in [Request -> RequestState \cup {NoRequest}]
<1>1. [req[r] EXCEPT !.phase = "decided", !.code = c] \in RequestState
  BY RequestShape DEF RequestState, Phase
<1> QED
  BY <1>1 DEF TypeOK, Decide

LEMMA TypeNext == TypeOK /\ [Next]_vars => TypeOK'
<1> SUFFICES ASSUME TypeOK, [Next]_vars
             PROVE  TypeOK'
  OBVIOUS
<1>1. ASSUME NEW r \in Request, NEW p \in Process, NEW o \in Operation, NEW e \in Email,
             Arrive(r, p, o, e)
      PROVE  TypeOK'
  <2>1. [phase |-> "ready", at |-> p, op |-> o, email |-> e,
         created |-> Created(e), code |-> "500"] \in RequestState
    BY DEF RequestState, Phase, Outcome, Answer, Created
  <2> QED
    BY <1>1, <2>1 DEF Arrive, TypeOK
<1>2. ASSUME NEW r \in Request, Login(r) \/ StatementFails(r) \/ SessionFails(r)
      PROVE  TypeOK'
  <2>1. /\ \E c \in Outcome : Decide(r, c)
        /\ req[r].phase # "new"
        /\ UNCHANGED <<replyFirst, loop, owner, answer>>
    BY <1>2 DEF Login, StatementFails, SessionFails, Outcome, Answer
  <2> QED
    BY <2>1, DecideType DEF TypeOK
<1>3. ASSUME NEW r \in Request, Look(r)
      PROVE  TypeOK'
  <2>1. CASE Decide(r, "409") /\ UNCHANGED loop
    BY <1>3, <2>1, DecideType DEF Look, TypeOK, Outcome, Answer
  <2>2. CASE Move(r, "hashing") /\ loop' = [loop EXCEPT ![req[r].at] = r]
    BY <1>3, <2>2, MoveType DEF Look, TypeOK, Phase
  <2> QED
    BY <1>3, <2>1, <2>2 DEF Look
<1>4. ASSUME NEW r \in Request, Insert(r)
      PROVE  TypeOK'
  BY <1>4, MoveType DEF Insert, Release, TypeOK, Phase
<1>5. ASSUME NEW r \in Request, InsertDuplicate(r) \/ InsertFails(r)
      PROVE  TypeOK'
  BY <1>5, DecideType DEF InsertDuplicate, InsertFails, Release, TypeOK, Outcome, Answer
<1>6. ASSUME NEW r \in Request, Leave(r)
      PROVE  TypeOK'
  BY <1>6, MoveType DEF Leave, TypeOK, Phase
<1>7. ASSUME NEW r \in Request, Commit(r)
      PROVE  TypeOK'
  <2>1. [req[r] EXCEPT !.phase = AfterCommit(r), !.code = "201"] \in RequestState
    BY <1>7, RequestShape DEF Commit, RequestState, AfterCommit, Phase, Outcome, Answer
  <2> QED
    BY <1>7, <2>1 DEF Commit, TypeOK
<1>8. ASSUME NEW r \in Request, CommitFails(r)
      PROVE  TypeOK'
  <2>1. req' \in [Request -> RequestState \cup {NoRequest}]
    BY <1>8, DecideType, MoveType DEF CommitFails, Outcome, Phase
  <2> QED
    BY <1>8, <2>1 DEF CommitFails, TypeOK
<1>9. ASSUME NEW r \in Request, Reply(r)
      PROVE  TypeOK'
  <2>1. req[r].phase # "new"
    BY <1>9 DEF Reply, MayReply
  <2>2. req' \in [Request -> RequestState \cup {NoRequest}]
    BY <1>9, <2>1, MoveType DEF Reply, TypeOK, Phase
  <2>3. Status(r) \in Answer
    BY <2>1, RequestShape DEF RequestState, Outcome, Answer, Status
  <2> QED
    BY <1>9, <2>2, <2>3 DEF Reply, TypeOK
<1>10. ASSUME NEW p \in Process, Crash(p)
       PROVE  TypeOK'
  <2> DEFINE here == {r \in Request : InHand(r) /\ req[r].at = p}
  <2>1. \A r \in here : [req[r] EXCEPT !.phase = "done"] \in RequestState
    BY RequestShape DEF InHand, RequestState, Phase
  <2>2. req' \in [Request -> RequestState \cup {NoRequest}]
    BY <1>10, <2>1 DEF Crash, TypeOK
  <2>3. PICK C \in SUBSET {r \in here : req[r].phase = "leaving"} :
            owner' = [e \in Email |-> IF \E r \in C : req[r].email = e
                                      THEN CHOOSE r \in C : req[r].email = e
                                      ELSE owner[e]]
    BY <1>10 DEF Crash
  <2>4. C \subseteq Request
    OBVIOUS
  <2>5. owner' \in [Email -> Request \cup {"nobody"}]
    BY <2>3, <2>4 DEF TypeOK
  <2> QED
    BY <1>10, <2>2, <2>5 DEF Crash, TypeOK
<1>11. CASE UNCHANGED vars
  BY <1>11 DEF vars, TypeOK
<1> QED
  BY <1>1, <1>2, <1>3, <1>4, <1>5, <1>6, <1>7, <1>8, <1>9, <1>10, <1>11 DEF Next, Progress

----------------------------------------------------------------------------
(* The invariant is inductive                                                 *)

\* The parts of the invariant that are about requests and accounts.
Accounts == OneWriter /\ CommittedOwns /\ NewUnanswered /\ LateComers /\ ToldIsTrue

LEMMA InitInv == Init => IInv
<1> SUFFICES ASSUME Init
             PROVE  IInv
  OBVIOUS
<1>1. TypeOK
  BY TypeInit
<1>2. OneWriter /\ CommittedOwns /\ NewUnanswered /\ LateComers /\ ToldIsTrue
  BY DEF Init, OneWriter, Writing, CommittedOwns, NewUnanswered, LateComers, ToldIsTrue,
         NoRequest
<1> QED
  BY <1>1, <1>2 DEF IInv

\* What LateComers asks of s after a step that leaves accounts and answers alone.
LateState(s) == /\ owner[req[s].email] # "nobody"
                /\ req'[s].phase \in {"ready", "decided", "done"}
                /\ req'[s].phase = "decided" => req'[s].code \in {Expected(s), "failed"}
                /\ req'[s].phase # "done" => answer[s] = "none"
                /\ \/ answer[s] \in {"none", "lost", Expected(s)}
                   \/ answer[s] = "500" /\ req'[s].code = "failed"

LEMMA LateStateKept ==
    ASSUME LateComers, ~replyFirst, NEW s \in Request,
           req'[s] = req[s], req[s].phase # "new", req[s].created
    PROVE  LateState(s)
BY DEF LateComers, LateState

LEMMA LateStatesSuffice ==
    ASSUME replyFirst' = replyFirst, owner' = owner, answer' = answer,
           \A s \in Request : /\ req'[s].email = req[s].email
                              /\ req'[s].op = req[s].op
                              /\ req'[s].created = req[s].created,
           ~replyFirst => \A s \in Request :
               (req'[s].phase # "new" /\ req[s].created) => LateState(s)
    PROVE  LateComers'
<1>1. \A s \in Request : Expected(s)' = Expected(s)
  BY DEF Expected
<1> QED
  BY <1>1 DEF LateComers, LateState

LEMMA ToldKept ==
    ASSUME ToldIsTrue, replyFirst' = replyFirst, owner' = owner, answer' = answer,
           \A s \in Request : req'[s].email = req[s].email
    PROVE  ToldIsTrue'
BY DEF ToldIsTrue

\* Whether a step that takes request r to another phase and leaves accounts and
\* answers alone keeps the invariant is seen from r alone.
LEMMA PhaseStep ==
    ASSUME IInv, NEW r \in Request, req[r].phase # "new",
           NEW ph \in {"hashing", "written", "leaving", "decided"}, NEW c \in Outcome,
           req' = [req EXCEPT ![r].phase = ph, ![r].code = c],
           UNCHANGED <<replyFirst, owner, answer>>,
           ph = "written" => owner[req[r].email] = "nobody" /\ ~Blocked(r),
           ph = "leaving" => req[r].phase = "written",
           ph = "decided" => c # "201",
           req[r].phase # "done",
           (~replyFirst /\ req[r].created) => ph = "decided" /\ c \in {Expected(r), "failed"}
    PROVE  Accounts'
<1>0. /\ OneWriter /\ CommittedOwns /\ NewUnanswered /\ LateComers /\ ToldIsTrue
      /\ replyFirst' = replyFirst /\ owner' = owner /\ answer' = answer
  BY DEF IInv
<1>1. /\ req[r] \in RequestState
      /\ req'[r].phase = ph /\ req'[r].code = c
      /\ \A s \in Request \ {r} : req'[s] = req[s]
  BY RequestShape DEF IInv, TypeOK, RequestState
<1>2. \A s \in Request : /\ req'[s].email = req[s].email
                         /\ req'[s].op = req[s].op
                         /\ req'[s].created = req[s].created
  BY <1>1 DEF IInv, TypeOK, RequestState
<1>3. OneWriter'
  <2>1. \A t \in Request : Writing(t)' =>
            \/ Writing(t)
            \/ t = r /\ owner[req[r].email] = "nobody" /\ ~Blocked(r)
    BY <1>1 DEF Writing
  <2>2. \A s \in Request : Writing(s)' =>
            /\ owner[req[s].email] = "nobody"
            /\ \A t \in Request : (Writing(t)' /\ req[t].email = req[s].email) => t = s
    BY <1>0, <2>1 DEF OneWriter, Writing, Blocked
  <2> QED
    BY <1>0, <1>2, <2>2 DEF OneWriter
<1>4. CommittedOwns'
  <2> SUFFICES ASSUME NEW s \in Request
               PROVE  /\ req'[s].phase = "committed" => owner[req[s].email] = s
                      /\ req'[s].phase = "decided" => req'[s].code # "201"
    BY <1>0, <1>2 DEF CommittedOwns
  <2>1. CASE s = r
    BY <1>1, <2>1
  <2>2. CASE s # r
    BY <1>0, <1>1, <2>2 DEF CommittedOwns
  <2> QED
    BY <2>1, <2>2
<1>5. NewUnanswered'
  BY <1>0, <1>1 DEF NewUnanswered
<1>6. ~replyFirst => \A s \in Request : (req'[s].phase # "new" /\ req[s].created) => LateState(s)
  <2> SUFFICES ASSUME ~replyFirst, NEW s \in Request, req'[s].phase # "new", req[s].created
               PROVE  LateState(s)
    OBVIOUS
  <2>1. CASE s = r
    BY <1>0, <1>1, <2>1 DEF LateComers, LateState
  <2>2. CASE s # r
    <3>1. req'[s] = req[s]
      BY <1>1, <2>2
    <3> QED
      BY <1>0, <3>1, LateStateKept
  <2> QED
    BY <2>1, <2>2
<1>7. LateComers'
  BY <1>0, <1>2, <1>6, LateStatesSuffice
<1>8. ToldIsTrue'
  <2>1. \A s \in Request : req'[s].email = req[s].email
    BY <1>2
  <2> QED
    BY <1>0, <2>1, ToldKept
<1> QED
  BY <1>3, <1>4, <1>5, <1>7, <1>8 DEF Accounts

\* The two ways in which a handler takes a request to another phase.
LEMMA MoveIsPhase ==
    ASSUME TypeOK, NEW r \in Request, req[r].phase # "new", NEW ph, Move(r, ph)
    PROVE  /\ req[r].code \in Outcome
           /\ req' = [req EXCEPT ![r].phase = ph, ![r].code = req[r].code]
<1>1. req[r] \in RequestState
  BY RequestShape
<1>2. [req[r] EXCEPT !.phase = ph] = [req[r] EXCEPT !.phase = ph, !.code = req[r].code]
  BY <1>1 DEF RequestState
<1> QED
  BY <1>1, <1>2 DEF Move, RequestState, TypeOK

\* A step that ends the sessions of the requests in S, and commits those in C.
Ends(S, C) ==
    /\ \A r \in S : /\ req[r].phase # "new"
                    /\ req'[r].phase \in {"done", "committed", "decided"}
                    /\ req'[r].phase = "committed" => r \in C
                    /\ req'[r].phase = "decided" => /\ req[r].phase = "leaving"
                                                    /\ req'[r].code # "201"
                    /\ req[r].phase # "leaving" => req'[r].code = req[r].code
                    /\ req'[r].email = req[r].email
                    /\ req'[r].op = req[r].op
                    /\ req'[r].created = req[r].created
    /\ \A r \in C : req[r].phase = "leaving"
    /\ \A e \in Email : \/ \E r \in C : req[r].email = e /\ owner'[e] = r
                        \/ owner'[e] = owner[e] /\ \A r \in C : req[r].email # e
    /\ \A r \in Request \ S : req'[r] = req[r]
    /\ \A r \in Request : \/ answer'[r] = answer[r]
                          \/ r \in S /\ answer[r] = "none" /\ answer'[r] = "lost"
    /\ replyFirst' = replyFirst

LEMMA EndStep ==
    ASSUME IInv, NEW S \in SUBSET Request, NEW C \in SUBSET S, Ends(S, C)
    PROVE  Accounts'
<1> USE DEF IInv, Ends
<1>1. \A r \in Request : req[r].phase # "new" => req[r].email \in Email
  BY RequestShape DEF RequestState
<1>2. \A r \in Request : /\ req'[r].phase # "new" => /\ req[r].phase # "new"
                                                     /\ req'[r].email = req[r].email
                                                     /\ req'[r].op = req[r].op
                                                     /\ req'[r].created = req[r].created
                         /\ Writing(r)' => Writing(r) /\ r \notin C
  BY DEF Writing
<1>3. \A r \in C : owner[req[r].email] = "nobody" /\ owner'[req[r].email] = r
  BY <1>1 DEF OneWriter, Writing
<1>4. \A r \in Request : (req[r].phase # "new" /\ owner[req[r].email] # "nobody")
                          => owner'[req[r].email] = owner[req[r].email]
  BY <1>1, <1>3
<1>5. OneWriter'
  <2> SUFFICES ASSUME NEW r \in Request, Writing(r)'
               PROVE  /\ owner'[req[r].email] = "nobody"
                      /\ \A s \in Request :
                            (Writing(s)' /\ req[s].email = req[r].email) => s = r
    BY <1>2 DEF OneWriter, Writing
  <2>1. \A s \in C : req[s].email # req[r].email
    BY <1>2 DEF OneWriter, Writing
  <2>2. owner'[req[r].email] = owner[req[r].email]
    BY <1>1, <1>2, <2>1 DEF Writing
  <2> QED
    BY <1>2, <2>2 DEF OneWriter
<1>6. CommittedOwns'
  <2> SUFFICES ASSUME NEW r \in Request
               PROVE  /\ req'[r].phase = "committed" => owner'[req'[r].email] = r
                      /\ req'[r].phase = "decided" => req'[r].code # "201"
    BY DEF CommittedOwns
  <2>1. CASE r \in C
    BY <1>3, <2>1
  <2>2. CASE r \in S \ C
    BY <2>2
  <2>3. CASE r \in Request \ S
    BY <1>4, <2>3, NobodyAssumption DEF CommittedOwns
  <2> QED
    BY <2>1, <2>2, <2>3
<1>7. NewUnanswered'
  BY DEF NewUnanswered
<1>8. LateComers'
  <2> SUFFICES ASSUME ~replyFirst, NEW r \in Request, req'[r].phase # "new", req'[r].created
               PROVE  /\ owner'[req'[r].email] # "nobody"
                      /\ req'[r].phase \in {"ready", "decided", "done"}
                      /\ req'[r].phase = "decided" => req'[r].code \in {Expected(r)', "failed"}
                      /\ req'[r].phase # "done" => answer'[r] = "none"
                      /\ \/ answer'[r] \in {"none", "lost", Expected(r)'}
                         \/ answer'[r] = "500" /\ req'[r].code = "failed"
    BY DEF LateComers
  <2>1. req[r].phase # "new" /\ req[r].created /\ req'[r].email = req[r].email
    BY <1>2
  <2>2. req'[r].op = req[r].op
    BY <1>2
  <2>3. Expected(r)' = Expected(r)
    BY <2>2 DEF Expected
  <2>4. owner'[req'[r].email] # "nobody"
    BY <1>4, <2>1 DEF LateComers
  <2>5. req[r].phase \in {"ready", "decided", "done"}
    BY <2>1 DEF LateComers
  <2>6. \/ req'[r].phase = "done" /\ req'[r].code = req[r].code
        \/ req'[r] = req[r] /\ answer'[r] = answer[r]
    BY <2>5
  <2> QED
    BY <2>1, <2>3, <2>4, <2>5, <2>6 DEF LateComers
<1>9. ToldIsTrue'
  <2> SUFFICES ASSUME ~replyFirst, NEW r \in Request, answer'[r] = "201"
               PROVE  owner'[req'[r].email] = r
    BY DEF ToldIsTrue
  <2>1. answer[r] = "201" /\ req[r].phase # "new" /\ owner[req[r].email] = r
    BY DEF ToldIsTrue, NewUnanswered
  <2>2. req'[r].email = req[r].email
    OBVIOUS
  <2> QED
    BY <1>4, <2>1, <2>2, NobodyAssumption
<1> QED
  BY <1>5, <1>6, <1>7, <1>8, <1>9 DEF Accounts

\* The commit, whether it fails or not, ends one session.
LEMMA CommitEnds ==
    ASSUME TypeOK, NEW r \in Request, Commit(r) \/ CommitFails(r)
    PROVE  /\ req[r].phase = "leaving"
           /\ \E C \in SUBSET {r} : Ends({r}, C)
           /\ req'[r].phase = "done" <=> answer[r] # "none"
           /\ req'[r].phase = "committed" => req'[r].code = "201"
           /\ req'[r].phase = "decided" => req'[r].code = "failed"
           /\ req'[r].at = req[r].at
           /\ UNCHANGED <<loop, answer>>
<1>1. /\ req[r].phase = "leaving" /\ req[r] \in RequestState
      /\ UNCHANGED <<replyFirst, loop, answer>>
  BY RequestShape DEF Commit, CommitFails
<1>2. /\ req'[r].phase \in {"committed", "decided", "done"}
      /\ req'[r].phase = "done" <=> answer[r] # "none"
      /\ req'[r].phase = "committed" => req'[r].code = "201" /\ Commit(r)
      /\ req'[r].phase = "decided" => req'[r].code = "failed"
      /\ req'[r].email = req[r].email /\ req'[r].op = req[r].op
      /\ req'[r].created = req[r].created /\ req'[r].at = req[r].at
      /\ \A s \in Request \ {r} : req'[s] = req[s]
  <2>1. CASE Commit(r)
    <3>1. /\ req' = [req EXCEPT ![r].phase = AfterCommit(r), ![r].code = "201"]
          /\ AfterCommit(r) = IF answer[r] = "none" THEN "committed" ELSE "done"
      BY <2>1 DEF Commit, AfterCommit
    <3> QED
      BY <1>1, <2>1, <3>1 DEF TypeOK, RequestState
  <2>2. CASE CommitFails(r)
    <3>1. IF answer[r] = "none" THEN Decide(r, "failed") ELSE Move(r, "done")
      BY <2>2 DEF CommitFails
    <3> QED
      BY <1>1, <3>1 DEF TypeOK, RequestState, Decide, Move
  <2> QED
    BY <2>1, <2>2
<1>3. CASE owner' = [owner EXCEPT ![req[r].email] = r]
  <2>1. \A e \in Email : \/ req[r].email = e /\ owner'[e] = r
                         \/ owner'[e] = owner[e] /\ req[r].email # e
    BY <1>3 DEF TypeOK
  <2>2. Ends({r}, {r})
    BY <1>1, <1>2, <2>1 DEF Ends
  <2> QED
    BY <1>1, <1>2, <2>2
<1>4. CASE owner' = owner /\ CommitFails(r)
  <2>1. req'[r].phase # "committed"
    BY <1>1, <1>4 DEF CommitFails, Decide, Move, TypeOK, RequestState
  <2>2. Ends({r}, {})
    BY <1>1, <1>2, <1>4, <2>1 DEF Ends
  <2> QED
    BY <1>1, <1>2, <2>2
<1> QED
  BY <1>3, <1>4 DEF Commit, CommitFails

\* A crash ends the sessions in hand of its process.
LEMMA CrashEnds ==
    ASSUME TypeOK, NEW p \in Process, Crash(p)
    PROVE  \E S \in SUBSET Request :
               /\ S = {r \in Request : InHand(r) /\ req[r].at = p}
               /\ \E C \in SUBSET S : Ends(S, C)
               /\ \A r \in S : req'[r].phase = "done" /\ answer'[r] # "none" /\ req'[r].at = req[r].at
               /\ loop' = [loop EXCEPT ![p] = "nobody"]
<1> DEFINE here == {r \in Request : InHand(r) /\ req[r].at = p}
<1>1. PICK C \in SUBSET {r \in here : req[r].phase = "leaving"} :
          owner' = [e \in Email |-> IF \E r \in C : req[r].email = e
                                    THEN CHOOSE r \in C : req[r].email = e
                                    ELSE owner[e]]
  BY DEF Crash
<1>2. \A e \in Email : \/ \E r \in C : req[r].email = e /\ owner'[e] = r
                       \/ owner'[e] = owner[e] /\ \A r \in C : req[r].email # e
  BY <1>1
<1>3. /\ here \in SUBSET Request /\ C \in SUBSET here
      /\ \A r \in here : req[r].phase # "new" /\ req[r] \in RequestState
      /\ \A r \in C : req[r].phase = "leaving"
  BY RequestShape DEF InHand
<1>4. /\ \A r \in here : /\ req'[r].phase = "done" /\ req'[r].code = req[r].code
                         /\ req'[r].email = req[r].email /\ req'[r].op = req[r].op
                         /\ req'[r].created = req[r].created /\ req'[r].at = req[r].at
      /\ \A r \in Request \ here : req'[r] = req[r]
  BY <1>3 DEF Crash, RequestState
<1>5. /\ \A r \in Request : \/ answer'[r] = answer[r]
                            \/ r \in here /\ answer[r] = "none" /\ answer'[r] = "lost"
      /\ \A r \in here : answer'[r] # "none"
      /\ replyFirst' = replyFirst
  BY DEF Crash
<1>6. loop' = [loop EXCEPT ![p] = "nobody"]
  BY DEF Crash
<1>7. here = {r \in Request : InHand(r) /\ req[r].at = p}
  OBVIOUS
<1> HIDE DEF here
<1>8. Ends(here, C)
  BY <1>2, <1>3, <1>4, <1>5 DEF Ends
<1> QED
  BY <1>3, <1>4, <1>5, <1>6, <1>7, <1>8

\* A request comes in: if it was told that the address is registered, it is.
LEMMA ArriveStep ==
    ASSUME IInv, NEW r \in Request, NEW p \in Process, NEW o \in Operation, NEW e \in Email,
           Arrive(r, p, o, e)
    PROVE  Accounts'
<1> USE DEF IInv
<1>1. /\ req[r].phase = "new"
      /\ answer[r] = "none"
      /\ \A s \in Request \ {r} : req'[s] = req[s]
      /\ req'[r] = [phase |-> "ready", at |-> p, op |-> o, email |-> e,
                    created |-> Created(e), code |-> "500"]
      /\ owner' = owner /\ answer' = answer /\ replyFirst' = replyFirst
  BY DEF Arrive, NoRequest, NewUnanswered, TypeOK
<1>2. OneWriter' /\ CommittedOwns' /\ NewUnanswered'
  BY <1>1 DEF OneWriter, Writing, CommittedOwns, NewUnanswered
<1>3. ToldIsTrue'
  BY <1>1 DEF ToldIsTrue
<1>4. ~replyFirst /\ Created(e) => owner[e] # "nobody"
  BY NobodyAssumption DEF Created, ToldIsTrue
<1>5. LateComers'
  <2> SUFFICES ASSUME ~replyFirst, NEW s \in Request, req'[s].phase # "new", req'[s].created
               PROVE  /\ owner[req'[s].email] # "nobody"
                      /\ req'[s].phase \in {"ready", "decided", "done"}
                      /\ req'[s].phase = "decided" => req'[s].code \in {Expected(s)', "failed"}
                      /\ req'[s].phase # "done" => answer[s] = "none"
                      /\ \/ answer[s] \in {"none", "lost", Expected(s)'}
                         \/ answer[s] = "500" /\ req'[s].code = "failed"
    BY <1>1 DEF LateComers
  <2>1. CASE s = r
    BY <1>1, <1>4, <2>1
  <2>2. CASE s # r
    <3>1. req'[s] = req[s]
      BY <1>1, <2>2
    <3>2. Expected(s)' = Expected(s)
      BY <3>1 DEF Expected
    <3> QED
      BY <3>1, <3>2 DEF LateComers
  <2> QED
    BY <2>1, <2>2
<1> QED
  BY <1>2, <1>3, <1>5 DEF Accounts

\* An answer is sent: what it says was decided or committed before.
LEMMA ReplyStep ==
    ASSUME IInv, NEW r \in Request, Reply(r)
    PROVE  Accounts'
<1> USE DEF IInv
<1>1. /\ req[r].phase \in {"committed", "decided"} \/ (replyFirst /\ req[r].phase = "written")
      /\ req[r] \in RequestState
      /\ answer'[r] = IF req[r].phase = "written" THEN "201"
                      ELSE IF req[r].code = "failed" THEN "500" ELSE req[r].code
      /\ \A s \in Request \ {r} : answer'[s] = answer[s] /\ req'[s] = req[s]
      /\ owner' = owner /\ replyFirst' = replyFirst
  BY RequestShape DEF Reply, Status, MayReply, TypeOK, Move
<1>2. /\ req'[r].phase = IF req[r].phase = "written" THEN "written" ELSE "done"
      /\ req'[r].email = req[r].email
      /\ req'[r].op = req[r].op
      /\ req'[r].created = req[r].created
      /\ req'[r].code = req[r].code
  BY <1>1 DEF Reply, TypeOK, Move, RequestState
<1>3. \A s \in Request : req'[s].email = req[s].email
  BY <1>1, <1>2
<1>4. OneWriter'
  <2>1. \A s \in Request : Writing(s)' <=> Writing(s)
    BY <1>1, <1>2 DEF Writing
  <2> QED
    BY <1>1, <1>3, <2>1 DEF OneWriter
<1>5. CommittedOwns'
  BY <1>1, <1>2 DEF CommittedOwns
<1>6. NewUnanswered'
  BY <1>1, <1>2 DEF NewUnanswered
<1>7. ToldIsTrue'
  <2> SUFFICES ASSUME ~replyFirst, NEW s \in Request, answer'[s] = "201"
               PROVE  owner[req[s].email] = s
    BY <1>1, <1>3 DEF ToldIsTrue
  <2>1. CASE s = r
    BY <1>1, <2>1 DEF CommittedOwns
  <2>2. CASE s # r
    BY <1>1, <2>2 DEF ToldIsTrue
  <2> QED
    BY <2>1, <2>2
<1>8. LateComers'
  <2> SUFFICES ASSUME ~replyFirst, NEW s \in Request, req'[s].phase # "new", req'[s].created
               PROVE  /\ owner[req'[s].email] # "nobody"
                      /\ req'[s].phase \in {"ready", "decided", "done"}
                      /\ req'[s].phase = "decided" => req'[s].code \in {Expected(s)', "failed"}
                      /\ req'[s].phase # "done" => answer'[s] = "none"
                      /\ \/ answer'[s] \in {"none", "lost", Expected(s)'}
                         \/ answer'[s] = "500" /\ req'[s].code = "failed"
    BY <1>1 DEF LateComers
  <2>1. CASE s = r
    <3>1. Expected(s)' = Expected(s)
      BY <1>2, <2>1 DEF Expected
    <3> QED
      BY <1>1, <1>2, <2>1, <3>1 DEF LateComers
  <2>2. CASE s # r
    <3>1. req'[s] = req[s] /\ answer'[s] = answer[s]
      BY <1>1, <2>2
    <3>2. Expected(s)' = Expected(s)
      BY <3>1 DEF Expected
    <3> QED
      BY <3>1, <3>2 DEF LateComers
  <2> QED
    BY <2>1, <2>2
<1> QED
  BY <1>4, <1>5, <1>6, <1>7, <1>8 DEF Accounts

LEMMA NextInv == IInv /\ [Next]_vars => IInv'
<1> SUFFICES ASSUME IInv, [Next]_vars
             PROVE  IInv'
  OBVIOUS
<1>1. TypeOK'
  BY TypeNext DEF IInv
<1>2. Accounts'
  <2>1. ASSUME NEW r \in Request, NEW p \in Process, NEW o \in Operation, NEW e \in Email,
               Arrive(r, p, o, e)
        PROVE  Accounts'
    BY <2>1, ArriveStep
  <2>2. ASSUME NEW r \in Request, Login(r)
        PROVE  Accounts'
    <3> DEFINE c == IF Taken(req[r].email) THEN "200" ELSE "401"
    <3>1. /\ req' = [req EXCEPT ![r].phase = "decided", ![r].code = c]
          /\ UNCHANGED <<replyFirst, owner, answer>>
          /\ req[r].phase # "new" /\ req[r].op = "login"
          /\ req[r].phase # "done" /\ c \in Outcome /\ c # "201"
      BY <2>2 DEF Login, Decide, Outcome, Answer
    <3>2. ~replyFirst /\ req[r].created => c = Expected(r)
      BY <3>1 DEF IInv, LateComers, Taken, Expected
    <3> HIDE DEF c
    <3> QED
      BY <3>1, <3>2, PhaseStep
  <2>3. ASSUME NEW r \in Request, Look(r)
        PROVE  Accounts'
    <3>1. /\ req[r].phase \notin {"new", "done"} /\ req[r].op = "register"
          /\ UNCHANGED <<replyFirst, owner, answer>>
      BY <2>3 DEF Look
    <3>2. CASE Taken(req[r].email) /\ Decide(r, "409")
      <4>1. Expected(r) = "409"
        BY <3>1 DEF Expected
      <4> QED
        BY <3>1, <3>2, <4>1, PhaseStep DEF Decide, Outcome, Answer
    <3>3. CASE ~Taken(req[r].email) /\ Move(r, "hashing")
      <4>1. ~(~replyFirst /\ req[r].created)
        BY <3>1, <3>3 DEF Taken, IInv, LateComers
      <4> QED
        BY <3>1, <3>3, <4>1, PhaseStep, MoveIsPhase DEF IInv
    <3> QED
      BY <2>3, <3>2, <3>3 DEF Look
  <2>4. ASSUME NEW r \in Request, Insert(r)
        PROVE  Accounts'
    <3>1. /\ req[r].phase = "hashing" /\ Move(r, "written")
          /\ UNCHANGED <<replyFirst, owner, answer>>
          /\ owner[req[r].email] = "nobody" /\ ~Blocked(r)
      BY <2>4 DEF Insert
    <3>2. ~(~replyFirst /\ req[r].created)
      BY <3>1 DEF IInv, LateComers
    <3> QED
      BY <3>1, <3>2, PhaseStep, MoveIsPhase DEF IInv
  <2>5. ASSUME NEW r \in Request, InsertDuplicate(r) \/ InsertFails(r)
        PROVE  Accounts'
    <3>1. /\ req[r].phase = "hashing"
          /\ Decide(r, "500") \/ Decide(r, "failed")
          /\ UNCHANGED <<replyFirst, owner, answer>>
      BY <2>5 DEF InsertDuplicate, InsertFails
    <3>2. ~(~replyFirst /\ req[r].created)
      BY <3>1 DEF IInv, LateComers
    <3>3. CASE Decide(r, "500")
      <4>1. /\ req' = [req EXCEPT ![r].phase = "decided", ![r].code = "500"]
            /\ "500" \in Outcome
        BY <3>3 DEF Decide, Outcome, Answer
      <4> QED
        BY <3>1, <3>2, <4>1, PhaseStep
    <3>4. CASE Decide(r, "failed")
      BY <3>1, <3>2, <3>4, PhaseStep DEF Decide, Outcome
    <3> QED
      BY <3>1, <3>3, <3>4
  <2>6. ASSUME NEW r \in Request, Leave(r)
        PROVE  Accounts'
    <3>1. /\ req[r].phase = "written" /\ Move(r, "leaving")
          /\ UNCHANGED <<replyFirst, owner, answer>>
      BY <2>6 DEF Leave
    <3>2. ~(~replyFirst /\ req[r].created)
      BY <3>1 DEF IInv, LateComers
    <3>3. /\ req[r].code \in Outcome
          /\ req' = [req EXCEPT ![r].phase = "leaving", ![r].code = req[r].code]
      BY <3>1, MoveIsPhase DEF IInv
    <3> QED
      BY <3>1, <3>2, <3>3, PhaseStep
  <2>7. ASSUME NEW r \in Request, Commit(r) \/ CommitFails(r)
        PROVE  Accounts'
    <3>1. PICK C \in SUBSET {r} : Ends({r}, C)
      BY <2>7, CommitEnds DEF IInv
    <3> QED
      BY <3>1, EndStep
  <2>8. ASSUME NEW r \in Request, Reply(r)
        PROVE  Accounts'
    BY <2>8, ReplyStep
  <2>9. ASSUME NEW p \in Process, Crash(p)
        PROVE  Accounts'
    <3>1. PICK S \in SUBSET Request : \E C \in SUBSET S : Ends(S, C)
      BY <2>9, CrashEnds DEF IInv
    <3> QED
      BY <3>1, EndStep
  <2>10. ASSUME NEW r \in Request, StatementFails(r) \/ SessionFails(r)
         PROVE  Accounts'
    <3>1. /\ req[r].phase \in {"ready", "decided"}
          /\ req' = [req EXCEPT ![r].phase = "decided", ![r].code = "failed"]
          /\ UNCHANGED <<replyFirst, owner, answer>>
      BY <2>10 DEF StatementFails, SessionFails, Decide
    <3> QED
      BY <3>1, PhaseStep DEF Outcome
  <2>11. CASE UNCHANGED vars
    BY <2>11 DEF vars, IInv, Accounts, OneWriter, Writing, CommittedOwns, NewUnanswered,
                 LateComers, Expected, ToldIsTrue
  <2> QED
    BY <2>1, <2>2, <2>3, <2>4, <2>5, <2>6, <2>7, <2>8, <2>9, <2>10, <2>11 DEF Next, Progress
<1> QED
  BY <1>1, <1>2 DEF IInv, Accounts

----------------------------------------------------------------------------
(* Theorems                                                                   *)

\* The invariant holds in every state of every behaviour of the service.
THEOREM Invariance == Spec => []IInv
<1> QED
  BY InitInv, NextInv, PTL DEF Spec

\* Every variable keeps its type, for any number of processes and requests.
THEOREM TypeCorrect == Spec => []TypeOK
<1>1. IInv => TypeOK
  BY DEF IInv
<1> QED
  BY <1>1, Invariance, PTL

\* Where the session is committed first, a client that was told 201 has the
\* account, for any number of processes that race for it and wherever they die.
THEOREM ToldTheorem == Spec => []ToldIsTrue
<1>1. IInv => ToldIsTrue
  BY DEF IInv
<1> QED
  BY <1>1, Invariance, PTL

\* Where the session is committed first, every request that comes in after the 201
\* finds the account: a login succeeds, a second registration is answered 409, and
\* 500 says that the request's own connection to the database failed.
THEOREM AfterCreatedTheorem == Spec => []AfterCreated
<1>1. IInv => AfterCreated
  <2> SUFFICES ASSUME IInv, ~replyFirst, NEW r \in Request,
                      req[r] # NoRequest, req[r].created
               PROVE  \/ answer[r] \in {"none", "lost", Expected(r)}
                      \/ answer[r] = "500" /\ req[r].code = "failed"
    BY DEF AfterCreated
  <2>1. CASE req[r].phase = "new"
    BY <2>1 DEF IInv, NewUnanswered
  <2>2. CASE req[r].phase # "new"
    BY <2>2 DEF IInv, LateComers
  <2> QED
    BY <2>1, <2>2
<1> QED
  BY <1>1, Invariance, PTL

----------------------------------------------------------------------------
(* How far a request is                                                       *)

\* Who has the loop, for which operation, and who is still without an answer.
HoldsLoop(r) == /\ req[r].phase = "hashing" => loop[req[r].at] = r
                /\ \A p \in Process : loop[p] = r => req[r].phase = "hashing" /\ req[r].at = p
RightOperation(r) ==
    req[r].phase \in {"hashing", "written", "leaving", "committed"} => req[r].op = "register"
AnswerDue(r) == /\ req[r].phase \in {"ready", "hashing", "committed", "decided"} => answer[r] = "none"
                /\ req[r].phase = "done" => answer[r] # "none"

\* What is about to be answered is true.
TrueDecision(r) ==
    /\ req[r].phase = "committed" => req[r].code = "201"
    /\ req[r].phase = "decided" =>
           \/ req[r].code \in {"401", "500", "failed"}
           \/ req[r].code = "409" /\ req[r].op = "register" /\ owner[req[r].email] \notin {"nobody", r}
           \/ req[r].code = "200" /\ req[r].op = "login" /\ owner[req[r].email] # "nobody"

\* An account belongs to a registration of its address that came to its commit.
OwnsAfterCommit(r) ==
    \A e \in Email : owner[e] = r => /\ req[r].phase \in {"committed", "decided", "done"}
                                     /\ req[r].email = e

Stage(r) == /\ req[r].phase = "new" => req[r] = NoRequest
            /\ HoldsLoop(r) /\ RightOperation(r) /\ AnswerDue(r)
            /\ TrueDecision(r) /\ OwnsAfterCommit(r)

StageInv == IInv /\ \A r \in Request : Stage(r)

LEMMA StageInit == Init => \A r \in Request : Stage(r)
  BY NobodyAssumption
     DEF Init, Stage, HoldsLoop, RightOperation, AnswerDue, TrueDecision, OwnsAfterCommit, NoRequest

\* An account that is there keeps its owner; a new one has an owner of its address
\* that is at its commit.
OwnersKept == \A e \in Email : \/ owner'[e] = owner[e]
                               \/ /\ owner[e] = "nobody" /\ owner'[e] \in Request
                                  /\ req[owner'[e]].phase = "leaving" /\ req[owner'[e]].email = e

\* The requests beside those that take a step.
LEMMA StageFrame ==
    ASSUME StageInv, OwnersKept, NEW s \in Request, req'[s] = req[s], answer'[s] = answer[s],
           \A p \in Process : loop'[p] = s <=> loop[p] = s,
           \A e \in Email : owner'[e] = s => owner[e] = s
    PROVE  Stage(s)'
<1>1. req[s].phase # "new" => req[s].email \in Email /\ req[s].at \in Process
  BY RequestShape DEF StageInv, IInv, RequestState
<1>2. TrueDecision(s)'
  BY <1>1, NobodyAssumption DEF StageInv, Stage, TrueDecision, OwnersKept
<1>3. HoldsLoop(s)' /\ RightOperation(s)' /\ AnswerDue(s)' /\ OwnsAfterCommit(s)'
  BY <1>1 DEF StageInv, Stage, HoldsLoop, RightOperation, AnswerDue, OwnsAfterCommit
<1> QED
  BY <1>2, <1>3 DEF StageInv, Stage

\* A step of request r that changes no account and no answer, to phase ph with code c.
LEMMA StageStep ==
    ASSUME StageInv, NEW r \in Request, req[r].phase # "new",
           NEW ph \in {"hashing", "written", "leaving", "decided"}, NEW c,
           req' = [req EXCEPT ![r].phase = ph, ![r].code = c],
           UNCHANGED <<replyFirst, owner, answer>>,
           ph # "decided" => req[r].op = "register",
           ph # "leaving" => answer[r] = "none",
           \A e \in Email : owner[e] # r,
           ph = "decided" =>
              \/ c \in {"401", "500", "failed"}
              \/ c = "409" /\ req[r].op = "register" /\ owner[req[r].email] # "nobody"
              \/ c = "200" /\ req[r].op = "login" /\ owner[req[r].email] # "nobody",
           IF ph = "hashing" THEN LoopFree(r) /\ loop' = [loop EXCEPT ![req[r].at] = r]
           ELSE IF req[r].phase = "hashing" THEN Release(r) ELSE loop' = loop
    PROVE  \A s \in Request : Stage(s)'
<1>1. /\ req[r] \in RequestState
      /\ req'[r].phase = ph /\ req'[r].code = c
      /\ req'[r].email = req[r].email /\ req'[r].op = req[r].op /\ req'[r].at = req[r].at
      /\ \A s \in Request \ {r} : req'[s] = req[s]
  BY RequestShape DEF StageInv, IInv, TypeOK, RequestState
<1>2. req[r].email \in Email /\ req[r].at \in Process
  BY <1>1 DEF RequestState
<1>3. HoldsLoop(r)'
  BY <1>1, <1>2, NobodyAssumption
     DEF StageInv, IInv, TypeOK, Stage, HoldsLoop, LoopFree, Release
<1>4. RightOperation(r)' /\ AnswerDue(r)'
  BY <1>1 DEF RightOperation, AnswerDue
<1>5. TrueDecision(r)' /\ OwnsAfterCommit(r)'
  BY <1>1, <1>2 DEF TrueDecision, OwnsAfterCommit
<1>6. \A s \in Request \ {r} : \A p \in Process : loop'[p] = s <=> loop[p] = s
  BY <1>1, <1>2, NobodyAssumption DEF StageInv, IInv, TypeOK, Stage, HoldsLoop, LoopFree, Release
<1>7. \A s \in Request \ {r} : Stage(s)'
  BY <1>1, <1>6, StageFrame DEF OwnersKept
<1> QED
  BY <1>1, <1>3, <1>4, <1>5, <1>7 DEF Stage

\* A step that ends the sessions of the requests in S with or without a commit.
LEMMA StageEnds ==
    ASSUME StageInv, NEW S \in SUBSET Request, NEW C \in SUBSET S, Ends(S, C),
           \A r \in S : /\ req'[r].phase = "done" => answer'[r] # "none"
                        /\ req'[r].phase = "committed" => /\ req[r].phase = "leaving"
                                                          /\ req'[r].code = "201"
                        /\ req'[r].phase = "decided" => req'[r].code = "failed"
                        /\ req'[r].phase # "done" => answer'[r] = "none"
                        /\ req'[r].at = req[r].at
                        /\ \A p \in Process : loop'[p] # r,
           \A s \in Request \ S : \A p \in Process : loop'[p] = s <=> loop[p] = s
    PROVE  \A s \in Request : Stage(s)'
<1>1. \A r \in Request : req[r].phase # "new" => req[r].email \in Email /\ req[r].at \in Process
  BY RequestShape DEF StageInv, IInv, RequestState
<1>2. OwnersKept
  BY <1>1 DEF OwnersKept, Ends, StageInv, IInv, OneWriter, Writing
<1>3. ASSUME NEW r \in S
      PROVE  Stage(r)'
  <2>1. OwnsAfterCommit(r)'
    BY <1>2 DEF OwnersKept, Ends, StageInv, Stage, OwnsAfterCommit
  <2>2. HoldsLoop(r)' /\ AnswerDue(r)'
    BY DEF Ends, HoldsLoop, AnswerDue
  <2>3. RightOperation(r)' /\ TrueDecision(r)'
    BY DEF Ends, StageInv, Stage, RightOperation, TrueDecision
  <2> QED
    BY <2>1, <2>2, <2>3 DEF Ends, Stage
<1>4. ASSUME NEW s \in Request \ S
      PROVE  Stage(s)'
  <2>1. req'[s] = req[s] /\ answer'[s] = answer[s]
    BY DEF Ends
  <2>2. \A e \in Email : owner'[e] = s => owner[e] = s
    BY DEF Ends
  <2> QED
    BY <1>2, <2>1, <2>2, StageFrame
<1> QED
  BY <1>3, <1>4

LEMMA StageArrive ==
    ASSUME StageInv, NEW r \in Request, NEW p \in Process, NEW o \in Operation, NEW e \in Email,
           Arrive(r, p, o, e)
    PROVE  \A s \in Request : Stage(s)'
<1>1. /\ req[r].phase = "new" /\ answer[r] = "none"
      /\ req'[r] = [phase |-> "ready", at |-> p, op |-> o, email |-> e,
                    created |-> Created(e), code |-> "500"]
      /\ \A s \in Request \ {r} : req'[s] = req[s]
      /\ UNCHANGED <<loop, owner, answer>>
  BY DEF Arrive, NoRequest, StageInv, IInv, NewUnanswered, TypeOK
<1>2. Stage(r)'
  BY <1>1 DEF StageInv, Stage, HoldsLoop, RightOperation, AnswerDue, TrueDecision, OwnsAfterCommit
<1> QED
  BY <1>1, <1>2, StageFrame DEF OwnersKept

LEMMA StageReply ==
    ASSUME StageInv, NEW r \in Request, Reply(r)
    PROVE  \A s \in Request : Stage(s)'
<1>1. /\ req[r].phase \in {"committed", "decided", "written"} /\ req[r] \in RequestState
      /\ answer'[r] = Status(r)
      /\ \A s \in Request \ {r} : answer'[s] = answer[s] /\ req'[s] = req[s]
      /\ UNCHANGED <<loop, owner>>
  BY RequestShape DEF Reply, MayReply, StageInv, IInv, TypeOK, Move
<1>2. /\ req'[r].phase = IF req[r].phase = "written" THEN "written" ELSE "done"
      /\ req'[r].email = req[r].email /\ req'[r].op = req[r].op /\ req'[r].at = req[r].at
  BY <1>1 DEF Reply, StageInv, IInv, TypeOK, Move, RequestState
<1>3. answer'[r] # "none"
  BY <1>1 DEF RequestState, Outcome, Answer, Status
<1>4. Stage(r)'
  BY <1>1, <1>2, <1>3
     DEF StageInv, Stage, HoldsLoop, RightOperation, AnswerDue, TrueDecision, OwnsAfterCommit
<1> QED
  BY <1>1, <1>4, StageFrame DEF OwnersKept

\* The commit, the commit that fails and the crash are ends of sessions.
LEMMA StageCommit ==
    ASSUME StageInv, NEW r \in Request, Commit(r) \/ CommitFails(r)
    PROVE  \A s \in Request : Stage(s)'
<1>1. PICK C \in SUBSET {r} : Ends({r}, C)
  BY CommitEnds DEF StageInv, IInv
<1>2. /\ req[r].phase = "leaving"
      /\ req'[r].phase = "done" <=> answer[r] # "none"
      /\ req'[r].phase = "committed" => req'[r].code = "201"
      /\ req'[r].phase = "decided" => req'[r].code = "failed"
      /\ req'[r].at = req[r].at
      /\ UNCHANGED <<loop, answer>>
  BY CommitEnds DEF StageInv, IInv
<1>3. \A p \in Process : loop'[p] # r
  BY <1>2 DEF StageInv, Stage, HoldsLoop
<1> QED
  BY <1>1, <1>2, <1>3, StageEnds

LEMMA StageCrash ==
    ASSUME StageInv, NEW p \in Process, Crash(p)
    PROVE  \A s \in Request : Stage(s)'
<1>1. PICK S \in SUBSET Request :
          /\ S = {r \in Request : InHand(r) /\ req[r].at = p}
          /\ \E C \in SUBSET S : Ends(S, C)
          /\ \A r \in S : req'[r].phase = "done" /\ answer'[r] # "none" /\ req'[r].at = req[r].at
          /\ loop' = [loop EXCEPT ![p] = "nobody"]
  BY CrashEnds DEF StageInv, IInv
<1>2. \A q \in Process : loop'[q] = IF q = p THEN "nobody" ELSE loop[q]
  BY <1>1 DEF StageInv, IInv, TypeOK
<1>3. \A r \in Request : \A q \in Process : loop[q] = r => (r \in S <=> q = p)
  BY <1>1 DEF StageInv, Stage, HoldsLoop, InHand
<1>4. /\ \A r \in S : \A q \in Process : loop'[q] # r
      /\ \A s \in Request \ S : \A q \in Process : loop'[q] = s <=> loop[q] = s
  BY <1>2, <1>3, NobodyAssumption
<1> QED
  BY <1>1, <1>4, StageEnds

\* The handler's steps and the way to the worker thread.
LEMMA StageHandler ==
    ASSUME StageInv, NEW r \in Request,
           \/ Login(r) \/ Look(r) \/ StatementFails(r) \/ Insert(r)
           \/ InsertDuplicate(r) \/ InsertFails(r) \/ Leave(r)
    PROVE  \A s \in Request : Stage(s)'
<1>1. /\ req[r].phase \in {"ready", "hashing", "written"} /\ req[r] \in RequestState
      /\ \A e \in Email : owner[e] # r
      /\ UNCHANGED <<replyFirst, owner, answer>>
  <2>1. /\ req[r].phase \in {"ready", "hashing", "written"}
        /\ UNCHANGED <<replyFirst, owner, answer>>
    BY DEF Login, Look, StatementFails, Insert, InsertDuplicate, InsertFails, Leave
  <2> QED
    BY <2>1, RequestShape DEF StageInv, IInv, Stage, OwnsAfterCommit
<1>2. CASE Login(r)
  <2> DEFINE c == IF Taken(req[r].email) THEN "200" ELSE "401"
  <2>1. /\ req[r].phase = "ready" /\ req[r].op = "login" /\ answer[r] = "none" /\ loop' = loop
        /\ req' = [req EXCEPT ![r].phase = "decided", ![r].code = c]
        /\ c = "401" \/ (c = "200" /\ owner[req[r].email] # "nobody")
    BY <1>2 DEF Login, Decide, Taken, StageInv, Stage, AnswerDue
  <2> HIDE DEF c
  <2> QED
    BY <1>1, <2>1, StageStep
<1>3. CASE Look(r)
  <2>1. req[r].phase = "ready" /\ req[r].op = "register" /\ answer[r] = "none"
    BY <1>3 DEF Look, StageInv, Stage, AnswerDue
  <2>2. CASE Taken(req[r].email) /\ Decide(r, "409") /\ loop' = loop
    BY <1>1, <2>1, <2>2, StageStep DEF Decide, Taken
  <2>3. CASE Move(r, "hashing") /\ loop' = [loop EXCEPT ![req[r].at] = r]
    <3>1. LoopFree(r)
      BY <1>3 DEF Look
    <3>2. req' = [req EXCEPT ![r].phase = "hashing", ![r].code = req[r].code]
      BY <2>1, <2>3, MoveIsPhase DEF StageInv, IInv
    <3> QED
      BY <1>1, <2>1, <2>3, <3>1, <3>2, StageStep
  <2> QED
    BY <1>3, <2>2, <2>3 DEF Look
<1>4. CASE Insert(r)
  <2>1. /\ req[r].phase = "hashing" /\ req[r].op = "register" /\ answer[r] = "none"
        /\ Move(r, "written") /\ Release(r)
    BY <1>4 DEF Insert, StageInv, Stage, AnswerDue, RightOperation
  <2>2. req' = [req EXCEPT ![r].phase = "written", ![r].code = req[r].code]
    BY <2>1, MoveIsPhase DEF StageInv, IInv
  <2> QED
    BY <1>1, <2>1, <2>2, StageStep
<1>5. CASE InsertDuplicate(r) \/ InsertFails(r)
  <2>1. /\ req[r].phase = "hashing" /\ answer[r] = "none"
        /\ Decide(r, "500") \/ Decide(r, "failed")
        /\ Release(r)
    BY <1>5 DEF InsertDuplicate, InsertFails, StageInv, Stage, AnswerDue
  <2> QED
    BY <1>1, <2>1, StageStep DEF Decide
<1>6. CASE Leave(r)
  <2>1. /\ req[r].phase = "written" /\ req[r].op = "register"
        /\ Move(r, "leaving") /\ loop' = loop
    BY <1>6 DEF Leave, StageInv, Stage, RightOperation
  <2>2. req' = [req EXCEPT ![r].phase = "leaving", ![r].code = req[r].code]
    BY <2>1, MoveIsPhase DEF StageInv, IInv
  <2> QED
    BY <1>1, <2>1, <2>2, StageStep
<1>7. CASE StatementFails(r)
  <2>1. /\ req[r].phase = "ready" /\ answer[r] = "none" /\ loop' = loop
        /\ req' = [req EXCEPT ![r].phase = "decided", ![r].code = "failed"]
    BY <1>7 DEF StatementFails, Decide, StageInv, Stage, AnswerDue
  <2> QED
    BY <1>1, <2>1, StageStep
<1> QED
  BY <1>2, <1>3, <1>4, <1>5, <1>6, <1>7

\* The end of a session without writes fails: it made no account.
LEMMA StageSession ==
    ASSUME StageInv, NEW r \in Request, SessionFails(r)
    PROVE  \A s \in Request : Stage(s)'
<1>1. /\ req[r].phase = "decided" /\ req[r] \in RequestState
      /\ req' = [req EXCEPT ![r].phase = "decided", ![r].code = "failed"]
      /\ UNCHANGED <<loop, owner, answer>>
  BY RequestShape DEF SessionFails, Decide, StageInv, IInv
<1>2. /\ req'[r].phase = "decided" /\ req'[r].code = "failed"
      /\ req'[r].email = req[r].email /\ req'[r].op = req[r].op /\ req'[r].at = req[r].at
      /\ \A s \in Request \ {r} : req'[s] = req[s]
  BY <1>1 DEF StageInv, IInv, TypeOK, RequestState
<1>3. Stage(r)'
  BY <1>1, <1>2
     DEF StageInv, Stage, HoldsLoop, RightOperation, AnswerDue, TrueDecision, OwnsAfterCommit
<1> QED
  BY <1>1, <1>2, <1>3, StageFrame DEF OwnersKept

LEMMA StageNext == StageInv /\ [Next]_vars => StageInv'
<1> SUFFICES ASSUME StageInv, [Next]_vars
             PROVE  StageInv'
  OBVIOUS
<1>1. IInv'
  BY NextInv DEF StageInv
<1>2. CASE UNCHANGED vars
  <2>1. OwnersKept /\ UNCHANGED <<req, loop, owner, answer>>
    BY <1>2 DEF vars, OwnersKept
  <2>2. \A s \in Request : Stage(s)'
    BY <2>1, StageFrame
  <2> QED
    BY <1>1, <2>2 DEF StageInv
<1>3. CASE Next
  <2>1. \A s \in Request : Stage(s)'
    BY <1>3, StageArrive, StageHandler, StageCommit, StageSession, StageReply, StageCrash
       DEF Next, Progress
  <2> QED
    BY <1>1, <2>1 DEF StageInv
<1> QED
  BY <1>1, <1>2, <1>3 DEF StageInv

\* How far requests are holds in every state of every behaviour.
THEOREM StageInvariance == Spec => []StageInv
<1>1. Init => StageInv
  BY InitInv, StageInit DEF StageInv
<1> QED
  BY <1>1, StageNext, PTL DEF Spec

----------------------------------------------------------------------------
(* Registration implements the abstract accounts                              *)

\* Steps that the abstract accounts do not see.
LEMMA AskedKept ==
    ASSUME \A r \in Request : /\ req'[r] = NoRequest <=> req[r] = NoRequest
                              /\ req[r] # NoRequest => /\ req'[r].op = req[r].op
                                                       /\ req'[r].email = req[r].email
    PROVE  Asked' = Asked
  BY DEF Asked

\* What a request asks for, and for how long it does.
LEMMA AskedShape ==
    ASSUME StageInv, NEW r \in Request
    PROVE  IF req[r].phase = "new" THEN Asked[r] = Abstract!Nothing
           ELSE /\ Asked[r] = [op |-> req[r].op, email |-> req[r].email]
                /\ Asked[r] # Abstract!Nothing
                /\ Asked[r].op = req[r].op /\ Asked[r].email = req[r].email
<1>1. CASE req[r].phase = "new"
  BY <1>1 DEF StageInv, Stage, Asked, Abstract!Nothing
<1>2. CASE req[r].phase # "new"
  <2>1. req[r].op \in Operation
    BY <1>2, RequestShape DEF StageInv, IInv, RequestState
  <2>2. req[r] # NoRequest
    BY <1>2 DEF NoRequest
  <2>3. Asked[r] = [op |-> req[r].op, email |-> req[r].email]
    BY <2>2 DEF Asked
  <2> QED
    BY <1>2, <2>1, <2>3 DEF Operation, Abstract!Nothing
<1> QED
  BY <1>1, <1>2

LEMMA RefinementInit == Init => Abstract!Init
  BY DEF Init, Abstract!Init, Abstract!Nothing, Asked

LEMMA ArriveAsks ==
    ASSUME StageInv, NEW r \in Request, NEW p \in Process, NEW o \in Operation, NEW e \in Email,
           Arrive(r, p, o, e)
    PROVE  Abstract!Ask(r, o, e)
<1>1. /\ req[r] = NoRequest
      /\ req'[r] # NoRequest /\ req'[r].op = o /\ req'[r].email = e
      /\ \A s \in Request \ {r} : req'[s] = req[s]
  BY DEF Arrive, NoRequest, StageInv, IInv, TypeOK
<1>2. Asked[r] = Abstract!Nothing
  BY <1>1 DEF Asked, Abstract!Nothing
<1>3. Asked' = [Asked EXCEPT ![r] = [op |-> o, email |-> e]]
  <2>1. Asked'[r] = [op |-> o, email |-> e]
    BY <1>1 DEF Asked
  <2>2. \A s \in Request \ {r} : Asked'[s] = Asked[s]
    BY <1>1 DEF Asked
  <2>3. DOMAIN Asked' = Request /\ Asked' = [s \in Request |-> Asked'[s]]
    BY DEF Asked
  <2>4. Asked = [s \in Request |-> Asked[s]]
    BY DEF Asked
  <2> QED
    BY <2>1, <2>2, <2>3, <2>4
<1> QED
  BY <1>2, <1>3 DEF Abstract!Ask, Arrive

LEMMA HandlerStutters ==
    ASSUME StageInv, NEW r \in Request,
           \/ Login(r) \/ Look(r) \/ StatementFails(r) \/ Insert(r)
           \/ InsertDuplicate(r) \/ InsertFails(r) \/ Leave(r) \/ SessionFails(r)
    PROVE  UNCHANGED <<replyFirst, Asked, owner, answer>>
<1>1. /\ req[r].phase \in {"ready", "hashing", "written", "decided"}
      /\ UNCHANGED <<replyFirst, owner, answer>>
      /\ (\E ph \in Phase \ {"new"} : Move(r, ph)) \/ \E c \in Outcome : Decide(r, c)
  BY DEF Login, Look, StatementFails, Insert, InsertDuplicate, InsertFails, Leave,
         SessionFails, Phase, Outcome, Answer
<1>2. req[r] \in RequestState
  BY <1>1, RequestShape DEF StageInv, IInv
<1>3. /\ req'[r].phase # "new" /\ req'[r].op = req[r].op /\ req'[r].email = req[r].email
      /\ \A s \in Request \ {r} : req'[s] = req[s]
  BY <1>1, <1>2 DEF Move, Decide, StageInv, IInv, TypeOK, RequestState
<1>4. Asked' = Asked
  BY <1>1, <1>3, AskedKept DEF NoRequest
<1> QED
  BY <1>1, <1>4

LEMMA ReplyTells ==
    ASSUME StageInv, NEW r \in Request, Reply(r)
    PROVE  \E c \in Answer : Abstract!Tell(r, c)
<1> DEFINE c == Status(r)
<1>1. /\ req[r].phase \in {"committed", "decided"} \/ (replyFirst /\ req[r].phase = "written")
      /\ req[r] \in RequestState /\ answer[r] = "none"
      /\ answer' = [answer EXCEPT ![r] = c]
      /\ UNCHANGED <<replyFirst, owner>>
      /\ req' = req \/ Move(r, "done")
  BY RequestShape DEF Reply, MayReply, StageInv, IInv
<1>2. Asked' = Asked
  <2>1. /\ req'[r].phase # "new" /\ req'[r].op = req[r].op /\ req'[r].email = req[r].email
        /\ \A s \in Request \ {r} : req'[s] = req[s]
    BY <1>1 DEF Move, StageInv, IInv, TypeOK, RequestState
  <2> QED
    BY <1>1, <2>1, AskedKept DEF NoRequest
<1>3. c \in Answer
  BY <1>1 DEF RequestState, Outcome, Answer, Status
<1>4. /\ Asked[r] # Abstract!Nothing
      /\ Asked[r].op = req[r].op /\ Asked[r].email = req[r].email
  BY <1>1, AskedShape
<1>5. Abstract!Truthful(r, c)
  <2>1. CASE req[r].phase = "written"
    BY <1>1, <1>4, <2>1 DEF Status, Abstract!Truthful, StageInv, Stage, RightOperation
  <2>2. CASE req[r].phase = "committed"
    BY <1>1, <1>4, <2>2
       DEF Status, Abstract!Truthful, StageInv, Stage, RightOperation, TrueDecision, IInv,
           CommittedOwns
  <2>3. CASE req[r].phase = "decided"
    BY <1>1, <1>4, <2>3 DEF Status, Abstract!Truthful, StageInv, Stage, TrueDecision
  <2> QED
    BY <1>1, <2>1, <2>2, <2>3
<1> HIDE DEF c
<1> QED
  BY <1>1, <1>2, <1>3, <1>4, <1>5 DEF Abstract!Tell

\* The ends of sessions make the accounts of those that came to their commit.
LEMMA EndsSettle ==
    ASSUME StageInv, TypeOK', NEW S \in SUBSET Request, NEW C \in SUBSET S, Ends(S, C)
    PROVE  /\ C \in SUBSET Abstract!Registering
           /\ \E L \in SUBSET Abstract!Unanswered : Abstract!Settle(C, L)
<1> DEFINE L == {r \in Request : answer'[r] # answer[r]}
<1>1. Asked' = Asked
  BY AskedKept DEF Ends, NoRequest
<1>2. \A r \in S : /\ Asked[r] # Abstract!Nothing
                   /\ Asked[r].op = req[r].op /\ Asked[r].email = req[r].email
  <2>1. \A r \in S : r \in Request /\ req[r].phase # "new"
    BY DEF Ends
  <2> QED
    BY <2>1, AskedShape
<1>3. \A r \in C : /\ Asked[r].op = "register"
                   /\ owner[Asked[r].email] = "nobody"
                   /\ \A s \in C : Asked[s].email = Asked[r].email => s = r
  BY <1>2 DEF Ends, StageInv, Stage, RightOperation, IInv, OneWriter, Writing
<1>4. \A r \in L : r \in S /\ answer[r] = "none" /\ answer'[r] = "lost"
  BY DEF Ends
<1>5. answer' = [r \in Request |-> IF r \in L THEN "lost" ELSE answer[r]]
  BY <1>4 DEF TypeOK
<1>6. /\ owner' \in [Email -> Request \cup {"nobody"}]
      /\ \A e \in Email : \/ owner'[e] \in C /\ Asked[owner'[e]].email = e
                          \/ owner'[e] = owner[e] /\ \A r \in C : Asked[r].email # e
  BY <1>2 DEF TypeOK, Ends
<1>7. C \in SUBSET Abstract!Registering /\ L \in SUBSET Abstract!Unanswered
  BY <1>2, <1>3, <1>4 DEF Abstract!Registering, Abstract!Unanswered
<1>8. replyFirst' = replyFirst
  BY DEF Ends
<1> HIDE DEF L
<1>9. Abstract!Settle(C, L)
  BY <1>1, <1>3, <1>5, <1>6, <1>8 DEF Abstract!Settle
<1> QED
  BY <1>7, <1>9

LEMMA RefinementStep ==
    StageInv /\ TypeOK' /\ [Next]_vars
        => [Abstract!Next]_<<replyFirst, Asked, owner, answer>>
<1> SUFFICES ASSUME StageInv, TypeOK', [Next]_vars
             PROVE  Abstract!Next \/ UNCHANGED <<replyFirst, Asked, owner, answer>>
  OBVIOUS
<1>1. ASSUME NEW r \in Request, NEW p \in Process, NEW o \in Operation, NEW e \in Email,
             Arrive(r, p, o, e)
      PROVE  Abstract!Next
  BY <1>1, ArriveAsks DEF Abstract!Next, Operation
<1>2. ASSUME NEW r \in Request,
             \/ Login(r) \/ Look(r) \/ StatementFails(r) \/ Insert(r)
             \/ InsertDuplicate(r) \/ InsertFails(r) \/ Leave(r) \/ SessionFails(r)
      PROVE  UNCHANGED <<replyFirst, Asked, owner, answer>>
  BY <1>2, HandlerStutters
<1>3. ASSUME NEW r \in Request, Reply(r)
      PROVE  Abstract!Next
  BY <1>3, ReplyTells DEF Abstract!Next, Answer
<1>4. ASSUME NEW S \in SUBSET Request, NEW C \in SUBSET S, Ends(S, C)
      PROVE  Abstract!Next
  BY <1>4, EndsSettle DEF Abstract!Next
<1>5. ASSUME NEW r \in Request, Commit(r) \/ CommitFails(r)
      PROVE  Abstract!Next
  <2>1. \E C \in SUBSET {r} : Ends({r}, C)
    BY <1>5, CommitEnds DEF StageInv, IInv
  <2> QED
    BY <1>4, <2>1
<1>6. ASSUME NEW p \in Process, Crash(p)
      PROVE  Abstract!Next
  <2>1. \E S \in SUBSET Request : \E C \in SUBSET S : Ends(S, C)
    BY <1>6, CrashEnds DEF StageInv, IInv
  <2> QED
    BY <1>4, <2>1
<1>7. CASE UNCHANGED vars
  BY <1>7 DEF vars, Asked
<1> QED
  BY <1>1, <1>2, <1>3, <1>5, <1>6, <1>7 DEF Next, Progress

\* An account is made once and never taken over, and what a client is told of an
\* account is true when it is told, for any number of processes and requests.
THEOREM RefinementTheorem == Spec => ImplementsAccounts
<1>1. Init => Abstract!Init
  BY RefinementInit
<1>2. StageInv /\ StageInv' /\ [Next]_vars
          => [Abstract!Next]_<<replyFirst, Asked, owner, answer>>
  BY RefinementStep DEF StageInv, IInv
<1> QED
  BY <1>1, <1>2, StageInvariance, PTL DEF Spec, ImplementsAccounts, Abstract!Spec

----------------------------------------------------------------------------
(* Why every request is answered: the parts that are not about fairness       *)

\* Who is blocked is blocked by a request that is not blocked itself, and whose
\* loop is free unless its own process is busy with another request.
LEMMA BlockersMove ==
    ASSUME StageInv, NEW r \in Request, req[r].phase = "hashing", Blocked(r)
    PROVE  \E s \in Request \ {r} :
               /\ req[s].phase \in {"written", "leaving"} /\ req[s].email = req[r].email
               /\ req[r].op = "register" /\ req[s].op = "register"
               /\ CanMove(s) \/ \E t \in Request \ {s} : InHand(t) /\ req[t].at = req[s].at
<1>1. PICK s \in Request \ {r} : /\ req[s].phase \in {"written", "leaving"}
                                 /\ req[s].email = req[r].email
  BY DEF Blocked
<1>2. req[s].at \in Process
  BY <1>1, RequestShape DEF StageInv, IInv, RequestState
<1>3. ASSUME ~LoopFree(s)
      PROVE  \E t \in Request \ {s} : InHand(t) /\ req[t].at = req[s].at
  <2>1. loop[req[s].at] \in Request
    BY <1>2, <1>3 DEF LoopFree, StageInv, IInv, TypeOK
  <2> QED
    BY <1>1, <1>2, <2>1 DEF StageInv, Stage, HoldsLoop, InHand
<1> QED
  BY <1>1, <1>3 DEF StageInv, Stage, RightOperation, CanMove, NeedsLoop

\* Under either condition a request that holds its loop can move, or waits for a
\* request that can.
LEMMA HoldersMove ==
    ASSUME StageInv, NoOverlap \/ OneInHand, NEW r \in Request, req[r].phase = "hashing"
    PROVE  \/ CanMove(r)
           \/ /\ OneInHand
              /\ \E s \in Request : WaitsFor(r, s) /\ CanMove(s)
<1>1. CASE ~Blocked(r)
  BY <1>1 DEF CanMove
<1>2. CASE Blocked(r)
  <2>1. PICK s \in Request \ {r} :
               /\ req[s].phase \in {"written", "leaving"} /\ req[s].email = req[r].email
               /\ req[r].op = "register" /\ req[s].op = "register"
               /\ CanMove(s) \/ \E t \in Request \ {s} : InHand(t) /\ req[t].at = req[s].at
    BY <1>2, BlockersMove
  <2>2. InHand(r) /\ InHand(s)
    BY <2>1 DEF InHand
  <2>3. OneInHand
    BY <2>1, <2>2 DEF NoOverlap
  <2> QED
    BY <2>1, <2>2, <2>3 DEF OneInHand, WaitsFor
<1> QED
  BY <1>1, <1>2

\* Where registrations of an address do not overlap or no process has two requests
\* in hand, requests never wait for each other in a circle.
THEOREM NoDeadlockTheorem == Spec => []NoDeadlock
<1>1. StageInv => NoDeadlock
  <2> SUFFICES ASSUME StageInv, NoOverlap \/ OneInHand, NEW r \in Request,
                      req[r].phase # "new", answer[r] = "none"
               PROVE  CanMove(r) \/ \E s \in Request : WaitsFor(r, s) /\ CanMove(s)
    BY DEF NoDeadlock
  <2>1. req[r].at \in Process /\ req[r].phase \in Phase \ {"new", "done"}
    BY RequestShape DEF StageInv, IInv, RequestState, Stage, AnswerDue
  <2>2. CASE req[r].phase = "hashing"
    BY <2>2, HoldersMove
  <2>3. CASE req[r].phase = "leaving" \/ LoopFree(r)
    BY <2>1, <2>2, <2>3 DEF CanMove, NeedsLoop, Phase
  <2>4. CASE req[r].phase \notin {"hashing", "leaving"} /\ ~LoopFree(r)
    <3> DEFINE s == loop[req[r].at]
    <3>1. s \in Request
      BY <2>1, <2>4 DEF LoopFree, StageInv, IInv, TypeOK
    <3>2. req[s].phase = "hashing" /\ req[s].at = req[r].at
      BY <2>1, <3>1 DEF StageInv, Stage, HoldsLoop
    <3>3. WaitsFor(r, s) /\ InHand(r) /\ InHand(s) /\ r # s
      BY <2>1, <2>4, <3>2 DEF WaitsFor, NeedsLoop, Phase, InHand
    <3>4. ~OneInHand
      BY <3>1, <3>2, <3>3 DEF OneInHand
    <3> QED
      BY <3>1, <3>2, <3>3, <3>4, HoldersMove
  <2> QED
    BY <2>2, <2>3, <2>4
<1> QED
  BY <1>1, StageInvariance, PTL

\* The steps that a request has left to its answer and the end of its session.
StepsLeft(r) == IF req[r].phase = "ready" THEN 6
                ELSE IF req[r].phase = "hashing" THEN 5
                ELSE IF req[r].phase = "written" THEN IF answer[r] = "none" THEN 4 ELSE 3
                ELSE IF req[r].phase = "leaving" THEN 2
                ELSE IF req[r].phase \in {"committed", "decided"} THEN 1
                ELSE 0

LEMMA StepsFrame ==
    ASSUME NEW r, req'[r] = req[r], answer'[r] = answer[r]
    PROVE  StepsLeft(r)' = StepsLeft(r)
  BY DEF StepsLeft

\* What the event loop and the worker threads do for a request brings it nearer to
\* its end, and nothing anybody does takes it back: six such steps are enough.
StepsRunOut ==
    [][\A r \in Request : req[r].phase # "new" =>
           /\ StepsLeft(r)' <= StepsLeft(r)
           /\ Progress(r) => StepsLeft(r)' < StepsLeft(r)]_vars

\* The steps of r itself.
LEMMA OwnSteps ==
    ASSUME StageInv, NEW r \in Request,
           Progress(r) \/ StatementFails(r) \/ InsertFails(r) \/ CommitFails(r)
    PROVE  /\ StepsLeft(r)' < StepsLeft(r)
           /\ \A s \in Request \ {r} : req'[s] = req[s] /\ answer'[s] = answer[s]
<1>1. req[r].phase # "new" /\ req[r] \in RequestState
  <2>1. req[r].phase # "new"
    BY DEF Progress, Login, Look, StatementFails, Insert, InsertDuplicate, InsertFails,
           Leave, Commit, CommitFails, Reply, MayReply
  <2> QED
    BY <2>1, RequestShape DEF StageInv, IInv
<1>2. ASSUME NEW ph \in Phase, NEW c \in Outcome,
             req' = [req EXCEPT ![r].phase = ph, ![r].code = c]
      PROVE  req'[r].phase = ph /\ \A s \in Request \ {r} : req'[s] = req[s]
  BY <1>1, <1>2 DEF StageInv, IInv, TypeOK, RequestState
<1>3. ASSUME NEW ph \in Phase, Move(r, ph)
      PROVE  req'[r].phase = ph /\ \A s \in Request \ {r} : req'[s] = req[s]
  BY <1>1, <1>2, <1>3, MoveIsPhase DEF StageInv, IInv
<1>4. CASE Login(r) \/ Look(r) \/ StatementFails(r) \/ InsertDuplicate(r) \/ InsertFails(r)
  <2>1. /\ req[r].phase \in {"ready", "hashing"} /\ answer' = answer
        /\ (\E c \in Outcome : Decide(r, c)) \/ (req[r].phase = "ready" /\ Move(r, "hashing"))
    BY <1>4 DEF Login, Look, StatementFails, InsertDuplicate, InsertFails, Outcome, Answer
  <2>2. CASE \E c \in Outcome : Decide(r, c)
    <3>1. req'[r].phase = "decided" /\ \A s \in Request \ {r} : req'[s] = req[s]
      BY <1>2, <2>2 DEF Decide, Phase
    <3> QED
      BY <2>1, <3>1 DEF StepsLeft
  <2>3. CASE req[r].phase = "ready" /\ Move(r, "hashing")
    BY <1>3, <2>1, <2>3 DEF StepsLeft, Phase
  <2> QED
    BY <2>1, <2>2, <2>3
<1>5. CASE Insert(r) \/ Leave(r)
  BY <1>3, <1>5 DEF Insert, Leave, StepsLeft, Phase
<1>6. CASE Commit(r) \/ CommitFails(r)
  <2>1. PICK C \in SUBSET {r} : Ends({r}, C)
    BY <1>6, CommitEnds DEF StageInv, IInv
  <2>2. req[r].phase = "leaving" /\ answer' = answer
    BY <1>6, CommitEnds DEF StageInv, IInv
  <2> QED
    BY <2>1, <2>2 DEF Ends, StepsLeft
<1>7. CASE Reply(r)
  <2>1. /\ req[r].phase \in {"committed", "decided", "written"} /\ answer[r] = "none"
        /\ answer' = [answer EXCEPT ![r] = Status(r)]
        /\ IF req[r].phase = "written" THEN req' = req ELSE Move(r, "done")
    BY <1>7 DEF Reply, MayReply
  <2>2. answer'[r] # "none" /\ \A s \in Request \ {r} : answer'[s] = answer[s]
    BY <1>1, <2>1 DEF StageInv, IInv, TypeOK, RequestState, Outcome, Answer, Status
  <2>3. CASE req[r].phase = "written"
    BY <2>1, <2>2, <2>3 DEF StepsLeft
  <2>4. CASE req[r].phase # "written"
    BY <1>3, <2>1, <2>2, <2>4 DEF StepsLeft, Phase
  <2> QED
    BY <2>3, <2>4
<1> QED
  BY <1>4, <1>5, <1>6, <1>7 DEF Progress

\* No request takes more than six steps to its answer and the end of its session.
THEOREM StepsTheorem == Spec => StepsRunOut
<1> DEFINE Nearer(r) == /\ StepsLeft(r)' <= StepsLeft(r)
                        /\ Progress(r) => StepsLeft(r)' < StepsLeft(r)
<1>1. \A r \in Request : StepsLeft(r) \in 0 .. 6
  BY DEF StepsLeft
<1>2. ASSUME StageInv, Next, NEW s \in Request, req[s].phase # "new"
      PROVE  Nearer(s)
  <2>1. CASE Progress(s)
    BY <1>1, <1>2, <2>1, OwnSteps DEF StepsLeft
  <2>2. CASE ~Progress(s)
    <3>1. ASSUME NEW r \in Request, NEW p \in Process, NEW o \in Operation, NEW e \in Email,
                 Arrive(r, p, o, e)
          PROVE  StepsLeft(s)' <= StepsLeft(s)
      <4>1. req'[s] = req[s] /\ answer'[s] = answer[s]
        BY <1>2, <3>1 DEF Arrive, NoRequest, StageInv, IInv, TypeOK
      <4> QED
        BY <1>1, <4>1, StepsFrame
    <3>2. ASSUME NEW r \in Request,
                 Progress(r) \/ StatementFails(r) \/ InsertFails(r) \/ CommitFails(r)
          PROVE  StepsLeft(s)' <= StepsLeft(s)
      <4>1. CASE r = s
        BY <1>1, <1>2, <3>2, <4>1, OwnSteps DEF StepsLeft
      <4>2. CASE r # s
        <5>1. req'[s] = req[s] /\ answer'[s] = answer[s]
          BY <1>2, <3>2, <4>2, OwnSteps
        <5> QED
          BY <1>1, <5>1, StepsFrame
      <4> QED
        BY <4>1, <4>2
    <3>3. ASSUME NEW p \in Process, Crash(p)
          PROVE  StepsLeft(s)' <= StepsLeft(s)
      <4>1. PICK S \in SUBSET Request :
                /\ \E C \in SUBSET S : Ends(S, C)
                /\ \A r \in S : req'[r].phase = "done"
        BY <1>2, <3>3, CrashEnds DEF StageInv, IInv
      <4>2. CASE s \in S
        <5>1. StepsLeft(s)' = 0
          BY <4>1, <4>2 DEF StepsLeft
        <5> QED
          BY <1>1, <5>1
      <4>3. CASE s \notin S
        <5>1. req'[s] = req[s] /\ answer'[s] = answer[s]
          BY <4>1, <4>3 DEF Ends
        <5> QED
          BY <1>1, <5>1, StepsFrame
      <4> QED
        BY <4>2, <4>3
    <3>4. ASSUME NEW r \in Request, SessionFails(r)
          PROVE  StepsLeft(s)' <= StepsLeft(s)
      <4>1. /\ req[r].phase = "decided" /\ answer' = answer
            /\ req' = [req EXCEPT ![r].phase = "decided", ![r].code = "failed"]
        BY <3>4 DEF SessionFails, Decide
      <4>2. req'[s].phase = req[s].phase /\ answer'[s] = answer[s]
        BY <1>2, <4>1, RequestShape DEF StageInv, IInv, TypeOK, RequestState
      <4> QED
        BY <1>1, <4>2 DEF StepsLeft
    <3> QED
      BY <1>2, <2>2, <3>1, <3>2, <3>3, <3>4 DEF Next
  <2> QED
    BY <2>1, <2>2
<1>3. StageInv /\ [Next]_vars => [\A r \in Request : req[r].phase # "new" => Nearer(r)]_vars
  BY <1>2
<1> QED
  BY <1>3, StageInvariance, PTL DEF Spec, StepsRunOut

=============================================================================
