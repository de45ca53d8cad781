---------------------------- MODULE Registration ----------------------------
(* Accounts: POST /auth/register and POST /auth/login of gateway processes on *)
(* one PostgreSQL database.                                                   *)
(*                                                                            *)
(* The handlers are coroutines that never await anything that waits: one that *)
(* has started keeps the event loop of its process to its end, while it       *)
(* hashes a password and while the database makes it wait.  The session is a  *)
(* dependency: it is committed after the handler, in a worker thread, and the *)
(* loop has to be free to send it there.  FastAPI before 0.118 does that      *)
(* before it sends the response, from 0.118 on after it; both may be          *)
(* installed.  An INSERT whose address another open transaction has inserted  *)
(* waits for the end of that transaction; nothing limits the wait.            *)
EXTENDS Naturals

CONSTANTS Process,      \* gateway processes
          Request,      \* requests
          Email         \* normalised addresses

ASSUME NobodyAssumption == "nobody" \notin Request

VARIABLES replyFirst,   \* whether the response is sent before the commit
          req,          \* req[r]: the request and how far it is
          loop,         \* loop[p]: the request whose handler holds p's event loop
          owner,        \* owner[e]: the committed row of users with address e
          answer        \* answer[r]: the status the client got, or "lost"

vars == <<replyFirst, req, loop, owner, answer>>

Operation == {"register", "login"}
Phase == {"new", "ready", "hashing", "written", "leaving", "committed", "decided", "done"}
Answer == {"200", "201", "401", "409", "500"}
\* What a handler and the end of its session come to: a status, or "failed" where
\* the database could not be reached, which is answered 500.
Outcome == Answer \cup {"failed"}
RequestState == [phase : Phase, at : Process, op : Operation, email : Email,
                 created : BOOLEAN, code : Outcome]
NoRequest == [phase |-> "new", created |-> FALSE]

InHand(r) == req[r].phase \notin {"new", "done"}
LoopFree(r) == loop[req[r].at] = "nobody"
Release(r) == loop' = [loop EXCEPT ![req[r].at] = "nobody"]
Move(r, ph) == req' = [req EXCEPT ![r].phase = ph]
Decide(r, c) == req' = [req EXCEPT ![r].phase = "decided", ![r].code = c]

----------------------------------------------------------------------------
(* Mutated forms of definitions below, used to check that the properties are  *)
(* sensitive to the code they are about.                                      *)

\* The address is looked up as it was written, not as it is stored.
NeverTaken(e) == FALSE

\* The session is committed after the response in every version.
ReplyAtOnce(r) == req[r].phase \in {"written", "committed", "decided"}

\* An open write locks the whole table, as in SQLite.
TableLocked(r) == \E s \in Request \ {r} : req[s].phase \in {"written", "leaving"}

\* The look already locks the address.
LockedByLook(r) ==
    \E s \in Request \ {r} : /\ req[s].phase \in {"hashing", "written", "leaving"}
                             /\ req[s].email = req[r].email

----------------------------------------------------------------------------

Init == /\ replyFirst \in BOOLEAN
        /\ req = [r \in Request |-> NoRequest]
        /\ loop = [p \in Process |-> "nobody"]
        /\ owner = [e \in Email |-> "nobody"]
        /\ answer = [r \in Request |-> "none"]

\* Some client was told that the address is registered.
Created(e) == \E s \in Request : answer[s] = "201" /\ req[s].email = e

\* A request comes in and its dependencies are resolved; the session opens no
\* transaction before its first statement.
Arrive(r, p, o, e) ==
    /\ req[r] = NoRequest
    /\ req' = [req EXCEPT ![r] = [phase |-> "ready", at |-> p, op |-> o, email |-> e,
                                  created |-> Created(e), code |-> "500"]]
    /\ UNCHANGED <<replyFirst, loop, owner, answer>>

\* exists_by_email, get_by_email: a statement sees what is committed.
Taken(e) == owner[e] # "nobody"

\* The login handler, with the right password.
Login(r) == /\ req[r].phase = "ready" /\ req[r].op = "login"
            /\ LoopFree(r)
            /\ Decide(r, IF Taken(req[r].email) THEN "200" ELSE "401")
            /\ UNCHANGED <<replyFirst, loop, owner, answer>>

\* The register handler up to the hash of the password, which takes its time.
Look(r) == /\ req[r].phase = "ready" /\ req[r].op = "register"
           /\ LoopFree(r)
           /\ \/ /\ Taken(req[r].email)
                 /\ Decide(r, "409")
                 /\ UNCHANGED loop
              \/ /\ ~Taken(req[r].email)
                 /\ Move(r, "hashing")
                 /\ loop' = [loop EXCEPT ![req[r].at] = r]
           /\ UNCHANGED <<replyFirst, owner, answer>>

\* The first statement of the handler fails: there is no connection to the
\* database, or it breaks during the SELECT.
StatementFails(r) == /\ req[r].phase = "ready"
                     /\ LoopFree(r)
                     /\ Decide(r, "failed")
                     /\ UNCHANGED <<replyFirst, loop, owner, answer>>

\* The INSERT waits for an open transaction that inserted the address.
Blocked(r) ==
    \E s \in Request \ {r} : /\ req[s].phase \in {"written", "leaving"}
                             /\ req[s].email = req[r].email

\* save: the flushed INSERT, and the end of the handler.
Insert(r) == /\ req[r].phase = "hashing"
             /\ ~Blocked(r)
             /\ owner[req[r].email] = "nobody"
             /\ Move(r, "written")
             /\ Release(r)
             /\ UNCHANGED <<replyFirst, owner, answer>>

\* IntegrityError, which no handler turns into DuplicateEmailError.
InsertDuplicate(r) == /\ req[r].phase = "hashing"
                      /\ ~Blocked(r)
                      /\ owner[req[r].email] # "nobody"
                      /\ Decide(r, "500")
                      /\ Release(r)
                      /\ UNCHANGED <<replyFirst, owner, answer>>

\* The connection to the database breaks.
InsertFails(r) == /\ req[r].phase = "hashing"
                  /\ Decide(r, "failed")
                  /\ Release(r)
                  /\ UNCHANGED <<replyFirst, owner, answer>>

\* The loop hands the end of the session to a worker thread.
Leave(r) == /\ req[r].phase = "written"
            /\ LoopFree(r)
            /\ replyFirst => answer[r] # "none"
            /\ Move(r, "leaving")
            /\ UNCHANGED <<replyFirst, loop, owner, answer>>

\* Where a request is after its commit: answered already, or still to be.
AfterCommit(r) == IF answer[r] = "none" THEN "committed" ELSE "done"

\* session.commit(), in the worker thread.
Commit(r) == /\ req[r].phase = "leaving"
             /\ owner' = [owner EXCEPT ![req[r].email] = r]
             /\ req' = [req EXCEPT ![r].phase = AfterCommit(r), ![r].code = "201"]
             /\ UNCHANGED <<replyFirst, loop, answer>>

\* The connection breaks during the commit, before or after it took effect.
CommitFails(r) == /\ req[r].phase = "leaving"
                  /\ \/ owner' = [owner EXCEPT ![req[r].email] = r]
                     \/ owner' = owner
                  /\ IF answer[r] = "none" THEN Decide(r, "failed") ELSE Move(r, "done")
                  /\ UNCHANGED <<replyFirst, loop, answer>>

\* The end of a session that wrote nothing fails: the commit after a login, or the
\* rollback after an exception.  Only the response to a login may be ahead of it.
SessionFails(r) == /\ req[r].phase = "decided"
                   /\ req[r].code \in IF replyFirst THEN {"401", "409"}
                                      ELSE {"200", "401", "409"}
                   /\ Decide(r, "failed")
                   /\ UNCHANGED <<replyFirst, loop, owner, answer>>

\* A response may be sent: after the session's end, or before it from 0.118 on.
MayReply(r) == \/ req[r].phase \in {"committed", "decided"}
               \/ replyFirst /\ req[r].phase = "written"

\* The status of the response.
Status(r) == IF req[r].phase = "written" THEN "201"
             ELSE IF req[r].code = "failed" THEN "500"
             ELSE req[r].code

Reply(r) == /\ MayReply(r)
            /\ LoopFree(r)
            /\ answer[r] = "none"
            /\ answer' = [answer EXCEPT ![r] = Status(r)]
            /\ IF req[r].phase = "written" THEN req' = req ELSE Move(r, "done")
            /\ UNCHANGED <<replyFirst, loop, owner>>

\* The process dies and is started again: its transactions are rolled back, but
\* for commits that took effect.
Crash(p) ==
    LET here == {r \in Request : InHand(r) /\ req[r].at = p}
    IN  /\ here # {}
        /\ \E C \in SUBSET {r \in here : req[r].phase = "leaving"} :
               owner' = [e \in Email |-> IF \E r \in C : req[r].email = e
                                         THEN CHOOSE r \in C : req[r].email = e
                                         ELSE owner[e]]
        /\ req' = [r \in Request |-> IF r \in here THEN [req[r] EXCEPT !.phase = "done"]
                                     ELSE req[r]]
        /\ answer' = [r \in Request |-> IF r \in here /\ answer[r] = "none" THEN "lost"
                                        ELSE answer[r]]
        /\ loop' = [loop EXCEPT ![p] = "nobody"]
        /\ UNCHANGED replyFirst

\* What the event loop and the worker threads do for a request.
Progress(r) == \/ Login(r) \/ Look(r) \/ Insert(r) \/ InsertDuplicate(r)
               \/ Leave(r) \/ Commit(r) \/ Reply(r)

Next == \/ \E r \in Request, p \in Process, o \in Operation, e \in Email : Arrive(r, p, o, e)
        \/ \E r \in Request : \/ Progress(r)
                             \/ StatementFails(r) \/ InsertFails(r)
                             \/ CommitFails(r) \/ SessionFails(r)
        \/ \E p \in Process : Crash(p)

Spec == Init /\ [][Next]_vars

\* asyncio runs every ready task and every worker thread comes to its end; nobody
\* has to send a request, and nothing has to break.
FairSpec == Spec /\ \A r \in Request : WF_vars(Progress(r))

----------------------------------------------------------------------------
(* Properties                                                                 *)

\* Every variable has its type.
TypeOK == /\ replyFirst \in BOOLEAN
          /\ req \in [Request -> RequestState \cup {NoRequest}]
          /\ loop \in [Process -> Request \cup {"nobody"}]
          /\ owner \in [Email -> Request \cup {"nobody"}]
          /\ answer \in [Request -> Answer \cup {"none", "lost"}]

\* Where the session is committed before the response, a client that was told 201
\* has the account, whatever processes race for its address and wherever they
\* die; so no second client is told 201 for it (register, _get_session).
ToldIsTrue ==
    ~replyFirst => \A r \in Request : answer[r] = "201" => owner[req[r].email] = r

\* What a request that came in after the 201 of its address is to be answered.
Expected(r) == IF req[r].op = "login" THEN "200" ELSE "409"

\* Where the session is committed before the response, a request that comes in
\* after the 201 finds the account: a login succeeds and a second registration is
\* answered 409, whatever else is in hand (test_register_login_and_me_flow and
\* test_register_duplicate_email, at any concurrency).  It is answered 500 only
\* where its own connection to the database failed, never for the unique index.
AfterCreated ==
    ~replyFirst => \A r \in Request :
        (req[r] # NoRequest /\ req[r].created) =>
            \/ answer[r] \in {"none", "lost", Expected(r)}
            \/ answer[r] = "500" /\ req[r].code = "failed"

Answered(r) == (req[r].phase # "new") ~> (answer[r] # "none")

\* Every request is answered, as long as no two registrations of one address are
\* in hand at the same time.
NoOverlap ==
    \A r, s \in Request : /\ r # s
                          /\ InHand(r) /\ req[r].op = "register"
                          /\ InHand(s) /\ req[s].op = "register"
                          => req[r].email # req[s].email
AnsweredWithoutOverlap == []NoOverlap => \A r \in Request : Answered(r)

\* Every request is answered, as long as no process has two requests in hand: what
\* makes a handler wait is then committed by another process.
OneInHand ==
    \A r, s \in Request : (r # s /\ InHand(r) /\ InHand(s)) => req[r].at # req[s].at
AnsweredOnePerProcess == []OneInHand => \A r \in Request : Answered(r)

\* The requests as the abstract accounts see them.
Asked == [r \in Request |-> IF req[r] = NoRequest THEN [op |-> "none"]
                            ELSE [op |-> req[r].op, email |-> req[r].email]]

Abstract == INSTANCE AccountRegistry WITH early <- replyFirst, asked <- Asked

\* Whatever processes race for an address and wherever they die or lose the
\* database, an account is made once and never taken over, and an answer that
\* speaks of an account (200, 201, 409) is true when it is sent; only a 201 sent
\* before the commit runs ahead (register, login, _get_session).
ImplementsAccounts == Abstract!Spec

\* The steps that an event loop takes for a request.
NeedsLoop(r) == req[r].phase \in {"ready", "written", "committed", "decided"}

\* Nothing keeps r from its next step.
CanMove(r) == \/ NeedsLoop(r) /\ LoopFree(r)
              \/ req[r].phase = "hashing" /\ ~Blocked(r)
              \/ req[r].phase = "leaving"

\* r waits for s: for the loop that s holds, or for the end of its transaction.
WaitsFor(r, s) ==
    \/ NeedsLoop(r) /\ loop[req[r].at] = s
    \/ /\ req[r].phase = "hashing" /\ req[s].phase \in {"written", "leaving"}
       /\ req[s].email = req[r].email

\* Where registrations of one address do not overlap, or no process has two requests
\* in hand, a request without an answer can move, or waits for one that can: the
\* handler that keeps the loop while its INSERT waits never waits for a request that
\* needs this loop (register is not offloaded to a thread).
NoDeadlock ==
    NoOverlap \/ OneInHand =>
        \A r \in Request : (req[r].phase # "new" /\ answer[r] = "none") =>
            CanMove(r) \/ \E s \in Request : WaitsFor(r, s) /\ CanMove(s)

=============================================================================
