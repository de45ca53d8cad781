# A verification of IntentLock

This directory holds TLA+ models of the parts of IntentLock whose correctness
depends on the order of events: which of two gateway processes consumes a
token, what a crash leaves in the key directory, what two approvers can do to
one row, what a lost Redis reply costs, which policy stands behind an execution
when the policy file was edited meanwhile, how long a deactivated account is
still served. TLC checks each model on small
instances; TLAPS proves the properties that matter most for every value of the
constants. Pure data (texts, signatures, report layout) is abstracted.

Run everything from this directory:

    tlc -workers 2 -config HitlQueue.cfg MCHitlQueue
    tlapm HitlQueueProofs.tla

`PROJECT.json` lists every run, the source lines each definition translates,
the mutated definition that breaks each property, the hazards and the findings.

## The system

IntentLock is a FastAPI gateway. A client asks `POST /api/v1/intent/verify`
whether an action may be performed; the gateway authorizes the caller, applies
the active policy, scores the text, and answers with a short-lived Ed25519
*execution token*. The client presents the token to `POST /intent/execute`,
which consumes its nonce and logs the execution.

| component | state it keeps | operations | shared with |
|---|---|---|---|
| execution tokens, nonce stores | L1 dict per process, `nonce:<jti>` keys in Redis | issue, verify and consume, execute | all processes through Redis |
| human approval queue | table `approval_requests` | enqueue, list, approve, reject, lazy expiry | all processes through the database |
| signing keys | `key_dir/*.pem`, `metadata.json`, lists and cache in memory | load, initialise, rotate, delete, sign, JWKS | every process on the directory |
| audit log | `logs/audit_trail.jsonl` | append plain, append chained, export, evidence | every process on the file |
| rate limiting | a Redis counter per window, or a list of stamps in memory | check | all processes through Redis |
| verification pipeline | none of its own | tenant check, authorization, policy, evaluation, token, log | the stores above |
| versioned policies | versions and the active one, in memory | load, activate, rollback, evaluate | the handlers of a process |
| accounts | table `users` | register, log in, current user, role | all processes through the database |
| velocity tracking | stamps and sums per scope, in memory | record, check, reset | the threads of a process (not called by the gateway) |
| env, KMS, HSM key managers | at most one key, perhaps in a file | load or make, sign, verify | every process with that path |
| compliance export | none | read the policy file and the trail, sign | policy file, audit log |
| SDK, LangChain adapter | none | verify, execute over HTTP | the gateway |
| metrics, event bus, integrations | counters | increment, publish | nothing reads them back |
| middleware, settings, migrations | none per request | | |

How the parts meet:

- **One event loop per process.** The route handlers are `async def` without an
  `await` between their first read and their last write, so in one process a
  handler runs to its end before the next starts. Two handlers interleave only
  across processes, which share Redis, the database, the key directory and the
  log file. Synchronous *dependencies* (a database session, the first
  construction of a store or key manager, the test of a role) run in worker
  threads and are the exception: between them and the handler other requests of
  the process take their turn.
- **Redis** is reached through a synchronous client that pings once, at the
  first request, and is disabled for the life of the process if that fails. A
  command can fail before it reaches the server or after it took effect; the
  client sees the same exception. redis-py retries nothing by default in the
  versions the project allows below 5, so a failure is one refusal.
- **The database** commits at the end of `with get_db_session()`, at the default
  isolation level (READ COMMITTED in PostgreSQL), without row locks.
- **Files** are written with `write_text` (truncate, then write) and by opening
  in append mode; nothing is fsynced or renamed.

What is hard in it: a deadline in whole seconds against a nonce with a
fractional expiry; check-then-write on a row; a crash between the deletion of a
key and the save of the list that names it; `INCR` and `EXPIRE` as two commands;
a lost reply to a command that took effect; read-then-append on a file. The 40
hazards of `PROJECT.json` are these and their relatives, each at its line.

What makes each component correct:

- *tokens*: a token is accepted at most once before its deadline, and a refused
  one never becomes usable again; no `executed` reply without an acceptance.
- *approval queue*: a resolved row is backed by one committed, timely decision;
  a resolved request never returns to the pending list.
- *keys*: a token can be verified while fewer than the retained number of keys
  are newer; a restart finds a key to sign with.
- *audit log*: every chained record names an earlier one; losses are bounded by
  failed writes; `chain_valid` means what it says.
- *rate limit*: no window admits more than its limit; a refusal is justified.
- *pipeline*: nothing is executed that was not permitted by the rules'
  precedence, no tool runs without a record, a revocation takes effect.
- *policies*: a process applies the version it loaded, by precedence.
- *accounts*: one owner per address; every request is answered; a token's
  authority ends with its account's, within a stated time.
- *velocity*: a count is that of one window at one moment; a block lasts until
  reset.
- *compliance export*: a package lists every record it should, or is not made.

## The modules

| module | models | checked by | proved in |
|---|---|---|---|
| `SingleUse` | abstract promise about a token: unissued, usable, spent | as a property of `token_production` | `ExecutionTokenProofs` |
| `ApprovalQueue` | abstract promise of the queue: one timely decision, or expiry | as a property of `hitl` | `HitlQueueProofs` |
| `KeyRetention` | abstract promise about keys: kept until enough newer ones exist, the active one kept | as a property of `keys` | `KeyRotationProofs` |
| `AccountRegistry` | abstract promise of the accounts: one per address, and true answers | as a property of `registration` | `RegistrationProofs` |
| `ExecutionToken` | issue, the deadline check, L1, `SET NX EX` in Redis, execute | `MCExecutionToken` | `ExecutionTokenProofs` |
| `LocalGateway` | `ExecutionToken` with `EnvKeyManager`, its key file, and the providers that overlapping first requests may run twice | `MCLocalGateway` | `ExecutionTokenProofs` |
| `HitlQueue` | the transactions on `approval_requests` | `MCHitlQueue` | `HitlQueueProofs` |
| `KeyRotation` | `VersionedKeyManager` on a directory | `MCKeyRotation` | `KeyRotationProofs` |
| `AuditLog` | `audit_logger`, its export and its evidence | `MCAuditLog` | `AuditLogProofs` |
| `ComplianceExport` | `AuditLog` with `GET /compliance/evidence` reading it | `MCAuditLog` | `AuditLogProofs` |
| `RateLimit` | `RedisRateLimiter` and the in-memory fallback | `MCRateLimit` | `RateLimitProofs` |
| `VelocityTracker` | the tracker and the threads that share it | `MCRateLimit` | `RateLimitProofs` |
| `Registration` | register and login, the session, the event loop they need | `MCRegistration` | `RegistrationProofs` |
| `IntentPipeline` | the clients, verify, execute and the policy file; its tokens are those of `SingleUse` | `MCIntentPipeline` | `IntentPipelineProofs` |
| `AccessToken` | JWTs of accounts whose rows operators change, and the requests that present them | `MCIntentPipeline` | `AccessTokenProofs` |

`LocalGateway` and `ComplianceExport` extend the module of the component they are
composed with and add actions to its own. `MCRateLimit` and `MCIntentPipeline`
put two components side by side that share no state: a variable `part` chosen in
the initial state says which of the two a behaviour is about, and the other
stays at its initial values. That is a sum, not a product: it explores each
component as a run of its own would.

Each component module declares its constants and their assumptions, an action
per operation or per step another actor can come between, and its properties.
The definitions headed "mutated forms" play no part in a specification: each
is a plausible slip in the code, and putting it in the place of the definition
it mirrors breaks the property named in `PROJECT.json`.

### ExecutionToken

| model | code |
|---|---|
| `exp`, `sub` | the claims of an issued token |
| `l1[i]` | `MemoryNonceStore._consumed` of process `i`: expiry and insertion order (`age`) |
| `l2` | the expiry of the key `nonce:<jti>` |
| `mode[i]` | the store `get_nonce_store` built: with Redis, with a disabled Redis client ("cut", production only), or L1 alone (not in production) |
| `req[i]` | the `/intent/execute` request in hand and how far it is |
| `Check` | decode, `int(exp) < int(time.time())`, `is_consumed` in L1 |
| `SetAccepted`, `SetReplyLost`, `SetRefused` | `SET NX EX` and its three outcomes |
| `Record` | `MemoryNonceStore.consume` after Redis said yes |
| `Execute`, `FailAfterConsume` | subject check, log, reply |
| `Crash`, `Boot` | a restart empties L1 and pings Redis again |

Time is a record of a whole second and a fraction, because the deadline check
truncates and the expiries do not. `early` and `late` count acceptances before
and after the deadline. `early <= 1` is what the stores do guarantee
(`SingleUseBeforeDeadline`); that a token is accepted again in the second named by
`exp` is the finding of `token_last_second`.

`ImplementsSingleUse` is the refinement: a token counts as spent once its key
covers its deadline or the deadline has come. Every step of the detailed
specification accepts a usable token and spends it, or lets tokens lapse, or
leaves the abstract state alone. A lost reply to `SET` is a lapse.

### LocalGateway

| model | code |
|---|---|
| `keyFile` | what is at `execution_key_path`: no path set, no file, an empty or torn file, a key |
| `key[i]`, `saving[i]` | `_private_key` of process `i`; the key it has made and not yet written |
| `signer[t]` | the key that signed token `t` |
| `aside[i]` | one first request of `i` that got a manager or a store of its own |
| `LoadKey`, `OpenKeyFile`, `WriteKeyFile`, `WriteKeyFails` | `_load_or_create_private_key`: the look at the file, `write_bytes` as truncation and filling, or neither |
| `IssueSigned`, `CheckSigned` | `Issue` and `Check` of `ExecutionToken` with the signature |
| `IssueAside`, `ExecuteAside`, `AsideFails` | what such a first request does with its own objects |
| `extra[i]`, `stray[i]` | history since the start of `i`: the stores it built and did not keep, and what they accepted |

`lru_cache` calls a function again while its first call is under way, so of the
first requests of a process two may build a manager or a store each; one pair is
kept, the other serves its request and is forgotten. A token that was signed
with a saved key before the process started is then accepted twice by one
process, by the forgotten store and by the one it keeps. `LocalSingleUse` is what
remains: `Taken`, the acceptances of
a token by the stores of a process since its start, is no more than the number of
stores it built, and so one where no first requests overlap. `EphemeralSingleUse`
holds in spite of it: such a request presents a token that was issued before the
process started, and without a key file no key of this start verifies it. The
property is *false* with a key file and without Redis, as the model shows when
`keyFile.kind = "unset"` is taken out of it: a saved key outlives the nonces.
`TokensSurviveRestart` names the two deployments in which the file works (one
process, or a file that was there before any): two processes that find no file
each write their own over the other's and go on signing with what they made.

### HitlQueue

A transaction of process `p` is read (`DecideRead`, `ExpireRead`, `ListRead`),
then `DecideCommit`, `ExpireCommit` or `Rollback`. SQLAlchemy writes only the
columns that changed, `WHERE id = ...`, so `Decided` and `ExpiredBy` name exactly
the columns of the `UPDATE`; an expiry of a row already expired writes
`decided_at` alone (`same`). `up` is the set of deployed processes, chosen in
`Init`: properties that hold only for the Dockerfile's single process say so
with `OneProcess`.

What several processes can do, and the model shows: an expired row may be
revived by a decision that read it in time and committed late; `decided_at` may
belong to a different decision than `decided_by`; two callers may both be told
of success. Even in one process an approved row is overwritten as expired by
any later call about it once its time has come (the code tests the time before
the status). `ResolvedByDecision`, `ResolvedIsNotPending` and `RaceBounded` are
what remains true of every deployment: with `n` processes a request can be
decided `n` times, never more, because a process decides what it read as pending
and commits that once.

`ImplementsQueue` is the refinement of `ApprovalQueue` for one process: an enqueue
submits, a commit of a decision decides, a commit of expiries expires, a tick of
the clock makes requests due. It is stated under `OneProcess` because it is false
with two, by the runs `hitl` (two decisions of a request) and `hitl_duplicate`.

### KeyRotation

Keys are numbered in the order of generation, so "how many keys are newer" is a
subtraction. `Rotate` writes the new key's file, `Delete` removes one retired
key from list, cache and directory, `OpenMetadata` truncates `metadata.json` and
`WriteMetadata` fills it; a process may die between any two. Two processes
writing at once may leave the tail of the longer text behind the shorter one
(`Torn`). A process reads the metadata only when it starts.

`ImplementsRetention` is the refinement of `KeyRetention` for any deployment: the
kept keys are the files, the active key is the one the metadata names, 0 while
it cannot be read. Writing a file generates, `Delete` retires, `WriteMetadata`
publishes and `OpenMetadata` withdraws.

What processes hold in memory has two properties. `KeysStayInHand` says what a running
process may lose, whoever rotates: never its active key nor a recent one, since
`Delete` reaches only the cache of its own process. The other side of that is
why `RetiredForgotten`, what the comment in `_delete_key` says of retired keys, is
stated under `OneProcess`: a gateway goes on using the keys it holds after an
operator's process has retired them, until it is restarted.

### AuditLog

A line is plain, chained or broken; a hash is the number of the record it was
computed from. `ReadLastHash` and `AppendRecord` are the two halves of
`log_compliance_event`. A short write (`WritePart`) leaves nothing, the beginning of a
record, or all of it but the line end. What it leaves is a line without an end,
to which the next record is appended and is lost with it (`Joined`). Until then a
record without its line end reads as any other, and `_get_last_hash` returns its
hash: another process may name a record that is gone by the time its own is
appended. Hence the second half of `NamesEarlierRecord`: the record named comes
earlier in the file or is `Gone`, its write having failed; a record whose call
returned is never named in vain. For one process nothing of this happens
(`LinkedInOrder`): the next write is its own. `VerifyHashChain` and `Evidence` are
translated as operators on sets of line numbers, for the properties about what
readers conclude. `OmissionShows` is what "tamper-evident" comes to here: of two
selections of the records that both verify and end with the same record, neither
leaves out what the other has. The converse is the limit of the scheme: a
selection that stops early verifies as well, since nothing signs the end of the
chain. Nor does it say that all records verify together; those of two
processes may name the same predecessor, and then no selection holds both.

`ComplianceExport` adds the reader behind `GET /compliance/evidence`. `BeginExport`
is its way to the opening of the trail, `FinishExport` the answer, `ExportFails` a
line that does not load. `Reported` are the records whose event types the
package has a section for. `PackageComplete` depends on the export failing as a
whole: skipping the line that does not load, the obvious repair, would break it.
The policy section is read before the trail, so a package may hold decisions
under a policy newer than the one it lists; nothing says otherwise and no
property is stated. `approval_expired` and the three `user_...` events, which
fill the access-control section, are written by nothing in the application, nor is
`log_compliance_event` called.

### RateLimit

`Incr`, `Expire` and `Reply` are the commands of one request, `IncrLost` and
`RedisFails` their failures. A counter without `EXPIRE` is not `bounded`. Time is
a window number and a second in it. The in-memory fallback (`CheckList`) keeps
the stamps of the last window, those of refused requests included.

### VelocityTracker

`section[th]` is a thread between `acquire` and `release` with the time it read
there; `windows[s]` the stamps and the three sums of a scope. The deque is a set
of stamps numbered in the order of the appends, and `Prune` drops from its left
end as the code does, which is exact only because times are read under the lock
and therefore appended in order: `WindowExact` says so, against the history of all
requests (`log`). The class calls itself a sliding window for requests and sums
alike, but only the stamps slide; `BlockedUntilReset` states what the sums do, which
is among the findings below. Amounts are natural numbers;
a negative amount, which the code takes as well, would lift a block and is
outside `VelocityAssumption`.

### Registration

| model | code |
|---|---|
| `loop[p]` | the request whose handler holds the event loop of process `p` |
| `req[r]` | the request, the phase it is in, the status it will be answered with |
| `owner` | the committed rows of `users`, by address |
| `replyFirst` | whether FastAPI sends a response before it closes dependencies with `yield` (from 0.118 on) or after (before); `pyproject.toml` allows both |
| `Look` | `exists_by_email` and the password hash, with the loop held |
| `StatementFails` | the `SELECT` of `Login` or `Look` fails |
| `Insert`, `InsertDuplicate`, `InsertFails` | the flush in `save`: done, unique violation, connection lost |
| `Leave`, `Commit`, `CommitFails` | the loop sends the end of `_get_session` to a worker thread, which commits |
| `SessionFails` | the commit of a session that wrote nothing, or its rollback, fails |
| `Login`, `Reply`, `Crash` | the login handler, the response, a restart |

PostgreSQL is modelled: an `INSERT` of an address that an open transaction has
inserted waits for the end of that transaction (`Blocked`). The handlers block
the loop while they wait, and the commit they wait for needs the loop of its own
process to be sent to a thread. Two registrations of one address in one process
can therefore wait for each other for ever: the first has inserted and is about
to leave, the second holds the loop in its `INSERT`. The two liveness
properties say where that cannot happen, and each says it under a condition on
the requests in hand: `AnsweredWithoutOverlap` if no two registrations of one
address overlap, `AnsweredOnePerProcess` if no process has two requests in hand.
Without a condition `\A r : Answered(r)` is false, by the behaviour above.

`NoDeadlock` is the same as an invariant: under either condition, a request
without an answer can move, or waits (`WaitsFor`) for one that can, either the
holder of the loop it needs or the open insert that blocks its own.

`ImplementsAccounts` is the refinement of `AccountRegistry`: a commit settles an
owner, a reply tells the truth about the owners of the moment, a crash loses
the answers of a process and may settle what it was committing. `early` is
`replyFirst`.

Whatever fails at the database is one outcome, `"failed"`, and `Status` answers it
500, as a unique violation is; the difference is what `AfterCreated` needs: a
request that comes after a 201 is told 409 or 200, or 500 because a statement or
its session failed, and never 500 for having lost a race. With the response
first, a session that fails after it changes no answer (`SessionFails`).

`ToldIsTrue` and `AfterCreated` are stated for a commit before the response. With
the response first, a client may be told 201 for an account that a crash or a
failing commit takes away again; the model has these behaviours and the
properties do not exclude them.

### IntentPipeline

| model | code |
|---|---|
| `file` | the policy file: the texts its patterns object to, whether its rules parse, default effect, rules |
| `store[i]` | what process `i` has loaded: nothing, the patterns (`PolicyEngine`), patterns and rules (`CentralPolicyEngine`) |
| `call[c]` | `guard_tool`, `IntentLockLangChainTool` or a client of its own making, its request, how far it is |
| `token`, `uses`, `exp` | its token, as `SingleUse` has it, and the deadline |
| `permitted`, `executed` | the PERMITTED and EXECUTED records of the audit log |
| `ran` | how often the tool was called |
| `ground`, `allowedAt` | history: what the process that permitted the call had loaded; when some process last would have permitted it |
| `Verify`, `VerifyUnlogged` | `verify_intent` up to the reply, or up to a log that cannot be written |
| `serving[i]` | the execute request process `i` has in hand, when it came in, how far it is |
| `Present`, `Accept`, `Refuse` | `execute_intent` up to the check of the deadline; the nonce store's answer |
| `Execute`, `ExecuteUnlogged` | the EXECUTED record and the reply, or a log that cannot be written |
| `NotExecuted` | the client is told of a refusal, or nobody answers in time |

A request is a record of what the checks look at. `text` stands for what the
fixed detectors say of prompt and arguments ("hostile") and for the patterns a
file may object to. The SDK and the adapter send neither tenant nor service nor
resource (`Bare`), so rules about those never match their calls. `HasEffect` is
the sort of the applicable rules by priority, stable, first one wins; the
property uses another definition, `RulesAllow`, in the terms of the
documentation: what denies or asks for a human is outranked by what allows.

Tokens are the abstract ones, which `ExecutionToken` implements in production.
What the refinement leaves open is added here: the deadline is looked at once
(`InTime`), before Redis is asked, and Redis is asked without a socket timeout. A
token that passed the check is accepted whenever Redis answers, and from `exp` on
its nonce may have been forgotten and it is accepted again (`Accept`). So
`RevocationTakesEffect` is about when a request *came in*: no request that comes in
more than a lifetime after the last moment some process would have permitted its
call is executed. How long a request that came in before may wait is bounded by
nothing in the code, and no property says when its record is written.
`RunsBacked` does not count on one execution per token for the same reason.

A client that gives up while a process has its request loses the reply and no
more (`NotExecuted` from "asking", `Execute` with `call' = call`). That a process
takes a request up after its client gave up makes no difference to the properties
and is the same steps with the client's last.

A policy file that is missing or empty is, as in the code, a policy without
rules that allows everything; a file that is not YAML keeps a process from
starting at all and needs no action. The default paths of the two readers differ
(`parents[2]` and `parents[3]`), so without `POLICY_FILE_PATH` the text patterns
come from a file that does not exist; the model has the variable set.

### AccessToken

| model | code |
|---|---|
| `row[a]` | whether `users` has a row for `a`, `is_active`, whether its role is in `hitl_approver_roles` |
| `jwt[t]` | the claims `sub` and `iat` (`nbf` and `exp` follow from it) |
| `hand[g]` | a request: an account being registered, a login past `is_active`, a token decoded, a row loaded |
| `Decode`, `LoadUser`, `Serve` | `get_current_user_id`, `get_current_user`, the handler (behind `require_hitl_approver` or not) |
| `SetRow` | an operator's `UPDATE` or `DELETE`; no route changes a row |
| `lastPresent`, `lastActive`, `lastApprover`, `served` | history |

`AuthorityEnds` is the price of testing `is_active` at login only: `Grace` is the
lifetime of a token, the leeway, the spread of the clocks, and twice the time a
request may be in hand (once for the login that was under way, once for the
request that presents its token). A role or a row is read with each request and
is gone when the requests in hand are. All processes are taken to share
`jwt_secret_key`, which the settings demand outside development.

## What the runs show

| run | instance | what it shows |
|---|---|---|
| `token_production` | 2 processes, 2 tokens, 2 users, lifetime 2 s, L1 of 1 entry, 2 instants per second | single use before the deadline over crashes, overflow, lost replies; L1 coherent with L2; refinement of `SingleUse` |
| `token_local` | 1 or 2 development processes, 1 token, lifetime 2 s, L1 of 1 entry, 2 keys made, key file or none | without Redis a process accepts a token between two starts at most once per store it built; without a key file a token is accepted once, restarts or not; what is handed out beside a key file, a later start can verify |
| `token_last_second` | 1 process, 1 token, lifetime 1 s | **violated**: a token is executed twice |
| `hitl` | 1 or 2 processes, 2 requests, 2 approvers, lifetime 1 | what a resolved row means in any deployment; the bound of the race; one process implements `ApprovalQueue` |
| `hitl_duplicate` | 2 processes, 1 request | **violated**: two callers are told of opposite decisions |
| `keys` | 1 or 2 processes, 2 previous keys kept, 5 keys | recent keys stay on disk and in memory; readable metadata can sign; one process forgets what it retires; refinement of `KeyRetention` |
| `keys_jwks` | 1 process, 6 keys | **violated**: after a crash a listed key has no file |
| `audit` | 1 or 2 processes, 5 records of which 3 are reported, 2 instants | links, losses, the meaning of `chain_valid` and the omissions it shows; no package misses an acknowledged record |
| `audit_export` | 1 process, 3 records | **violated**: an untouched log does not verify |
| `rate_limit` | 2 processes, limit 2, 3 windows of 2 s, 5 requests | the limit, justified refusals, leaked counters, the sliding list |
| | or 2 threads, 2 scopes, 3 kinds of request, 4 records, 4 s, window 1 s | exact counts, blocks that last |
| `registration` | 2 processes, 3 requests, 2 addresses, both orders of commit and response | what a 201 is worth; where requests cannot wait for each other for ever, and which are sure of an answer; refinement of `AccountRegistry` |
| `pipeline` | 2 processes, 1 call of 3 kinds and 5 requests, 5 policy files, lifetime 1 s, clock up to 2 s, 2 executions | execution only with permission and record; revocation after a lifetime |
| | or 2 processes, 1 account, 2 JWTs, lifetime 1, no leeway, clocks 1 apart, 1 to handle a request, 4 instants | when the authority of an account ends |

The bounds are small but pass every threshold of the code: two processes are
enough for every race over one key, row or file; a lifetime of two seconds has a
first, a middle and a last instant; an L1 of one entry overflows at the second
token; five keys fill a list of three and rotate it twice; five requests exceed
a limit of two in two windows, and three windows let a counter outlive its own.
Two instants give time ranges that begin or end within a chain.
Three registrations are one that owns the address, one that waits for it and one
that comes after; the state constraint `Canonical` names the first of them
instead of a symmetry set, which liveness rules out. Calls of the pipeline share
nothing but the processes, which act for each as if it were alone, so one call is
enough; its five files hold each way a narrow rule can win or lose against a
broad one, a file that does not parse and one that objects to a text. A lifetime
of one second and a clock up to two leave a second after every deadline, in which
a request that came in time may still be accepted. A lone
scope could not show that scopes are apart; four records are two beyond each
limit of the velocity tracker, over two windows. Two JWTs are the one of a
registration and the one of a login that was under way when its account was
deactivated. The unit of time of `AccessToken` is the lifetime of a JWT (5 minutes at
least), against which the leeway of 30 seconds rounds to none; the theorem is
about any leeway.
What the bounds cannot settle, the theorems do.

Deadlock is checked wherever the system should always have a step; the cfgs
that switch it off say why (all requests resolved, the clock at its bound, torn
metadata that stops every start).

Bounds named in the models: `MaxSec`, `MaxTime`, `MaxWindow` (clocks), `MaxKeys`,
`MaxRecords`, `MaxRequests`, `MaxUses` (operations), `Horizon` (the clock of
`AccessToken`), `UsesBound` (a state constraint of `token_local`, where a restarting
process with a key file and without Redis accepts for ever).

### Findings

1. `token_last_second`: the deadline check passes a token through the second
   named by `exp` while its nonce is forgotten at the start of it.
2. `hitl_duplicate`: read, check and write of a decision are not atomic across
   processes.
3. `keys_jwks`: a rotation deletes the retired key before it saves the list that
   still names it; a crash in between breaks the JWKS.
4. `audit_export`: the application writes plain records only, and a plain record
   has no place in a verified chain.

Each quotes the sentence of the repository it contradicts in `PROJECT.json`. Two
more are stated by properties that hold, and need no run of their own:

5. `BlockedUntilReset`, proved for all limits: the cumulative value, risk and
   sensitive operations of a scope never leave the tracker, so a scope whose window
   is empty may still be blocked. `velocity_tracker.py:12` calls all of it
   "Sliding-window state for a single scope", and `velocity_tracker.py:21-24` says
   "Stateful sliding-window security controls. Tracks request velocity, cumulative
   financial value, cumulative risk score, and repeated sensitive operations per
   scope". `_prune` (`:92-95`) drops timestamps only.
6. `LocalSingleUse`, whose bound is reached: a development process without Redis
   that was started with a saved key accepts a token twice when two of its first
   requests overlap; with 1 for `1 + extra[i]` TLC shows it in one process. The
   docstring at `security.py:63-64` says "Results are cached globally so that nonce
   state persists across requests within the same application lifecycle".

## Fairness

All specifications but one state safety only: the code promises nothing about
progress there (nothing sweeps the approval queue, nothing repairs torn metadata,
a Redis that hangs blocks the loop).

`Registration!FairSpec` assumes weak fairness of `Progress(r)`, per request: what
the event loop and the worker threads do for it. asyncio runs every task that is
ready, its queue is first in first out, and a worker thread that was started
comes to the end of its statement; a database that answers is assumed, an
`INSERT` that waits is not enabled. Arrivals, broken connections and crashes are
not fair: nobody has to send a request and nothing has to break. `LoopFree` and
`Blocked` are the guards that can be false for ever, and weak fairness asks
nothing of a step that is not enabled, so the deadlock described above is a fair
behaviour.

## What is proved

`tlapm` proves, for all values of the constants that satisfy the named
assumptions (`TTL > 0`, `MaxPrevious > 0`, `Window > 0` and the like, each in the
module that declares the constant; `LocalTheorem` and `EphemeralTheorem` also
assume that there are finitely many tokens, without which "L1 does not
overflow" has no meaning; `RaceTheorem` that there are finitely many processes,
`ProcessAssumption`, for the same reason):

- **ExecutionToken** - `TypeCorrect`, `SingleUseTheorem`, `RefinementTheorem`.
  `SingleUseBeforeDeadline` is not inductive: it says nothing of requests under
  way. The strengthening follows the nonce's lifetime: the `ttl` a request
  carries reaches the deadline and can only be too long by the time Redis sees
  it (`PendingTtlCovers`), so the key of an accepted token covers its deadline
  (`KeyOutlivesUse`), so any other `SET` before it is refused. L1 plays no part,
  which is why its capacity does not matter. The refinement uses the same
  invariant and one lemma per kind of abstract step. `CacheTheorem` and
  `BackedTheorem`: an entry of L1 lasts as long as the key it stands for, both
  to the deadline (`EntryCovers`, `InHandCovers`); whoever holds an acceptance
  for a reply was counted (`Holders`).
- **LocalGateway** - `LocalTheorem`, `EphemeralTheorem`, `RestartTheorem`. What a
  process accepted by the store it keeps is in L1 or about to be (`AcceptedOnce`), as
  long as nothing is evicted; each store it did not keep accepts for one request
  (`StrayInv`). For all starts together: keys that were never saved
  are all different and each in one process (`KeysDistinct`), and the process
  that has the key of a token has made all its acceptances (`SeenAll`). Beside a
  file: the key in the file is the only one in use, and there is none in use
  before it is there (`FileFirst`).
- **HitlQueue** - `TypeCorrect`, `ResolvedByDecisionTheorem`,
  `ResolvedIsNotPendingTheorem`, `OneDecisionTheorem`,
  `StatusMovesForwardTheorem` (an action property, proved only: the run checks
  `ImplementsQueue`, which says more). The invariant relates an open
  transaction to the row it read: decisions under way were taken in time,
  expiries under way are about due rows, and with one process what was read
  still holds at commit (`ReadsStillHold`). `RaceTheorem`: every decision of a
  request, committed or about to be, takes up a process of its own (`RaceInv`):
  a read of a pending row finds no decision committed yet, and a commit turns a
  process that was about to decide into a decision. `RefinementTheorem`
  takes the steps of one process to those of `ApprovalQueue` from the same
  invariant: what was read still holds, so a decision is the first and an expiry
  is due.
- **KeyRotation** - `TypeCorrect`, `RecentKeysTheorem`, `RestartTheorem`. The key
  idea is age: position `j` in any list is at least `j - 1` keys old
  (`ListsOrdered`), whoever wrote the list, so no process can delete a recent
  key by its own retention. `RestartCanSign` also needs that the key the
  metadata calls active is in a deletable position of no list
  (`ActiveNotRetired`, `NewKeyUnknown`). `OldestTheorem` is about one process: its
  list is the metadata's, or one rotation ahead of it (`Sole`). `InHandTheorem` (an
  action property) takes the ages to the caches, and `ForgottenTheorem` adds to the
  invariant that a process which is down holds nothing (`MemoryInv`).
  `RefinementTheorem`:
  the same facts about ages make every deletion a retirement of `KeyRetention` and
  every written metadata file a publication of a key that is kept.
- **AuditLog**, **ComplianceExport** - `TypeCorrect`, `LinkedTheorem`,
  `NamesEarlierTheorem`, `LossTheorem`, `EvidenceTheorem`, `PackageTheorem`. The
  invariant says what a pending record knows of the file (`PendingNamesLine`,
  `PendingStillLast`): the hash it names is in the file or gone, and gone is for
  good (`NamedKept`), because the only line that is ever spoiled is one without
  line end, whose record nobody was told is there (`OpenUnacked`). It charges every
  lost record to a short write (`LossPaidFor`); the evidence of a time range is contiguous because timestamps
  do not decrease; an acknowledged record is on a line of its own or in one
  that never loads again. `OmissionTheorem`: a record is appended once
  (`RecordsOnce`), so a hash names one line; if two accepted selections with the
  same end differed, there would be a last record at which they do, and the link
  of the record just after it names that record in one selection and another in
  the other (`NoForkBelow`).
- **RateLimit**, **VelocityTracker** - `TypeCorrect`, `LimitTheorem`,
  `RefusedTheorem`, `LeakTheorem`, `SlidingTheorem`, `WindowTheorem`,
  `BlockedTheorem`. A counter outlives its window and has counted no less than
  what passed (`OutlivesWindow`); a full counter was filled by requests
  (`SlotsGiven`); the list of a process holds what it admitted (`ListsKept`). One
  thread is inside (`OneInside`), so stamps are appended in the order of their
  times (`StampsInOrder`) and pruning loses none of the window (`NothingLost`).
- **Registration** - `TypeCorrect`, `ToldTheorem`, `AfterCreatedTheorem`. The
  invariant: at most one request per address has an open insert and none beside
  an owned address (`OneWriter`), a request that is past its commit owns the
  address and nothing else is decided 201 (`CommittedOwns`), and a request that
  came after a 201 can only be on the way to the one answer, or to the 500 of a
  statement or a session that failed (`LateComers`).
  `StageInvariance` adds what each phase means: a handler past its first statement
  and before its response holds the loop of its process, and a decision about an
  address is true when it is made (`Stage`). `RefinementTheorem` and
  `NoDeadlockTheorem` follow from it; in the latter, only an `INSERT` ever keeps the
  loop, it is not blocked where registrations do not overlap, and what blocks it
  has a loop of its own where no process has two requests in hand
  (`HoldersMove`). `StepsTheorem`: no step takes a request back, and each of its own
  brings it closer to its end. Together they are the safety half of the
  two liveness properties; that a step which stays possible is taken is the
  other, and is fairness.
- **IntentPipeline** - `TypeCorrect`, `ExecutedTheorem`, `RunsTheorem`,
  `RevocationTheorem` (an action property). The invariant has a part per stage of
  a call: nothing is recorded before it is verified, who holds a token was
  permitted, what was permitted had its reasons (`PermittedForReason`, from
  `FirstRuleDecides`: the first rule of the sort outranks all that object), and a
  token's deadline is no further than a lifetime from `allowedAt`
  (`WithinLifetime`, `HistoryUpToDate`). A request in hand has a token that was handed
  out and came in before its deadline (`InTimeAtHand`), which a step of the clock
  while it waits for Redis leaves true, and deadlines do not move.

- **AccessToken** - `AccessTypeCorrect`, `AuthorityTheorem`. A token was made
  within `MaxHandling` of a moment its account was active, by a clock no further
  ahead than `MaxDrift` (`FreshToken`); a request in hand is no older than
  `MaxHandling`, and what it has read was so when it was taken up or later
  (`FreshHand`).

Every invariant, every action property and every refinement the passing runs
check is also proved. The type invariants are proved only, as parts of the
inductive invariants (`TypeCorrect`), for all values of the constants; a run that
lists `TypeOK` would check a small instance of the same. Only model-checked are the two liveness properties of the accounts and the
violations, which are about one behaviour each.

Out of the prover's reach and left to TLC: liveness under fairness, `ENABLED`,
and what a recursive definition computes for every input. The library's
induction theorems take an operator as a parameter, which the installed provers
cannot instantiate; where an argument runs along the numbers, as in
`OmissionTheorem`, the least number of a set takes the place of induction
(`LeastNumber`, from `WFMin` and the well-foundedness of `<`). No module declares a
RECURSIVE operator.

## What is not modelled

Signatures, hashes and JWT encoding (a token that verifies is one that was
issued with that key), the regular expressions of the evaluator, report layout, metrics,
integrations and the event bus (nothing reads them back), the KMS and HSM stubs,
security headers, size limits and correlation ids (stateless), migrations (run
once by an operator). `reset()` of the queue is called by tests only. Several versions
in one `PolicyStore`, `activate` and `rollback` have no caller in the gateway; they
are single assignments to one dictionary of one process. A Redis that hangs
makes a process that takes no step, which the safety properties allow. A clock
that jumps backwards is not modelled; all processes share one clock, except in
`AccessToken`.

Three hazards of `PROJECT.json` have no property: the approval request nobody ever
touches again, the decision that asks for approval and enqueues nothing, and the
`Retry-After` of the in-memory limiter. Each has its reason there.

## Plan

Done, in this order: tokens, approval queue, keys, audit log, rate limit,
accounts, pipeline; then `LocalGateway`, `VelocityTracker`, `ComplianceExport`,
`AccessToken`, and the proofs of all invariants; then the abstract specifications
`ApprovalQueue`, `KeyRetention` and `AccountRegistry` with their refinements, and the
bounds on races, omissions and waiting. Worth doing next:

1. Tokens signed by rotating keys: `ExecutionToken` composed with `KeyRotation`, and
   until when a token can be verified by which process. `ImplementsRetention` and
   `JwksServable` are the halves that exist.
2. The calls of `IntentPipeline` against `ExecutionToken` itself instead of
   `SingleUse`, by `RefinementTheorem` of `ExecutionTokenProofs`.
3. An abstract limiter that `RateLimit` implements: `LimitPerWindow` and
   `RefusedAtLimit` in one specification.
4. `PolicyStore`, should the gateway ever call `activate` or `rollback`.
