--------------------------- MODULE IntentPipeline ---------------------------
(* One guarded tool call from end to end: the SDK asks POST /intent/verify,    *)
(* the gateway authorizes the caller, applies the policy it loaded when it     *)
(* started, evaluates the text and hands out a token; the SDK consumes the     *)
(* token at POST /intent/execute and only then runs the tool.                  *)
(*                                                                            *)
(* Meanwhile the policy file is edited and gateway processes are restarted    *)
(* one by one.  A process reads the file twice while it starts, once for the  *)
(* patterns of the text and once for the rules, and never again.              *)
(*                                                                            *)
(* A handler contains no await, so a process has one request in hand at a     *)
(* time.  verify_intent waits for nobody and is one step; execute_intent      *)
(* waits for Redis between its check of the deadline and the consumption of   *)
(* the nonce, without a timeout, and does not look at the time again.  A      *)
(* reply may be lost, or come after the client's timeout of five seconds,     *)
(* which is the same to the client; the request goes on without it.           *)
(*                                                                            *)
(* Every call has a token of its own.  The tokens behave as SingleUse says,   *)
(* which ExecutionToken implements; what that leaves open, an acceptance at   *)
(* or after exp of a token that passed the check in time, is an action here.  *)
EXTENDS Integers, Sequences

CONSTANTS Instance,     \* gateway processes
          Call,         \* tool calls, each with at most one token
          Request,      \* what a call may ask for
          File,         \* contents of the policy file
          Settings,     \* the settings authorization_*
          TTL,          \* settings.execution_token_ttl_seconds
          MaxUses,      \* bound on the executions of one token
          MaxTime       \* bound on the clock

ASSUME TimeAssumption == TTL \in Nat \ {0} /\ MaxUses \in Nat /\ MaxTime \in Nat

VARIABLES file,         \* what is in the policy file
          store,        \* store[i]: what process i has loaded
          serving,      \* serving[i]: the execute request process i handles
          now,          \* the time in whole seconds
          call,         \* call[c]: the kind of client, its request, how far it is
          token, uses,  \* the tokens, as in SingleUse
          exp,          \* exp[c]: the exp claim of the token of c
          permitted,    \* the calls with a PERMITTED record in the audit log
          executed,     \* executed[c]: EXECUTED records of the token of c
          ran,          \* ran[c]: how often the tool was run
          ground,       \* history: what the process that permitted c had loaded
          allowedAt     \* history: when a process last would have permitted c

policy == <<file, store, allowedAt>>
gateway == <<file, store, serving, allowedAt>>
tokens == <<token, uses, exp>>
history == <<permitted, ground>>
vars == <<file, store, serving, now, call, token, uses, exp, permitted, executed, ran,
          ground, allowedAt>>

Tokens == INSTANCE SingleUse WITH Token <- Call, state <- token

Down == [phase |-> "down"]
NoCall == [phase |-> "idle"]
Idle == [phase |-> "idle"]
Advance(c, ph) == call' = [call EXCEPT ![c].phase = ph]

----------------------------------------------------------------------------
(* Mutated forms of definitions below, used to check that the properties are  *)
(* sensitive to the code they are about.                                      *)

\* The rules are sorted in ascending order of priority.
LowestFirst(rules, j, k) ==
    rules[j].priority < rules[k].priority \/ (rules[j].priority = rules[k].priority /\ j < k)

\* The deadline is not checked.
AnyTime(c) == TRUE

\* The SDK runs the tool also when the token was refused.
AnywayAfter(c) == IF call[c].kind = "guard" THEN "ready" ELSE "held"

----------------------------------------------------------------------------
(* Decisions                                                                  *)

\* The tenant of the request is the user's, where both have one.
SameTenant(r) == r.home = "absent" \/ r.tenant_id = "absent" \/ r.home = r.tenant_id

\* AuthorizationService.authorize says ALLOW; which check fails first decides
\* only between two ways of answering 403.
Authorized(r) ==
    /\ Settings.require_tenant => r.tenant_id # "absent"
    /\ r.agent_id # "absent"
    /\ \A f \in DOMAIN Settings.allowed : r[f] \in Settings.allowed[f]
    /\ r.proposed_tool \notin Settings.denied_tools
    /\ r.proposed_tool \notin Settings.hitl_tools

\* The rules whose criteria the request meets and whose conditions hold for
\* confidence 1.0 and risk 0.0, the values the gateway always passes.
Applicable(rules, r) ==
    {k \in DOMAIN rules : rules[k].met /\ \A f \in DOMAIN rules[k].match : r[f] \in rules[k].match[f]}

\* Rule j comes before rule k in the stable sort by descending priority.
Precedes(rules, j, k) ==
    rules[j].priority > rules[k].priority \/ (rules[j].priority = rules[k].priority /\ j < k)

\* CentralPolicyEngine.evaluate; without a policy it is an empty one that allows.
HasEffect(s, r, e) ==
    LET A == Applicable(s.rules, r)
    IN  \/ A = {} /\ s.default = e
        \/ \E j \in A : /\ \A k \in A \ {j} : Precedes(s.rules, j, k)
                        /\ s.rules[j].effect = e

\* IntentEvaluatorService.evaluate accepts: neither the checks it always makes
\* nor the patterns of the file object to the text.
Accepted(s, r) == r.text # "hostile" /\ r.text \notin s.blocks

\* verify_intent gets as far as the token.
Permits(s, r) == /\ s.phase = "up"
                 /\ SameTenant(r)
                 /\ Authorized(r)
                 /\ HasEffect(s, r, "allow")
                 /\ Accepted(s, r)

----------------------------------------------------------------------------

Init == /\ file \in File
        /\ store = [i \in Instance |-> Down]
        /\ serving = [i \in Instance |-> Idle]
        /\ now = 0
        /\ call = [c \in Call |-> NoCall]
        /\ Tokens!Init
        /\ exp = [c \in Call |-> 0]
        /\ permitted = {}
        /\ executed = [c \in Call |-> 0]
        /\ ran = [c \in Call |-> 0]
        /\ ground = [c \in Call |-> Down]
        /\ allowedAt = [c \in Call |-> 0]

\* The history of what would be permitted, after a step that may change it.
Observe == allowedAt' = [c \in Call |->
    IF call'[c] # NoCall /\ \E i \in Instance : Permits(store'[i], call'[c].req)
    THEN now' ELSE allowedAt[c]]

\* A second passes; tokens that reach their deadline are no longer usable.
Tick == /\ now < MaxTime
        /\ now' = now + 1
        /\ Tokens!Lapse({c \in Call : token[c] = "usable" /\ exp[c] <= now'})
        /\ UNCHANGED <<file, store, serving, call, exp, history, executed, ran>>
        /\ Observe

\* An operator writes another policy file; a file that is missing, empty or cut
\* short counts as one without rules that allows everything.
Edit(f) == /\ f # file
           /\ file' = f
           /\ UNCHANGED <<store, serving, now, call, tokens, history, executed, ran, allowedAt>>

\* The process starts and builds its IntentEvaluatorService.
BootText(i) == /\ store[i].phase = "down"
               /\ store' = [store EXCEPT ![i] = [phase |-> "text", blocks |-> file.blocks]]
               /\ UNCHANGED <<file, serving, now, call, tokens, history, executed, ran, allowedAt>>

\* It builds its CentralPolicyEngine; a rule that does not parse ends the process.
BootRules(i) ==
    /\ store[i].phase = "text"
    /\ store' = [store EXCEPT ![i] = IF file.valid
                                     THEN [phase |-> "up", blocks |-> store[i].blocks,
                                           default |-> file.default, rules |-> file.rules]
                                     ELSE Down]
    /\ UNCHANGED <<file, serving, now, call, tokens, history, executed, ran>>
    /\ Observe

\* The process dies or is replaced, with the request it has in hand.
Stop(i) == /\ store[i].phase # "down"
           /\ store' = [store EXCEPT ![i] = Down]
           /\ serving' = [serving EXCEPT ![i] = Idle]
           /\ UNCHANGED <<file, now, call, tokens, history, executed, ran, allowedAt>>

----------------------------------------------------------------------------
(* A call: guard_tool, IntentLockLangChainTool, or a client of its own making  *)

\* What the SDK and the adapter send: they know of no more than the tool, its
\* arguments and the agent.
Bare(r) == r.action = "execute" /\ \A f \in {"tenant_id", "service_id", "resource"} : r[f] = "absent"

Start(c, k, r) == /\ call[c] = NoCall
                  /\ k = "raw" \/ Bare(r)
                  /\ call' = [call EXCEPT ![c] = [phase |-> "verifying", kind |-> k, req |-> r]]
                  /\ UNCHANGED <<file, store, serving, now, tokens, history, executed, ran>>
                  /\ Observe

\* The 403 of verify_intent, a refusal on the way to it, or no answer from it.
NotVerified(c) == /\ call[c].phase = "verifying"
                  /\ Advance(c, "failed")
                  /\ UNCHANGED <<gateway, now, tokens, history, executed, ran>>

\* create_execution_token; the signature and the other claims are left out.
CreateToken(c) == /\ Tokens!Issue(c)
                  /\ exp' = [exp EXCEPT ![c] = now + TTL]

\* Where a client goes on when it has the token: the adapter to the tool.
WithToken(c) == IF call[c].kind = "adapter" THEN "ready" ELSE "held"

\* verify_intent: token, PERMITTED record, reply, which may be lost.
Verify(c, i) == /\ call[c].phase = "verifying"
                /\ serving[i] = Idle
                /\ Permits(store[i], call[c].req)
                /\ CreateToken(c)
                /\ permitted' = permitted \cup {c}
                /\ ground' = [ground EXCEPT ![c] = store[i]]
                /\ Advance(c, WithToken(c)) \/ Advance(c, "failed")
                /\ UNCHANGED <<gateway, now, executed, ran>>

\* The record cannot be written: the token is made but not handed out.
VerifyUnlogged(c, i) == /\ call[c].phase = "verifying"
                        /\ serving[i] = Idle
                        /\ Permits(store[i], call[c].req)
                        /\ CreateToken(c)
                        /\ Advance(c, "failed")
                        /\ UNCHANGED <<gateway, now, history, executed, ran>>

\* "if int(exp) < int(time.time())", checked once; a token passes through the
\* second named by exp.
InTime(c) == now <= exp[c]

\* Where a client goes on when it has presented its token, when that was executed,
\* and when it is told that it was not; a client of its own making keeps the token
\* and may present it again at any time.
AfterPresent(c) == IF call[c].kind = "guard" THEN "asking" ELSE "held"
AfterExecute(c) == IF call[c].kind = "guard" THEN "ready" ELSE "held"
AfterRefusal(c) == IF call[c].kind = "guard" THEN "failed" ELSE "held"

\* execute_intent up to the consumption of the nonce, for a token in its time.
Present(c, i) == /\ call[c].phase = "held"
                 /\ store[i].phase = "up" /\ serving[i] = Idle
                 /\ InTime(c)
                 /\ serving' = [serving EXCEPT ![i] =
                                     [call |-> c, since |-> now, phase |-> "nonce"]]
                 /\ Advance(c, AfterPresent(c))
                 /\ UNCHANGED <<policy, now, tokens, history, executed, ran>>

\* The nonce is consumed, however long Redis took; a nonce that is consumed at or
\* after the deadline may have been consumed, and forgotten, before.
Accept(i) == /\ serving[i].phase = "nonce"
             /\ LET c == serving[i].call
                IN  \/ Tokens!Use(c) /\ exp' = exp
                    \/ now >= exp[c] /\ UNCHANGED tokens
             /\ serving' = [serving EXCEPT ![i].phase = "record"]
             /\ UNCHANGED <<policy, now, call, history, executed, ran>>

\* The nonce is refused, or Redis does not answer and may have consumed it.
Refuse(i) == /\ serving[i].phase = "nonce"
             /\ \/ Tokens!Lapse({serving[i].call}) /\ exp' = exp
                \/ UNCHANGED tokens
             /\ serving' = [serving EXCEPT ![i] = Idle]
             /\ UNCHANGED <<policy, now, call, history, executed, ran>>

\* The EXECUTED record and the reply, which may be lost or come too late.
Execute(i) == LET c == serving[i].call
              IN  /\ serving[i].phase = "record"
                  /\ executed[c] < MaxUses
                  /\ executed' = [executed EXCEPT ![c] = @ + 1]
                  /\ serving' = [serving EXCEPT ![i] = Idle]
                  /\ \/ call[c].phase = "asking" /\ Advance(c, AfterExecute(c))
                     \/ call' = call
                  /\ UNCHANGED <<policy, now, tokens, history, ran>>

\* The record cannot be written.
ExecuteUnlogged(i) == /\ serving[i].phase = "record"
                      /\ serving' = [serving EXCEPT ![i] = Idle]
                      /\ UNCHANGED <<policy, now, call, tokens, history, executed, ran>>

\* The client is told that its token was not executed, or nobody answers in time;
\* a request that is in hand goes on.
NotExecuted(c) == /\ call[c].phase \in {"held", "asking"}
                  /\ Advance(c, AfterRefusal(c))
                  /\ UNCHANGED <<gateway, now, tokens, history, executed, ran>>

\* The client calls the tool.
Run(c) == /\ call[c].phase = "ready"
          /\ ran' = [ran EXCEPT ![c] = @ + 1]
          /\ Advance(c, "done")
          /\ UNCHANGED <<gateway, now, tokens, history, executed>>

Next == \/ Tick
        \/ \E f \in File : Edit(f)
        \/ \E i \in Instance : \/ BootText(i) \/ BootRules(i) \/ Stop(i)
                              \/ Accept(i) \/ Refuse(i)
                              \/ Execute(i) \/ ExecuteUnlogged(i)
        \/ \E c \in Call, k \in {"guard", "adapter", "raw"}, r \in Request : Start(c, k, r)
        \/ \E c \in Call : NotVerified(c) \/ NotExecuted(c) \/ Run(c)
        \/ \E c \in Call, i \in Instance :
               Verify(c, i) \/ VerifyUnlogged(c, i) \/ Present(c, i)

Spec == Init /\ [][Next]_vars

----------------------------------------------------------------------------
(* Properties                                                                 *)

CallState == [phase : {"verifying", "held", "asking", "ready", "done", "failed"},
              kind : {"guard", "adapter", "raw"}, req : Request]
Handling == [call : Call, since : Nat, phase : {"nonce", "record"}]
Loaded == LET blocks == {f.blocks : f \in File}
          IN  [phase : {"text"}, blocks : blocks] \cup
              [phase : {"up"}, blocks : blocks, default : {f.default : f \in File},
               rules : {f.rules : f \in File}]

\* Every variable has its type.
TypeOK == /\ file \in File
          /\ store \in [Instance -> {Down} \cup Loaded]
          /\ serving \in [Instance -> {Idle} \cup Handling]
          /\ now \in Nat
          /\ call \in [Call -> {NoCall} \cup CallState]
          /\ token \in [Call -> {"unissued", "usable", "spent"}]
          /\ uses \in [Call -> Nat]
          /\ exp \in [Call -> Nat]
          /\ permitted \subseteq Call
          /\ executed \in [Call -> Nat]
          /\ ran \in [Call -> Nat]
          /\ ground \in [Call -> {Down} \cup Loaded]
          /\ allowedAt \in [Call -> Nat]

\* What the rules of s demand of an action that goes ahead, in the words of the
\* documentation: a rule that denies it or asks for a human is outranked by one
\* that allows it, and without any applicable rule the default allows it.
RulesAllow(s, r) ==
    LET A == Applicable(s.rules, r)
        Outranks(j, k) == \/ s.rules[j].priority > s.rules[k].priority
                          \/ s.rules[j].priority = s.rules[k].priority /\ j < k
    IN  /\ A = {} => s.default = "allow"
        /\ \A k \in A : s.rules[k].effect # "allow" =>
               \E j \in A : s.rules[j].effect = "allow" /\ Outranks(j, k)

\* However processes are restarted and the file is edited, what was executed was
\* permitted on record before, by a process whose authorization, rules and text
\* checks all let it through (verify_intent, execute_intent).
ExecutedWasAllowed ==
    \A c \in Call : executed[c] > 0 =>
        /\ c \in permitted
        /\ SameTenant(call[c].req) /\ Authorized(call[c].req)
        /\ RulesAllow(ground[c], call[c].req)
        /\ Accepted(ground[c], call[c].req)

\* The guard runs a tool at most as often as the audit log has executions of its
\* token, whatever replies are lost; the adapter, which never presents its token,
\* runs what the log has as permitted (guard_tool, IntentLockLangChainTool).
RunsBacked ==
    \A c \in Call : ran[c] > 0 =>
        /\ c \in permitted
        /\ call[c].kind = "guard" => ran[c] <= executed[c]
        /\ call[c].kind = "adapter" => ran[c] = 1

\* Taking back a permission takes effect: of the execute requests that come in more
\* than a token's lifetime after the last moment at which some process would have
\* permitted the call, none is executed, although tokens that the old policy let
\* out are still around (execution_token_ttl_seconds).  For how long a request
\* that came in before that waits for Redis, nothing in the code says.
RevocationTakesEffect ==
    [][\A c \in Call : executed'[c] # executed[c] =>
           \E i \in Instance : /\ serving[i] # Idle /\ serving'[i] = Idle
                               /\ serving[i].call = c
                               /\ serving[i].since <= allowedAt[c] + TTL]_vars

=============================================================================
