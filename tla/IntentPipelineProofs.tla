------------------------ MODULE IntentPipelineProofs ------------------------
(* Proofs about IntentPipeline: the type invariant, and that executions and    *)
(* runs of tools rest on permissions that were recorded, right by the rules    *)
(* and not older than a token lives, for any processes, files and requests.    *)
EXTENDS IntentPipeline, TLAPS

(***************************************************************************)
(* The strengthening, one part per stage of a call c.                      *)
(***************************************************************************)

\* Nothing is recorded of a call that was not verified yet.
Unverified(c) == call[c].phase \in {"idle", "verifying"} =>
                     c \notin permitted /\ token[c] = "unissued" /\ executed[c] = 0

\* Who holds the token or goes ahead without it was permitted; so was what was
\* executed.
HeldIsPermitted(c) == /\ call[c].phase \in {"held", "asking", "ready", "done"} => c \in permitted
                      /\ executed[c] > 0 => c \in permitted

\* What was permitted had its reasons.
PermittedForReason(c) ==
    c \in permitted => /\ SameTenant(call[c].req) /\ Authorized(call[c].req)
                       /\ RulesAllow(ground[c], call[c].req)
                       /\ Accepted(ground[c], call[c].req)

\* The guard goes ahead after an execution only, and the tool is run once.
RunsCounted(c) == /\ (call[c].phase \in {"ready", "done"} /\ call[c].kind = "guard") => executed[c] > 0
                  /\ ran[c] = IF call[c].phase = "done" THEN 1 ELSE 0

\* A token was made when its call was permitted, and lapses when its time is up.
WithinLifetime(c) == /\ c \in permitted => exp[c] <= allowedAt[c] + TTL
                     /\ token[c] = "usable" => now < exp[c]

\* The history knows whether some process would permit the call now.
HistoryUpToDate(c) ==
    /\ allowedAt[c] <= now
    /\ call[c].phase # "idle" =>
           \A i \in Instance : Permits(store[i], call[c].req) => allowedAt[c] = now

CallInv(c) == /\ Unverified(c) /\ HeldIsPermitted(c) /\ PermittedForReason(c)
              /\ RunsCounted(c) /\ WithinLifetime(c) /\ HistoryUpToDate(c)

\* A request in hand has a token that was handed out, and came in within its time.
InTimeAtHand(i) ==
    serving[i] # Idle => /\ serving[i].call \in permitted
                         /\ serving[i].since <= exp[serving[i].call]

IInv == TypeOK /\ (\A c \in Call : CallInv(c)) /\ \A i \in Instance : InTimeAtHand(i)

(***************************************************************************)
(* Calls that move on.                                                     *)
(***************************************************************************)

LEMMA Moving ==
    ASSUME TypeOK, NEW c \in Call, call[c].phase # "idle"
    PROVE  call[c] \in CallState
BY DEF TypeOK, NoCall

LEMMA AdvanceMoves ==
    ASSUME TypeOK, NEW c \in Call, call[c].phase # "idle",
           NEW ph \in {"held", "asking", "ready", "done", "failed"}, Advance(c, ph)
    PROVE  /\ call' \in [Call -> {NoCall} \cup CallState]
           /\ call'[c].phase = ph
           /\ call'[c].kind = call[c].kind
           /\ call'[c].req = call[c].req
           /\ \A d \in Call \ {c} : call'[d] = call[d]
<1>1. call[c] \in CallState
  BY Moving
<1>2. [call[c] EXCEPT !.phase = ph] \in CallState
  BY <1>1 DEF CallState
<1>3. call' = [call EXCEPT ![c] = [call[c] EXCEPT !.phase = ph]]
  BY DEF Advance
<1> QED
  BY <1>1, <1>2, <1>3 DEF TypeOK, CallState

LEMMA WithTokenMoves ==
    ASSUME NEW c \in Call
    PROVE  /\ WithToken(c) \in {"held", "ready"}
           /\ call[c].kind = "guard" => WithToken(c) = "held"
BY DEF WithToken

LEMMA AfterwardsMoves ==
    ASSUME NEW c \in Call
    PROVE  /\ AfterPresent(c) \in {"held", "asking"}
           /\ AfterExecute(c) \in {"held", "ready"}
           /\ AfterRefusal(c) \in {"held", "failed"}
BY DEF AfterPresent, AfterExecute, AfterRefusal

\* What a process would permit depends on what it has loaded and on the request.
LEMMA PermitsStable ==
    ASSUME store' = store, NEW c \in Call, call'[c].req = call[c].req, NEW i \in Instance
    PROVE  Permits(store'[i], call'[c].req) = Permits(store[i], call[c].req)
OBVIOUS

\* A step of one call leaves the others as they are.
LEMMA Bystander ==
    ASSUME NEW d \in Call, CallInv(d),
           call'[d] = call[d], token'[d] = token[d], exp'[d] = exp[d],
           d \in permitted' <=> d \in permitted, executed'[d] = executed[d],
           ran'[d] = ran[d], ground'[d] = ground[d], allowedAt'[d] = allowedAt[d],
           store' = store, now' = now
    PROVE  CallInv(d)'
<1>1. (Unverified(d) /\ HeldIsPermitted(d) /\ RunsCounted(d) /\ WithinLifetime(d))'
  BY DEF CallInv, Unverified, HeldIsPermitted, RunsCounted, WithinLifetime
<1>2. PermittedForReason(d)'
  BY DEF CallInv, PermittedForReason
<1>3. HistoryUpToDate(d)'
  BY PermitsStable DEF CallInv, HistoryUpToDate
<1> QED
  BY <1>1, <1>2, <1>3 DEF CallInv

(***************************************************************************)
(* Rules.                                                                  *)
(***************************************************************************)

\* The rule that comes first in the sort is the one the documentation means.
LEMMA FirstRuleDecides ==
    ASSUME NEW s, NEW r, HasEffect(s, r, "allow")
    PROVE  RulesAllow(s, r)
<1> DEFINE A == Applicable(s.rules, r)
<1>1. CASE A = {} /\ s.default = "allow"
  BY <1>1 DEF RulesAllow
<1>2. ASSUME NEW j \in A, \A k \in A \ {j} : Precedes(s.rules, j, k), s.rules[j].effect = "allow"
      PROVE  RulesAllow(s, r)
  BY <1>2 DEF RulesAllow, Precedes
<1> QED
  BY <1>1, <1>2 DEF HasEffect

(***************************************************************************)
(* Type correctness.                                                       *)
(***************************************************************************)

LEMMA InitType == Init => TypeOK
BY DEF Init, TypeOK, Tokens!Init

\* The steps of the abstract tokens keep their type.
LEMMA TokenType ==
    ASSUME TypeOK, \/ UNCHANGED <<token, uses>>
                   \/ \E c \in Call : Tokens!Issue(c) \/ Tokens!Use(c)
                   \/ \E S \in SUBSET Call : Tokens!Lapse(S)
    PROVE  token' \in [Call -> {"unissued", "usable", "spent"}] /\ uses' \in [Call -> Nat]
BY DEF TypeOK, Tokens!Issue, Tokens!Use, Tokens!Lapse

LEMMA CreateTokenType ==
    ASSUME TypeOK, NEW c \in Call, CreateToken(c)
    PROVE  /\ token' \in [Call -> {"unissued", "usable", "spent"}] /\ uses' \in [Call -> Nat]
           /\ exp' \in [Call -> Nat]
BY TokenType, TimeAssumption DEF CreateToken, TypeOK

\* What the history adds is the time.
LEMMA ObserveType ==
    ASSUME TypeOK, now' \in Nat, Observe
    PROVE  allowedAt' \in [Call -> Nat]
BY DEF TypeOK, Observe

\* The request that process i handles.
LEMMA Handled ==
    ASSUME TypeOK, NEW i \in Instance, serving[i].phase \in {"nonce", "record"}
    PROVE  serving[i] # Idle /\ serving[i] \in Handling /\ serving[i].call \in Call
BY DEF TypeOK, Handling, Idle

LEMMA ServingType ==
    ASSUME TypeOK, NEW i \in Instance,
           Accept(i) \/ Refuse(i) \/ Execute(i) \/ ExecuteUnlogged(i)
    PROVE  TypeOK'
<1>1. serving[i] \in Handling /\ serving[i].call \in Call
  BY Handled DEF Accept, Refuse, Execute, ExecuteUnlogged
<1> DEFINE c == serving[i].call
<1>2. token' \in [Call -> {"unissued", "usable", "spent"}] /\ uses' \in [Call -> Nat] /\ exp' = exp
  <2>1. \/ UNCHANGED <<token, uses>>
        \/ \E d \in Call : Tokens!Issue(d) \/ Tokens!Use(d)
        \/ \E S \in SUBSET Call : Tokens!Lapse(S)
    BY <1>1 DEF Accept, Refuse, Execute, ExecuteUnlogged, tokens
  <2> QED
    BY <2>1, TokenType DEF Accept, Refuse, Execute, ExecuteUnlogged, tokens
<1>3. serving' \in [Instance -> {Idle} \cup Handling]
  <2>1. [serving[i] EXCEPT !.phase = "record"] \in Handling
    BY <1>1 DEF Handling
  <2>2. \/ serving' = [serving EXCEPT ![i] = [serving[i] EXCEPT !.phase = "record"]]
        \/ serving' = [serving EXCEPT ![i] = Idle]
    BY DEF Accept, Refuse, Execute, ExecuteUnlogged
  <2> QED
    BY <2>1, <2>2 DEF TypeOK
<1>4. call' \in [Call -> {NoCall} \cup CallState]
  <2>1. CASE call' = call
    BY <2>1 DEF TypeOK
  <2>2. CASE call[c].phase = "asking" /\ Advance(c, AfterExecute(c))
    BY <1>1, <2>2, AdvanceMoves, AfterwardsMoves
  <2> QED
    BY <2>1, <2>2 DEF Accept, Refuse, Execute, ExecuteUnlogged
<1>5. executed' \in [Call -> Nat]
  BY <1>1 DEF Accept, Refuse, Execute, ExecuteUnlogged, TypeOK
<1> QED
  BY <1>2, <1>3, <1>4, <1>5 DEF Accept, Refuse, Execute, ExecuteUnlogged, policy, history, TypeOK

LEMMA NextType == TypeOK /\ [Next]_vars => TypeOK'
<1> SUFFICES ASSUME TypeOK, [Next]_vars
             PROVE  TypeOK'
  OBVIOUS
<1>1. CASE Tick
  <2>1. token' \in [Call -> {"unissued", "usable", "spent"}] /\ uses' \in [Call -> Nat]
    BY <1>1, TokenType DEF Tick
  <2>2. now' \in Nat
    BY <1>1 DEF Tick, TypeOK
  <2> QED
    BY <1>1, <2>1, <2>2, ObserveType DEF Tick, TypeOK, history
<1>2. ASSUME NEW f \in File, Edit(f)
      PROVE  TypeOK'
  BY <1>2 DEF Edit, TypeOK, tokens, history
<1>3. ASSUME NEW i \in Instance, BootText(i) \/ Stop(i)
      PROVE  TypeOK'
  <2>1. CASE BootText(i)
    BY <2>1 DEF BootText, TypeOK, Loaded, tokens, history
  <2>2. CASE Stop(i)
    BY <2>2 DEF Stop, TypeOK, tokens, history
  <2> QED
    BY <1>3, <2>1, <2>2
<1>4. ASSUME NEW i \in Instance, BootRules(i)
      PROVE  TypeOK'
  <2>1. store[i].blocks \in {f.blocks : f \in File}
    <3>1. store[i] \in {Down} \cup Loaded /\ store[i].phase = "text"
      BY <1>4 DEF BootRules, TypeOK
    <3> QED
      BY <3>1 DEF Loaded, Down
  <2>2. [phase |-> "up", blocks |-> store[i].blocks, default |-> file.default,
         rules |-> file.rules] \in Loaded
    BY <2>1 DEF TypeOK, Loaded
  <2>3. store' \in [Instance -> {Down} \cup Loaded]
    <3>1. store' \in [Instance -> {Down} \cup Loaded] \/ ~file.valid
      BY <1>4, <2>2 DEF BootRules, TypeOK
    <3>2. CASE ~file.valid
      <4>1. store' = [store EXCEPT ![i] = Down]
        BY <1>4, <3>2 DEF BootRules
      <4> QED
        BY <4>1 DEF TypeOK
    <3> QED
      BY <3>1, <3>2
  <2> QED
    BY <1>4, <2>3, ObserveType DEF BootRules, TypeOK, tokens, history
<1>5. ASSUME NEW c \in Call, NEW k \in {"guard", "adapter", "raw"}, NEW r \in Request,
             Start(c, k, r)
      PROVE  TypeOK'
  <2>1. call' \in [Call -> {NoCall} \cup CallState]
    BY <1>5 DEF Start, TypeOK, CallState
  <2> QED
    BY <1>5, <2>1, ObserveType DEF Start, TypeOK, tokens, history
<1>6. ASSUME NEW c \in Call, NotVerified(c)
      PROVE  TypeOK'
  BY <1>6, AdvanceMoves DEF NotVerified, TypeOK, gateway, tokens, history
<1>7. ASSUME NEW c \in Call, NotExecuted(c)
      PROVE  TypeOK'
  BY <1>7, AdvanceMoves, AfterwardsMoves DEF NotExecuted, TypeOK, gateway, tokens, history
<1>8. ASSUME NEW c \in Call, Run(c)
      PROVE  TypeOK'
  BY <1>8, AdvanceMoves DEF Run, TypeOK, gateway, tokens, history
<1>9. ASSUME NEW c \in Call, NEW i \in Instance, Verify(c, i)
      PROVE  TypeOK'
  <2>1. call' \in [Call -> {NoCall} \cup CallState]
    BY <1>9, AdvanceMoves, WithTokenMoves DEF Verify
  <2> QED
    BY <1>9, <2>1, CreateTokenType DEF Verify, TypeOK, gateway
<1>10. ASSUME NEW c \in Call, NEW i \in Instance, VerifyUnlogged(c, i)
       PROVE  TypeOK'
  <2>1. call' \in [Call -> {NoCall} \cup CallState]
    BY <1>10, AdvanceMoves DEF VerifyUnlogged
  <2> QED
    BY <1>10, <2>1, CreateTokenType DEF VerifyUnlogged, TypeOK, gateway, history
<1>11. ASSUME NEW c \in Call, NEW i \in Instance, Present(c, i)
       PROVE  TypeOK'
  <2>1. call' \in [Call -> {NoCall} \cup CallState]
    BY <1>11, AdvanceMoves, AfterwardsMoves DEF Present
  <2>2. [call |-> c, since |-> now, phase |-> "nonce"] \in Handling
    BY DEF Handling, TypeOK
  <2> QED
    BY <1>11, <2>1, <2>2 DEF Present, TypeOK, policy, tokens, history
<1>12. ASSUME NEW i \in Instance, Accept(i) \/ Refuse(i) \/ Execute(i) \/ ExecuteUnlogged(i)
       PROVE  TypeOK'
  BY <1>12, ServingType
<1>13. CASE UNCHANGED vars
  BY <1>13 DEF vars, TypeOK
<1> QED
  BY <1>1, <1>2, <1>3, <1>4, <1>5, <1>6, <1>7, <1>8, <1>9, <1>10, <1>11, <1>12, <1>13
     DEF Next

\* Every variable keeps its type (TypeOK).
THEOREM TypeCorrect == Spec => []TypeOK
<1>1. Init => TypeOK
  BY InitType
<1>2. TypeOK /\ [Next]_vars => TypeOK'
  BY NextType
<1> QED
  BY <1>1, <1>2, PTL DEF Spec

(***************************************************************************)
(* The strengthening is inductive.                                         *)
(***************************************************************************)

LEMMA InitInv == Init => IInv
<1> SUFFICES ASSUME Init
             PROVE  IInv
  OBVIOUS
<1>1. TypeOK
  BY InitType
<1>2. ASSUME NEW c \in Call
      PROVE  CallInv(c)
  BY DEF Init, Tokens!Init, CallInv, Unverified, HeldIsPermitted, PermittedForReason,
         RunsCounted, WithinLifetime, HistoryUpToDate, NoCall
<1>3. ASSUME NEW i \in Instance
      PROVE  InTimeAtHand(i)
  BY DEF Init, InTimeAtHand
<1> QED
  BY <1>1, <1>2, <1>3 DEF IInv

\* A step that updates the history leaves it up to date.
LEMMA Observing ==
    ASSUME TypeOK, NEW c \in Call, HistoryUpToDate(c), Observe, now' \in Nat, now <= now'
    PROVE  HistoryUpToDate(c)' /\ allowedAt'[c] \in Nat /\ allowedAt[c] <= allowedAt'[c]
<1>1. allowedAt'[c] = IF call'[c] # NoCall /\ \E i \in Instance : Permits(store'[i], call'[c].req)
                      THEN now' ELSE allowedAt[c]
  BY DEF Observe
<1>2. call'[c].phase # "idle" => call'[c] # NoCall
  BY DEF NoCall
<1>3. allowedAt[c] \in Nat /\ now \in Nat /\ allowedAt[c] <= now
  BY DEF TypeOK, HistoryUpToDate
<1>4. ASSUME call'[c].phase # "idle", NEW i \in Instance, Permits(store'[i], call'[c].req)
      PROVE  allowedAt'[c] = now'
  BY <1>1, <1>2, <1>4
<1>5. allowedAt'[c] <= now'
  BY <1>1, <1>3
<1> QED
  BY <1>1, <1>3, <1>4, <1>5 DEF HistoryUpToDate

\* A call that goes on asks for the same as before.
LEMMA MovedOn ==
    ASSUME TypeOK, NEW c \in Call, CallInv(c), call[c].phase # "idle",
           NEW ph \in {"held", "asking", "ready", "done", "failed"}, Advance(c, ph),
           UNCHANGED policy, now' = now
    PROVE  /\ HistoryUpToDate(c)'
           /\ (permitted' = permitted /\ ground' = ground) => PermittedForReason(c)'
<1>1. call'[c].req = call[c].req
  BY AdvanceMoves
<1>2. HistoryUpToDate(c)'
  BY <1>1, PermitsStable DEF CallInv, HistoryUpToDate, policy
<1>3. (permitted' = permitted /\ ground' = ground) => PermittedForReason(c)'
  BY <1>1 DEF CallInv, PermittedForReason, SameTenant, Authorized, RulesAllow, Applicable, Accepted
<1> QED
  BY <1>2, <1>3

\* What a gateway process that lets the call through has checked.
LEMMA PermitsForReason ==
    ASSUME NEW s, NEW r, Permits(s, r)
    PROVE  SameTenant(r) /\ Authorized(r) /\ RulesAllow(s, r) /\ Accepted(s, r)
BY FirstRuleDecides DEF Permits

\* Steps of the gateway, of the operator and of the clock move no call.
LEMMA GatewayStep ==
    ASSUME TypeOK, NEW c \in Call, CallInv(c),
           Tick \/ (\E f \in File : Edit(f))
                \/ (\E i \in Instance : BootText(i) \/ BootRules(i) \/ Stop(i))
    PROVE  CallInv(c)'
<1>1. /\ call' = call /\ permitted' = permitted /\ executed' = executed /\ ran' = ran
      /\ ground' = ground /\ exp' = exp
  BY DEF Tick, Edit, BootText, BootRules, Stop, tokens, history
<1>2. now' \in Nat /\ now <= now'
  BY DEF Tick, Edit, BootText, BootRules, Stop, TypeOK
<1>3. HistoryUpToDate(c)' /\ allowedAt'[c] \in Nat /\ allowedAt[c] <= allowedAt'[c]
  <2>1. CASE Tick \/ \E i \in Instance : BootRules(i)
    BY <2>1, <1>2, Observing DEF Tick, BootRules, CallInv
  <2>2. CASE \E f \in File : Edit(f)
    BY <2>2 DEF Edit, CallInv, HistoryUpToDate, TypeOK, Permits
  <2>3. ASSUME NEW i \in Instance, BootText(i) \/ Stop(i)
        PROVE  HistoryUpToDate(c)' /\ allowedAt'[c] \in Nat /\ allowedAt[c] <= allowedAt'[c]
    <3>1. allowedAt' = allowedAt /\ now' = now
      BY <2>3 DEF BootText, Stop
    <3>2. ASSUME NEW j \in Instance, Permits(store'[j], call'[c].req)
          PROVE  Permits(store[j], call[c].req)
      BY <2>3, <3>2, <1>1 DEF BootText, Stop, Permits, TypeOK, Down
    <3> QED
      BY <3>1, <3>2, <1>1 DEF CallInv, HistoryUpToDate, TypeOK
  <2> QED
    BY <2>1, <2>2, <2>3
<1>4. Unverified(c)' /\ WithinLifetime(c)'
  <2>1. CASE Tick
    <3>1. token'[c] = IF token[c] = "usable" /\ exp[c] <= now' THEN "spent" ELSE token[c]
      BY <2>1 DEF Tick, Tokens!Lapse
    <3> QED
      BY <3>1, <1>1, <1>2, <1>3, TimeAssumption DEF CallInv, Unverified, WithinLifetime, TypeOK
  <2>2. CASE ~Tick
    <3>1. token' = token /\ now' = now
      BY <2>2 DEF Edit, BootText, BootRules, Stop, tokens
    <3> QED
      BY <3>1, <1>1, <1>2, <1>3, TimeAssumption DEF CallInv, Unverified, WithinLifetime, TypeOK
  <2> QED
    BY <2>1, <2>2
<1>5. HeldIsPermitted(c)' /\ RunsCounted(c)' /\ PermittedForReason(c)'
  BY <1>1 DEF CallInv, HeldIsPermitted, RunsCounted, PermittedForReason, SameTenant, Authorized,
              RulesAllow, Applicable, Accepted
<1> QED
  BY <1>3, <1>4, <1>5 DEF CallInv

\* A call that starts has nothing to its name.
LEMMA StartStep ==
    ASSUME TypeOK, NEW d \in Call, CallInv(d), NEW c \in Call,
           NEW k \in {"guard", "adapter", "raw"}, NEW r \in Request, Start(c, k, r)
    PROVE  CallInv(d)'
<1>1. /\ token' = token /\ permitted' = permitted /\ executed' = executed /\ ran' = ran
      /\ ground' = ground /\ exp' = exp /\ now' = now
  BY DEF Start, tokens, history
<1>2. HistoryUpToDate(d)' /\ allowedAt'[d] \in Nat /\ allowedAt[d] <= allowedAt'[d]
  BY <1>1, Observing DEF Start, CallInv, TypeOK
<1>3. WithinLifetime(d)'
  BY <1>1, <1>2, TimeAssumption DEF CallInv, WithinLifetime, TypeOK
<1>4. CASE d = c
  <2>1. call[d].phase = "idle" /\ call'[d].phase = "verifying"
    BY <1>4 DEF Start, NoCall, TypeOK
  <2> QED
    BY <2>1, <1>1, <1>2, <1>3 DEF CallInv, Unverified, HeldIsPermitted, RunsCounted, PermittedForReason
<1>5. CASE d # c
  <2>1. call'[d] = call[d]
    BY <1>5 DEF Start, TypeOK
  <2> QED
    BY <2>1, <1>1, <1>2, <1>3 DEF CallInv, Unverified, HeldIsPermitted, RunsCounted,
       PermittedForReason, SameTenant, Authorized, RulesAllow, Applicable, Accepted
<1> QED
  BY <1>4, <1>5

\* The calls beside the one that takes a step.
LEMMA OthersStay ==
    ASSUME TypeOK, NEW c \in Call, NEW d \in Call, d # c, CallInv(d), call[c].phase # "idle",
           NotVerified(c) \/ NotExecuted(c) \/ Run(c)
           \/ \E i \in Instance : Verify(c, i) \/ VerifyUnlogged(c, i) \/ Present(c, i)
    PROVE  CallInv(d)'
<1>1. PICK ph \in {"held", "asking", "ready", "done", "failed"} : Advance(c, ph)
  BY WithTokenMoves, AfterwardsMoves
     DEF NotVerified, NotExecuted, Run, Verify, VerifyUnlogged, Present
<1>2. call'[d] = call[d]
  BY <1>1, AdvanceMoves
<1>3. store' = store /\ now' = now /\ allowedAt' = allowedAt
  BY DEF NotVerified, NotExecuted, Run, Verify, VerifyUnlogged, Present, gateway, policy
<1>4. token'[d] = token[d] /\ exp'[d] = exp[d]
  BY DEF NotVerified, NotExecuted, Run, Verify, VerifyUnlogged, Present, tokens, CreateToken,
         Tokens!Issue, TypeOK
<1>5. /\ d \in permitted' <=> d \in permitted
      /\ executed'[d] = executed[d] /\ ran'[d] = ran[d] /\ ground'[d] = ground[d]
  BY DEF NotVerified, NotExecuted, Run, Verify, VerifyUnlogged, Present, history, TypeOK
<1> QED
  BY <1>2, <1>3, <1>4, <1>5, Bystander

LEMMA VerifyStep ==
    ASSUME TypeOK, NEW c \in Call, CallInv(c), NEW i \in Instance, Verify(c, i)
    PROVE  CallInv(c)'
<1>1. call[c].phase = "verifying" /\ Permits(store[i], call[c].req)
  BY DEF Verify
<1>2. PICK ph \in {"held", "ready", "failed"} :
           Advance(c, ph) /\ (ph = "ready" => call[c].kind # "guard")
  BY WithTokenMoves DEF Verify
<1>3. call'[c].phase = ph /\ call'[c].kind = call[c].kind /\ call'[c].req = call[c].req
  BY <1>1, <1>2, AdvanceMoves
<1>4. HistoryUpToDate(c)'
  BY <1>1, <1>2, MovedOn DEF Verify, gateway, policy
<1>5. c \in permitted' /\ ground'[c] = store[i] /\ executed' = executed /\ ran' = ran
  BY DEF Verify, TypeOK
<1>6. PermittedForReason(c)'
  BY <1>1, <1>3, <1>5, PermitsForReason
     DEF PermittedForReason, SameTenant, Authorized, RulesAllow, Applicable, Accepted
<1>7. token'[c] = "usable" /\ exp'[c] = now + TTL /\ now' = now /\ allowedAt' = allowedAt
  BY DEF Verify, CreateToken, Tokens!Issue, TypeOK, gateway
<1>8. allowedAt[c] = now
  BY <1>1 DEF CallInv, HistoryUpToDate
<1>9. WithinLifetime(c)'
  BY <1>7, <1>8, TimeAssumption DEF WithinLifetime, TypeOK
<1>10. Unverified(c)' /\ HeldIsPermitted(c)' /\ RunsCounted(c)'
  BY <1>1, <1>2, <1>3, <1>5 DEF CallInv, Unverified, HeldIsPermitted, RunsCounted
<1> QED
  BY <1>4, <1>6, <1>9, <1>10 DEF CallInv

LEMMA FailingStep ==
    ASSUME TypeOK, NEW c \in Call, CallInv(c),
           NotVerified(c) \/ \E i \in Instance : VerifyUnlogged(c, i)
    PROVE  CallInv(c)'
<1>1. call[c].phase = "verifying" /\ Advance(c, "failed")
  BY DEF NotVerified, VerifyUnlogged
<1>2. call'[c].phase = "failed" /\ call'[c].kind = call[c].kind /\ call'[c].req = call[c].req
  BY <1>1, AdvanceMoves
<1>3. /\ permitted' = permitted /\ ground' = ground /\ executed' = executed /\ ran' = ran
      /\ now' = now /\ allowedAt' = allowedAt /\ UNCHANGED policy
  BY DEF NotVerified, VerifyUnlogged, history, gateway, policy
<1>4. HistoryUpToDate(c)' /\ PermittedForReason(c)'
  BY <1>1, <1>3, MovedOn
<1>5. c \notin permitted /\ executed[c] = 0
  BY <1>1 DEF CallInv, Unverified
<1>6. WithinLifetime(c)'
  <2>1. CASE NotVerified(c)
    BY <2>1, <1>3 DEF NotVerified, tokens, CallInv, WithinLifetime
  <2>2. ASSUME NEW i \in Instance, VerifyUnlogged(c, i)
        PROVE  WithinLifetime(c)'
    <3>1. exp'[c] = now + TTL
      BY <2>2 DEF VerifyUnlogged, CreateToken, TypeOK
    <3> QED
      BY <3>1, <1>3, <1>5, TimeAssumption DEF WithinLifetime, TypeOK
  <2> QED
    BY <2>1, <2>2
<1>7. Unverified(c)' /\ HeldIsPermitted(c)' /\ RunsCounted(c)'
  BY <1>1, <1>2, <1>3, <1>5 DEF CallInv, Unverified, HeldIsPermitted, RunsCounted
<1> QED
  BY <1>4, <1>6, <1>7 DEF CallInv

\* A request in hand goes on: it changes its own token, records and call.
LEMMA ServingStep ==
    ASSUME IInv, NEW i \in Instance, NEW d \in Call,
           Accept(i) \/ Refuse(i) \/ Execute(i) \/ ExecuteUnlogged(i)
    PROVE  CallInv(d)'
<1> DEFINE c == serving[i].call
<1>1. c \in Call /\ c \in permitted /\ TypeOK /\ CallInv(d)
  BY Handled DEF Accept, Refuse, Execute, ExecuteUnlogged, IInv, InTimeAtHand
<1>2. /\ permitted' = permitted /\ ground' = ground /\ ran' = ran /\ exp' = exp
      /\ now' = now /\ store' = store /\ allowedAt' = allowedAt /\ UNCHANGED policy
  BY DEF Accept, Refuse, Execute, ExecuteUnlogged, policy, history, tokens
<1>3. /\ executed'[c] >= executed[c]
      /\ executed' = executed \/ executed'[c] > 0
      /\ \A b \in Call \ {c} : executed'[b] = executed[b]
  BY <1>1 DEF Accept, Refuse, Execute, ExecuteUnlogged, TypeOK
<1>4. /\ token'[c] = token[c] \/ token'[c] = "spent"
      /\ \A b \in Call \ {c} : token'[b] = token[b]
  BY <1>1 DEF Accept, Refuse, Execute, ExecuteUnlogged, tokens, TypeOK, Tokens!Use, Tokens!Lapse
<1>5. \/ call' = call
      \/ /\ call[c].phase = "asking" /\ Advance(c, AfterExecute(c))
         /\ executed'[c] > 0
  BY <1>1 DEF Accept, Refuse, Execute, ExecuteUnlogged, TypeOK
<1> HIDE DEF c
<1>6. CASE d # c
  <2>1. call'[d] = call[d]
    BY <1>1, <1>5, <1>6, AdvanceMoves, AfterwardsMoves
  <2> QED
    BY <1>1, <1>2, <1>3, <1>4, <1>6, <2>1, Bystander
<1>7. CASE d = c
  <2>1. /\ d \in permitted
        /\ executed'[d] >= executed[d]
        /\ token'[d] = token[d] \/ token'[d] = "spent"
        /\ executed' = executed \/ executed'[d] > 0
    BY <1>1, <1>3, <1>4, <1>7
  <2>2. WithinLifetime(d)'
    BY <1>1, <1>2, <2>1 DEF CallInv, WithinLifetime
  <2>3. CASE call' = call
    <3>1. HistoryUpToDate(d)' /\ PermittedForReason(d)'
      BY <1>1, <1>2, <2>3, PermitsStable
         DEF CallInv, HistoryUpToDate, PermittedForReason, SameTenant, Authorized, RulesAllow,
             Applicable, Accepted
    <3>2. Unverified(d)' /\ HeldIsPermitted(d)' /\ RunsCounted(d)'
      BY <1>1, <1>2, <2>1, <2>3 DEF CallInv, Unverified, HeldIsPermitted, RunsCounted
    <3> QED
      BY <2>2, <3>1, <3>2 DEF CallInv
  <2>4. CASE call[d].phase = "asking" /\ Advance(d, AfterExecute(d)) /\ executed'[d] > 0
    <3>1. PICK ph \in {"held", "ready"} : Advance(d, ph)
      BY <2>4, AfterwardsMoves
    <3>2. /\ call'[d].phase = ph
          /\ call'[d].kind = call[d].kind /\ call'[d].req = call[d].req
      BY <1>1, <2>4, <3>1, AdvanceMoves
    <3>3. HistoryUpToDate(d)' /\ PermittedForReason(d)'
      BY <1>1, <1>2, <2>4, <3>1, MovedOn
    <3>4. Unverified(d)' /\ HeldIsPermitted(d)' /\ RunsCounted(d)'
      BY <1>1, <1>2, <2>1, <2>4, <3>2
         DEF CallInv, Unverified, HeldIsPermitted, RunsCounted
    <3> QED
      BY <2>2, <3>3, <3>4 DEF CallInv
  <2> QED
    BY <1>5, <1>7, <2>3, <2>4
<1> QED
  BY <1>6, <1>7

\* The client's own steps: it presents its token, is told that it was not
\* executed or gives up, and runs the tool.
LEMMA ClientStep ==
    ASSUME TypeOK, NEW c \in Call, CallInv(c),
           NotExecuted(c) \/ Run(c) \/ \E i \in Instance : Present(c, i)
    PROVE  CallInv(c)'
<1>1. call[c].phase \in {"held", "asking", "ready"}
  BY DEF NotExecuted, Run, Present
<1>2. PICK ph \in {"held", "asking", "failed", "done"} :
           Advance(c, ph) /\ (ph = "done" => Run(c)) /\ (ph # "done" => ~Run(c))
  <2>1. CASE Run(c)
    BY <2>1 DEF Run
  <2>2. CASE ~Run(c)
    BY <2>2, AfterwardsMoves DEF NotExecuted, Present
  <2> QED
    BY <2>1, <2>2
<1>3. call'[c].phase = ph /\ call'[c].kind = call[c].kind /\ call'[c].req = call[c].req
  BY <1>1, <1>2, AdvanceMoves
<1>4. /\ permitted' = permitted /\ ground' = ground /\ executed' = executed
      /\ now' = now /\ allowedAt' = allowedAt /\ UNCHANGED policy /\ UNCHANGED tokens
  BY DEF NotExecuted, Run, Present, history, gateway, policy, tokens
<1>5. HistoryUpToDate(c)' /\ PermittedForReason(c)'
  BY <1>1, <1>2, <1>4, MovedOn
<1>6. WithinLifetime(c)'
  BY <1>4 DEF CallInv, WithinLifetime, tokens
<1>7. Unverified(c)' /\ HeldIsPermitted(c)'
  BY <1>1, <1>2, <1>3, <1>4 DEF CallInv, Unverified, HeldIsPermitted
<1>8. RunsCounted(c)'
  <2>1. CASE Run(c)
    <3>1. call[c].phase = "ready" /\ ran' = [ran EXCEPT ![c] = @ + 1]
      BY <2>1 DEF Run
    <3>2. call'[c].phase = "done"
      BY <1>2, <1>3, <2>1
    <3>3. ran[c] = 0 /\ (call[c].kind = "guard" => executed[c] > 0)
      BY <3>1 DEF CallInv, RunsCounted
    <3>4. ran'[c] = 1
      BY <3>1, <3>3 DEF TypeOK
    <3> QED
      BY <1>3, <1>4, <3>2, <3>3, <3>4 DEF RunsCounted
  <2>2. CASE ~Run(c)
    <3>1. ran' = ran /\ call[c].phase \in {"held", "asking"}
      BY <2>2 DEF NotExecuted, Present
    <3>2. call'[c].phase \in {"held", "asking", "failed"}
      BY <1>2, <1>3, <2>2
    <3> QED
      BY <3>1, <3>2 DEF CallInv, RunsCounted
  <2> QED
    BY <2>1, <2>2
<1> QED
  BY <1>5, <1>6, <1>7, <1>8 DEF CallInv

\* A token keeps its deadline once its call was permitted.
LEMMA HandStep ==
    ASSUME IInv, [Next]_vars, NEW i \in Instance
    PROVE  InTimeAtHand(i)'
<1>1. \/ serving'[i] = Idle
      \/ serving'[i].call = serving[i].call /\ serving'[i].since = serving[i].since /\ serving[i] # Idle
      \/ \E c \in Call : Present(c, i)
  <2>1. CASE serving' = serving
    BY <2>1
  <2>2. ASSUME NEW j \in Instance, Stop(j) \/ Refuse(j) \/ Execute(j) \/ ExecuteUnlogged(j)
        PROVE  serving'[i] = Idle \/ serving'[i] = serving[i]
    BY <2>2 DEF Stop, Refuse, Execute, ExecuteUnlogged, IInv, TypeOK
  <2>3. ASSUME NEW j \in Instance, Accept(j)
        PROVE  \/ serving'[i] = serving[i]
               \/ /\ serving'[i].call = serving[i].call /\ serving'[i].since = serving[i].since
                  /\ serving[i] # Idle
    BY <2>3, Handled DEF Accept, IInv, TypeOK, Handling
  <2>4. ASSUME NEW c \in Call, NEW j \in Instance, Present(c, j)
        PROVE  i = j \/ serving'[i] = serving[i]
    BY <2>4 DEF Present, IInv, TypeOK
  <2>5. \/ serving' = serving
        \/ \E j \in Instance : Stop(j) \/ Refuse(j) \/ Execute(j) \/ ExecuteUnlogged(j) \/ Accept(j)
        \/ \E c \in Call, j \in Instance : Present(c, j)
    BY DEF Next, Tick, Edit, BootText, BootRules, Start, NotVerified, NotExecuted, Run, Verify,
           VerifyUnlogged, gateway, vars
  <2> QED
    BY <2>1, <2>2, <2>3, <2>4, <2>5
<1>2. permitted \subseteq permitted' /\ \A c \in permitted : exp'[c] = exp[c]
  <2>1. CASE UNCHANGED <<permitted, exp>>
    BY <2>1
  <2>2. ASSUME NEW c \in Call, NEW j \in Instance, Verify(c, j) \/ VerifyUnlogged(c, j)
        PROVE  permitted \subseteq permitted' /\ \A b \in permitted : exp'[b] = exp[b]
    <3>1. c \notin permitted /\ permitted \subseteq permitted'
      BY <2>2 DEF Verify, VerifyUnlogged, history, IInv, CallInv, Unverified
    <3>2. exp' = [exp EXCEPT ![c] = now + TTL]
      BY <2>2 DEF Verify, VerifyUnlogged, CreateToken
    <3> QED
      BY <3>1, <3>2 DEF IInv, TypeOK
  <2>3. \/ UNCHANGED <<permitted, exp>>
        \/ \E c \in Call, j \in Instance : Verify(c, j) \/ VerifyUnlogged(c, j)
    BY DEF Next, Tick, Edit, BootText, BootRules, Stop, Start, NotVerified, NotExecuted, Run,
           Present, Accept, Refuse, Execute, ExecuteUnlogged, tokens, history, vars
  <2> QED
    BY <2>1, <2>2, <2>3
<1>3. ASSUME NEW c \in Call, Present(c, i)
      PROVE  InTimeAtHand(i)'
  <2>1. /\ serving'[i] = [call |-> c, since |-> now, phase |-> "nonce"]
        /\ now <= exp[c] /\ exp' = exp /\ permitted' = permitted
    BY <1>3 DEF Present, InTime, tokens, history, IInv, TypeOK
  <2>2. c \in permitted
    BY <1>3 DEF Present, IInv, CallInv, HeldIsPermitted
  <2> QED
    BY <2>1, <2>2 DEF InTimeAtHand
<1>4. CASE serving'[i].call = serving[i].call /\ serving'[i].since = serving[i].since /\ serving[i] # Idle
  BY <1>2, <1>4 DEF IInv, InTimeAtHand
<1> QED
  BY <1>1, <1>3, <1>4 DEF InTimeAtHand, Idle

LEMMA NextInv == IInv /\ [Next]_vars => IInv'
<1> SUFFICES ASSUME IInv, [Next]_vars, NEW d \in Call
             PROVE  CallInv(d)'
  BY NextType, HandStep DEF IInv
<1>0. TypeOK /\ \A c \in Call : CallInv(c)
  BY DEF IInv
<1>1. CASE Tick \/ (\E f \in File : Edit(f))
           \/ (\E i \in Instance : BootText(i) \/ BootRules(i) \/ Stop(i))
  BY <1>0, <1>1, GatewayStep
<1>2. CASE \E c \in Call, k \in {"guard", "adapter", "raw"}, r \in Request : Start(c, k, r)
  BY <1>0, <1>2, StartStep
<1>3. ASSUME NEW c \in Call,
             NotVerified(c) \/ NotExecuted(c) \/ Run(c)
             \/ \E i \in Instance : Verify(c, i) \/ VerifyUnlogged(c, i) \/ Present(c, i)
      PROVE  CallInv(d)'
  <2>1. CASE d = c
    BY <1>0, <1>3, <2>1, VerifyStep, FailingStep, ClientStep
  <2>2. CASE d # c
    <3>1. call[c].phase # "idle"
      BY <1>3 DEF NotVerified, NotExecuted, Run, Verify, VerifyUnlogged, Present
    <3> QED
      BY <1>0, <1>3, <2>2, <3>1, OthersStay
  <2> QED
    BY <2>1, <2>2
<1>4. CASE \E i \in Instance : Accept(i) \/ Refuse(i) \/ Execute(i) \/ ExecuteUnlogged(i)
  BY <1>4, ServingStep
<1>5. CASE UNCHANGED vars
  BY <1>0, <1>5, Bystander DEF vars
<1> QED
  BY <1>1, <1>2, <1>3, <1>4, <1>5 DEF Next

\* The strengthening holds in every reachable state.
THEOREM Invariance == Spec => []IInv
<1>1. Init => IInv
  BY InitInv
<1>2. IInv /\ [Next]_vars => IInv'
  BY NextInv
<1> QED
  BY <1>1, <1>2, PTL DEF Spec

(***************************************************************************)
(* The properties.                                                         *)
(***************************************************************************)

\* What was executed was permitted on record, for reasons that authorization,
\* rules and text checks gave (ExecutedWasAllowed).
THEOREM ExecutedTheorem == Spec => []ExecutedWasAllowed
<1>1. IInv => ExecutedWasAllowed
  BY DEF IInv, CallInv, HeldIsPermitted, PermittedForReason, ExecutedWasAllowed
<1> QED
  BY <1>1, Invariance, PTL

\* The tool is run at most as often as the log has executions, or permissions where
\* the adapter is used (RunsBacked).
THEOREM RunsTheorem == Spec => []RunsBacked
<1>1. IInv => RunsBacked
  <2> SUFFICES ASSUME IInv, NEW c \in Call, ran[c] > 0
               PROVE  /\ c \in permitted
                      /\ call[c].kind = "guard" => ran[c] <= executed[c]
                      /\ call[c].kind = "adapter" => ran[c] = 1
    BY DEF RunsBacked
  <2>1. call[c].phase = "done" /\ ran[c] = 1
    BY DEF IInv, CallInv, RunsCounted
  <2>2. call[c].kind = "guard" => executed[c] > 0
    BY <2>1 DEF IInv, CallInv, RunsCounted
  <2>3. executed[c] \in Nat
    BY DEF IInv, TypeOK
  <2> QED
    BY <2>1, <2>2, <2>3 DEF IInv, CallInv, HeldIsPermitted
<1> QED
  BY <1>1, Invariance, PTL

\* No execute request that comes in more than a token's lifetime after the last
\* moment at which some process would have permitted the call is executed
\* (RevocationTakesEffect).
THEOREM RevocationTheorem == Spec => RevocationTakesEffect
<1>1. IInv /\ [Next]_vars
          => [\A c \in Call : executed'[c] # executed[c] =>
                 \E i \in Instance : /\ serving[i] # Idle /\ serving'[i] = Idle
                                     /\ serving[i].call = c
                                     /\ serving[i].since <= allowedAt[c] + TTL]_vars
  <2> SUFFICES ASSUME IInv, Next, NEW c \in Call, executed'[c] # executed[c]
               PROVE  \E i \in Instance : /\ serving[i] # Idle /\ serving'[i] = Idle
                                          /\ serving[i].call = c
                                          /\ serving[i].since <= allowedAt[c] + TTL
    OBVIOUS
  <2>1. PICK i \in Instance : Execute(i)
    BY DEF Next, Tick, Edit, BootText, BootRules, Stop, Start, NotVerified, NotExecuted, Run,
           Verify, VerifyUnlogged, Present, Accept, Refuse, ExecuteUnlogged
  <2>2. /\ serving[i] # Idle /\ serving[i] \in Handling /\ serving[i].call \in Call
        /\ serving'[i] = Idle
    BY <2>1, Handled DEF Execute, IInv, TypeOK
  <2>3. serving[i].call = c
    BY <2>1, <2>2 DEF Execute, IInv, TypeOK
  <2>4. c \in permitted /\ serving[i].since <= exp[c]
    BY <2>2, <2>3 DEF IInv, InTimeAtHand
  <2>5. exp[c] <= allowedAt[c] + TTL
    BY <2>4 DEF IInv, CallInv, WithinLifetime
  <2>6. serving[i].since \in Nat /\ exp[c] \in Nat /\ allowedAt[c] \in Nat
    BY <2>2 DEF Handling, IInv, TypeOK
  <2>7. serving[i].since <= allowedAt[c] + TTL
    BY <2>4, <2>5, <2>6, TimeAssumption
  <2> QED
    BY <2>2, <2>3, <2>7
<1> QED
  BY <1>1, Invariance, PTL DEF Spec, RevocationTakesEffect

=============================================================================
