---------------------------- MODULE LocalGateway ----------------------------
(* Execution tokens and the key that signs them, as a gateway keeps both      *)
(* without a key directory: the nonce stores of ExecutionToken beside         *)
(* EnvKeyManager, which makes up a key and, if it was given a path, leaves it *)
(* in a file that other processes and later starts read.                      *)
(*                                                                            *)
(* A process loads or makes its key in the handler that first needs it, with  *)
(* the event loop held, so nothing else happens in that process meanwhile;    *)
(* another process may come between the look at the file, the generation, the *)
(* truncation of the file and its filling.  Keys are numbered as they are     *)
(* made.                                                                      *)
(*                                                                            *)
(* lru_cache does not keep two worker threads from building a manager or a    *)
(* store at the same time: of the first requests of a process, one that       *)
(* overlaps another may be served with objects of its own, which nobody sees  *)
(* afterwards.  Its body was read before its dependencies were resolved, so   *)
(* the token it presents was issued before.  One such request per process and *)
(* start is followed (aside); its handler is one step.                        *)
EXTENDS ExecutionToken

CONSTANT MaxKeys        \* bound on the keys made

ASSUME MaxKeysAssumption == MaxKeys \in Nat

VARIABLES deployed,     \* the processes of this deployment
          keyFile,      \* the file at execution_key_path
          made,         \* the number of keys made so far
          key,          \* key[i]: _private_key of process i, 0 before its first use
          saving,       \* saving[i]: the key process i has made and not yet saved
          signer,       \* signer[t]: the key that signed t, 0 while t is not issued
          aside,        \* aside[i]: a first request of i with objects of its own
          extra,        \* history: stores i built and did not keep, since it started
          stray         \* history: early acceptances of t by such a store of i

keyVars == <<keyFile, made, key, saving, signer>>
strayVars == <<extra, stray>>
gatewayVars == <<vars, deployed, keyVars, aside, strayVars>>

KeyFile == [kind : {"unset", "absent", "torn", "key"}, key : Nat]
Missing(k) == [kind |-> k, key |-> 0]
Saved(k) == [kind |-> "key", key |-> k]
NotSaving == [key |-> 0, opened |-> FALSE]
NoAside == [kind |-> "none"]
Aside == {NoAside} \cup [kind : {"issue"}]
         \cup [kind : {"execute"}, tok : Token, user : User,
               mode : {"redis", "cut", "local"}, own : BOOLEAN]

----------------------------------------------------------------------------
(* Mutated forms of definitions below, used to check that the properties are  *)
(* sensitive to the code they are about.                                      *)

\* The key is used from the moment it is made, not once it is in the file.
UsedUnsaved(i) == /\ made < MaxKeys
                  /\ made' = made + 1
                  /\ saving' = [saving EXCEPT ![i] = [key |-> made + 1, opened |-> FALSE]]
                  /\ key' = [key EXCEPT ![i] = made + 1]

\* Without a file the key is derived from a secret that every start has.
DerivedKey(i) == /\ key' = [key EXCEPT ![i] = 1]
                 /\ UNCHANGED <<made, saving>>

----------------------------------------------------------------------------

GatewayInit == /\ Init
               /\ deployed \in {P \in SUBSET Instance : P # {}}
               /\ keyFile \in {Missing("unset"), Missing("absent"), Saved(1)}
               /\ made = keyFile.key
               /\ key = [i \in Instance |-> 0]
               /\ saving = [i \in Instance |-> NotSaving]
               /\ signer = [t \in Token |-> 0]
               /\ aside = [i \in Instance |-> NoAside]
               /\ extra = [i \in Instance |-> 0]
               /\ stray = [i \in Instance |-> [t \in Token |-> 0]]

\* The event loop of process i has nothing in hand.
LoopIdle(i) == mode[i] # "unset" /\ req[i] = Idle /\ saving[i] = NotSaving

\* The first requests of process i; one that overlaps may get a manager, and one
\* that presents a token a store, of its own.
Start(i) ==
    /\ i \in deployed
    /\ Boot(i)
    /\ \E a \in Aside :
           /\ a.kind = "execute" => exp[a.tok] # 0 /\ a.mode \in {"redis"} \cup StoreWithoutRedis
           /\ aside' = [aside EXCEPT ![i] = a]
           /\ extra' = [extra EXCEPT ![i] = IF a.kind = "execute" THEN 1 ELSE 0]
    /\ UNCHANGED <<deployed, keyVars, stray>>

\* The process dies and is started again.
Restart(i) == /\ Crash(i)
              /\ key' = [key EXCEPT ![i] = 0]
              /\ saving' = [saving EXCEPT ![i] = NotSaving]
              /\ aside' = [aside EXCEPT ![i] = NoAside]
              /\ extra' = [extra EXCEPT ![i] = 0]
              /\ stray' = [stray EXCEPT ![i] = [t \in Token |-> 0]]
              /\ UNCHANGED <<deployed, keyFile, made, signer>>

----------------------------------------------------------------------------
(* EnvKeyManager._load_or_create_private_key; it raises on a torn file.        *)

\* Without a path the key lives and dies with the process.
KeepInMemory(i) == /\ made < MaxKeys
                   /\ made' = made + 1
                   /\ key' = [key EXCEPT ![i] = made + 1]
                   /\ UNCHANGED saving

\* There is no file: a key is made, which is not in use before it is saved.
MakeForFile(i) == /\ made < MaxKeys
                  /\ made' = made + 1
                  /\ saving' = [saving EXCEPT ![i] = [key |-> made + 1, opened |-> FALSE]]
                  /\ UNCHANGED key

LoadKey(i) == /\ LoopIdle(i)
              /\ key[i] = 0
              /\ \/ keyFile.kind = "unset" /\ KeepInMemory(i)
                 \/ keyFile.kind = "absent" /\ MakeForFile(i)
                 \/ /\ keyFile.kind = "key"
                    /\ key' = [key EXCEPT ![i] = keyFile.key]
                    /\ UNCHANGED <<made, saving>>
              /\ UNCHANGED <<vars, deployed, keyFile, signer, aside, strayVars>>

\* write_bytes truncates the file ...
OpenKeyFile(i) == /\ saving[i].key # 0
                  /\ ~saving[i].opened
                  /\ keyFile' = Missing("torn")
                  /\ saving' = [saving EXCEPT ![i].opened = TRUE]
                  /\ UNCHANGED <<vars, deployed, made, key, signer, aside, strayVars>>

\* ... and fills it; all keys are of one length.
WriteKeyFile(i) == /\ saving[i].opened
                   /\ keyFile' = Saved(saving[i].key)
                   /\ key' = [key EXCEPT ![i] = saving[i].key]
                   /\ saving' = [saving EXCEPT ![i] = NotSaving]
                   /\ UNCHANGED <<vars, deployed, made, signer, aside, strayVars>>

\* The directory or the file cannot be written: the request fails, the key is gone.
WriteKeyFails(i) == /\ saving[i] # NotSaving
                    /\ saving' = [saving EXCEPT ![i] = NotSaving]
                    /\ UNCHANGED <<vars, deployed, keyFile, made, key, signer, aside, strayVars>>

----------------------------------------------------------------------------
(* Requests                                                                   *)

\* create_execution_token signs with the key of the process.
IssueSigned(i, t, u) == /\ key[i] # 0
                        /\ Issue(i, t, u)
                        /\ signer' = [signer EXCEPT ![t] = key[i]]
                        /\ UNCHANGED <<deployed, keyFile, made, key, saving, aside, strayVars>>

\* verify_execution_token checks the signature before all else.
CheckSigned(i, t, u) == /\ key[i] # 0
                        /\ key[i] = signer[t]
                        /\ Check(i, t, u)
                        /\ UNCHANGED <<deployed, keyVars, aside, strayVars>>

\* The key of a manager that one request has to itself.  With a file it is the
\* file's, once the process has seen to that.
IssueAside(i, t, u) ==
    /\ aside[i].kind = "issue"
    /\ LoopIdle(i)
    /\ exp[t] = 0
    /\ exp' = [exp EXCEPT ![t] = now.s + TTL]
    /\ sub' = [sub EXCEPT ![t] = u]
    /\ \/ /\ keyFile.kind = "unset"
          /\ made < MaxKeys
          /\ made' = made + 1
          /\ signer' = [signer EXCEPT ![t] = made + 1]
       \/ /\ keyFile.kind = "key"
          /\ signer' = [signer EXCEPT ![t] = keyFile.key]
          /\ UNCHANGED made
    /\ aside' = [aside EXCEPT ![i] = NoAside]
    /\ UNCHANGED <<now, l2, mode, l1, req, early, late, mine, executed>>
    /\ UNCHANGED <<deployed, keyFile, key, saving, strayVars>>

\* The keys a request with objects of its own verifies with.
AsideKey(i) == IF ~aside[i].own THEN key[i]
               ELSE IF keyFile.kind = "key" THEN keyFile.key ELSE 0

\* A token is accepted by an L1 store that is empty and not seen again.
ExecuteAside(i) ==
    /\ aside[i].kind = "execute"
    /\ LoopIdle(i)
    /\ LET t == aside[i].tok
       IN  /\ AsideKey(i) = signer[t]
           /\ ~Expired(t)
           /\ \/ aside[i].mode = "local" /\ UNCHANGED l2
              \/ /\ aside[i].mode = "redis"
                 /\ ~Live(l2[t])
                 /\ l2' = [l2 EXCEPT ![t] = In(NonceTtl(t))]
           /\ IF now.s < exp[t] THEN /\ early' = [early EXCEPT ![t] = @ + 1]
                                     /\ stray' = [stray EXCEPT ![i][t] = @ + 1]
                                     /\ late' = late
                                ELSE /\ late' = [late EXCEPT ![t] = @ + 1]
                                     /\ UNCHANGED <<early, stray>>
           /\ executed' = IF sub[t] = aside[i].user THEN [executed EXCEPT ![t] = @ + 1]
                                                    ELSE executed
    /\ aside' = [aside EXCEPT ![i] = NoAside]
    /\ UNCHANGED <<now, exp, sub, mode, l1, req, mine, deployed, keyVars, extra>>

\* It is refused, or fails.
AsideFails(i) == /\ aside[i] # NoAside
                 /\ LoopIdle(i)
                 /\ aside' = [aside EXCEPT ![i] = NoAside]
                 /\ UNCHANGED <<vars, deployed, keyVars, strayVars>>

\* What ExecutionToken does without looking at keys.
Unsigned(i) == \/ SetAccepted(i) \/ SetReplyLost(i) \/ SetRefused(i)
               \/ Record(i) \/ Execute(i) \/ FailAfterConsume(i)

GatewayNext ==
    \/ Tick /\ UNCHANGED <<deployed, keyVars, aside, strayVars>>
    \/ \E i \in Instance : \/ Start(i) \/ Restart(i)
                           \/ LoadKey(i) \/ OpenKeyFile(i) \/ WriteKeyFile(i) \/ WriteKeyFails(i)
                           \/ ExecuteAside(i) \/ AsideFails(i)
                           \/ Unsigned(i) /\ UNCHANGED <<deployed, keyVars, aside, strayVars>>
    \/ \E i \in Instance, t \in Token, u \in User :
           IssueSigned(i, t, u) \/ CheckSigned(i, t, u) \/ IssueAside(i, t, u)

GatewaySpec == GatewayInit /\ [][GatewayNext]_gatewayVars

----------------------------------------------------------------------------
(* Properties                                                                 *)

\* Every variable has its type.
GatewayTypeOK == /\ TypeOK
                 /\ deployed \in SUBSET Instance
                 /\ keyFile \in KeyFile
                 /\ made \in Nat
                 /\ key \in [Instance -> Nat]
                 /\ saving \in [Instance -> [key : Nat, opened : BOOLEAN]]
                 /\ signer \in [Token -> Nat]
                 /\ aside \in [Instance -> Aside]
                 /\ extra \in [Instance -> Nat]
                 /\ stray \in [Instance -> [Token -> Nat]]

\* The early acceptances of t in process i since it started, by whichever store.
Taken(i, t) == mine[i][t] + stray[i][t]

\* Outside production and without Redis a process accepts a token before its
\* deadline at most once for every store it has built since it started: the one
\* it keeps, and each that a first request got to itself because lru_cache does
\* not hold a lock while get_nonce_store runs; as long as L1 does not overflow.
LocalSingleUse ==
    Cardinality(Token) <= MaxEntries =>
        \A i \in Instance, t \in Token : Taken(i, t) <= 1 + extra[i]

\* Without a key file a token is accepted at most once before its deadline, also
\* without Redis, after restarts and with stores built twice, as long as L1 does
\* not overflow: the key dies with the nonces it goes with (get_key_manager,
\* get_nonce_store).  With a key file and without Redis this is not so.
EphemeralSingleUse ==
    keyFile.kind = "unset" /\ Cardinality(Token) <= MaxEntries =>
        \A t \in Token : early[t] <= 1

OneProcess == \A i, j \in deployed : i = j

\* A process alone on its key file, and any number on a file that was there first,
\* never hand out a token that a later start cannot verify, wherever a process
\* died or failed to write (_load_or_create_private_key).
TokensSurviveRestart ==
    keyFile.kind # "unset" /\ (OneProcess \/ made = 1) =>
        \A t \in Token : signer[t] # 0 => keyFile = Saved(signer[t])

=============================================================================
