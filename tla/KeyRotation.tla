----------------------------- MODULE KeyRotation -----------------------------
(* The signing keys of execution tokens: VersionedKeyManager on a key_dir.    *)
(*                                                                            *)
(* Nothing in the gateway calls rotate(): an operator does, in a process of   *)
(* its own on the same directory, so several processes may share the directory *)
(* and each keeps the lists and the key cache it has in memory.  Keys are     *)
(* numbered in the order in which their files are written (the ids are random *)
(* and never repeat).  A file is written by truncating it and then filling it; *)
(* a process may die between any two writes.  The HSM provider and the mode   *)
(* without a directory, in which nothing survives a restart, are left out.    *)
EXTENDS Integers, Sequences

CONSTANTS Process,      \* processes that open the key directory
          MaxPrevious,  \* _MAX_PREVIOUS_KEYS
          MaxKeys       \* bound on the keys generated

ASSUME KeyAssumption == MaxPrevious \in Nat \ {0} /\ MaxKeys \in Nat

VARIABLES deployed,     \* the processes of this deployment
          made,         \* the number of keys generated so far
          pem,          \* the keys whose .pem file is in the directory
          meta,         \* metadata.json
          at,           \* at[p]: what process p is doing
          ids,          \* ids[p]: get_key_ids(), the active key first
          cache         \* cache[p]: _keys

vars == <<deployed, made, pem, meta, at, ids, cache>>

Key == 1 .. made

\* size is the number of ids in the file: the longer list is the longer text.
Absent == [kind |-> "absent", ids |-> <<>>, size |-> 0]
Torn(n) == [kind |-> "torn", ids |-> <<>>, size |-> n]
Whole(s) == [kind |-> "whole", ids |-> s, size |-> Len(s)]

----------------------------------------------------------------------------
(* Mutated forms of definitions below, used to check that the properties are  *)
(* sensitive to the code they are about.                                      *)

\* One previous key fewer is kept.
KeepFewer(s) == Len(s) > MaxPrevious

\* The demoted key goes to the end of the previous keys, not to their front.
DemotedLast(s, k) == <<k>> \o Tail(s) \o <<s[1]>>

----------------------------------------------------------------------------

Init == /\ deployed \in {P \in SUBSET Process : P # {}}
        /\ made = 0
        /\ pem = {}
        /\ meta = Absent
        /\ at = [p \in Process |-> "down"]
        /\ ids = [p \in Process |-> <<>>]
        /\ cache = [p \in Process |-> {}]

\* _load_metadata: a torn file makes the constructor fail, and with it every
\* start from then on.
Load(p) == /\ p \in deployed
           /\ at[p] = "down"
           /\ meta.kind = "whole"
           /\ at' = [at EXCEPT ![p] = "ready"]
           /\ ids' = [ids EXCEPT ![p] = meta.ids]
           /\ cache' = [cache EXCEPT ![p] = {}]
           /\ UNCHANGED <<deployed, made, pem, meta>>

\* Generate a key and write its file (_save_key).
SaveKey(p) == /\ made < MaxKeys
              /\ made' = made + 1
              /\ pem' = pem \cup {made + 1}
              /\ cache' = [cache EXCEPT ![p] = @ \cup {made + 1}]

\* _initialize_new_key, in a directory without metadata, up to _save_metadata.
Initialize(p) == /\ p \in deployed
                 /\ at[p] = "down"
                 /\ meta.kind = "absent"
                 /\ SaveKey(p)
                 /\ ids' = [ids EXCEPT ![p] = <<made + 1>>]
                 /\ at' = [at EXCEPT ![p] = "open"]
                 /\ UNCHANGED <<deployed, meta>>

\* "len(self._previous_key_ids) > _MAX_PREVIOUS_KEYS", the active key included.
TooMany(s) == Len(s) > MaxPrevious + 1

\* The new key becomes the active one, the old active the first previous one.
Promote(s, k) == <<k>> \o s

\* rotate, up to the removal of keys beyond the retention limit.
Rotate(p) == /\ at[p] = "ready"
             /\ SaveKey(p)
             /\ ids' = [ids EXCEPT ![p] = Promote(@, made + 1)]
             /\ at' = [at EXCEPT ![p] = IF TooMany(ids'[p]) THEN "delete" ELSE "open"]
             /\ UNCHANGED <<deployed, meta>>

\* Mutated form of Delete: the retired key stays in the cache.
DeleteFileOnly(p) ==
    /\ at[p] = "delete"
    /\ pem' = pem \ {ids[p][Len(ids[p])]}
    /\ ids' = [ids EXCEPT ![p] = SubSeq(@, 1, Len(@) - 1)]
    /\ at' = [at EXCEPT ![p] = IF TooMany(ids'[p]) THEN "delete" ELSE "open"]
    /\ UNCHANGED <<deployed, made, meta, cache>>

\* _delete_key of the oldest key: from the list, the cache and the directory.
Delete(p) == /\ at[p] = "delete"
             /\ LET retired == ids[p][Len(ids[p])]
                IN  /\ cache' = [cache EXCEPT ![p] = @ \ {retired}]
                    /\ pem' = pem \ {retired}
             /\ ids' = [ids EXCEPT ![p] = SubSeq(@, 1, Len(@) - 1)]
             /\ at' = [at EXCEPT ![p] = IF TooMany(ids'[p]) THEN "delete" ELSE "open"]
             /\ UNCHANGED <<deployed, made, meta>>

\* _save_metadata: write_text opens the file, which empties it ...
OpenMetadata(p) == /\ at[p] = "open"
                   /\ meta' = Torn(0)
                   /\ at' = [at EXCEPT ![p] = "write"]
                   /\ UNCHANGED <<deployed, made, pem, ids, cache>>

\* ... and fills it from the start: of a longer text that another process wrote
\* in the meantime the tail remains, and the file is not JSON.
WriteMetadata(p) ==
    /\ at[p] = "write"
    /\ meta' = IF meta.size > Len(ids[p]) THEN Torn(meta.size) ELSE Whole(ids[p])
    /\ at' = [at EXCEPT ![p] = "ready"]
    /\ UNCHANGED <<deployed, made, pem, ids, cache>>

\* _get_key, for a signature, a verification or the JWKS: a key that is not
\* cached is read from its file, listed or not; otherwise KeyError.
GetKey(p, k) == /\ at[p] = "ready"
                /\ k \in pem
                /\ cache' = [cache EXCEPT ![p] = @ \cup {k}]
                /\ UNCHANGED <<deployed, made, pem, meta, at, ids>>

Crash(p) == /\ at[p] # "down"
            /\ at' = [at EXCEPT ![p] = "down"]
            /\ ids' = [ids EXCEPT ![p] = <<>>]
            /\ cache' = [cache EXCEPT ![p] = {}]
            /\ UNCHANGED <<deployed, made, pem, meta>>

Next == \E p \in Process : \/ Load(p) \/ Initialize(p) \/ Rotate(p) \/ Delete(p)
                           \/ OpenMetadata(p) \/ WriteMetadata(p) \/ Crash(p)
                           \/ \E k \in 1 .. MaxKeys : GetKey(p, k)

Spec == Init /\ [][Next]_vars

----------------------------------------------------------------------------
(* Properties                                                                 *)

\* Every variable has its type.
TypeOK == /\ deployed \in SUBSET Process
          /\ made \in Nat
          /\ pem \in SUBSET Key
          /\ meta \in [kind : {"absent", "torn", "whole"}, ids : Seq(Key), size : Nat]
          /\ at \in [Process -> {"down", "ready", "delete", "open", "write"}]
          /\ ids \in [Process -> Seq(Key)]
          /\ cache \in [Process -> SUBSET Key]

\* Whatever processes share the directory and wherever they die, a key's file
\* outlives the generation of MaxPrevious further keys: a token signed with it can
\* be verified until then, by every process that runs (rotate, _delete_key).
RecentKeysOnDisk == \A k \in Key : made - k <= MaxPrevious => k \in pem

\* Whatever processes share the directory and wherever they die, metadata that
\* can be read names an active key whose file is there: a process that starts
\* from it can sign (rotate deletes keys before it saves the metadata).
RestartCanSign == meta.kind = "whole" => meta.ids # <<>> /\ meta.ids[1] \in pem

\* The directory as the abstract keys see it.
Abstract == INSTANCE KeyRetention WITH
    kept <- pem,
    active <- IF meta.kind = "whole" THEN meta.ids[1] ELSE 0

\* Whatever processes share the directory and wherever they die, each step on it
\* generates a key, deletes one that is neither recent nor the one a restart would
\* sign with, publishes a key that is there, or empties the metadata: no list a
\* process kept from before another's rotation makes it do more (rotate,
\* _delete_key, _save_metadata).
ImplementsRetention == Abstract!Spec

OneProcess == \A p, q \in deployed : p = q

\* A process alone on its directory can load every key it lists but the oldest of
\* a full list, also when it restarted after it died half-way through a rotation.
OnlyOldestMissing ==
    OneProcess => \A p \in Process : at[p] = "ready" =>
        \A j \in 1 .. Len(ids[p]) : j <= MaxPrevious => ids[p][j] \in pem

\* What get_key_ids says of its result ("all valid key IDs, used to populate
\* JWKS"): get_jwks finds every key that is listed.
JwksServable ==
    OneProcess => \A p \in Process : at[p] = "ready" =>
        \A j \in 1 .. Len(ids[p]) : ids[p][j] \in cache[p] \cup pem

\* A running process loses a key from memory only when it is neither its own active
\* key nor recent, so what other processes delete or publish never takes from it a
\* key that a token in flight may need (_delete_key, _get_key, Load).
ForgetsOnlyOld ==
    \A p \in Process : at[p] # "down" /\ at'[p] # "down" =>
        \A k \in cache[p] \ cache'[p] : k # ids'[p][1] /\ made' - k > MaxPrevious

KeysStayInHand == [][ForgetsOnlyOld]_vars

\* A process alone on its directory holds no retired key in memory, as the comment
\* in _delete_key says of retired keys ("never usable for verification").  Of several
\* processes each still uses the keys the others retired.
RetiredForgotten == OneProcess => \A p \in Process : cache[p] \subseteq pem

=============================================================================
