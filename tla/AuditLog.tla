------------------------------ MODULE AuditLog ------------------------------
(* The audit trail: a JSONL file to which every process appends.              *)
(*                                                                            *)
(* log_verification and log_security_event append plain records;              *)
(* log_compliance_event reads the hash of the file's last line and appends a  *)
(* record that names it.  A record's hash covers its content but not its      *)
(* previous_hash; contents differ, so a hash is modelled by the number of the *)
(* record it belongs to, and the empty hash by 0.  A write that runs out of   *)
(* disk space leaves nothing, the beginning of a record, or a record without  *)
(* its line end, which reads as a line until the next write joins it.  The    *)
(* clock of the timestamps never runs backwards.                              *)
EXTENDS Integers, Sequences, FiniteSets

CONSTANTS Process,      \* processes that share logs/audit_trail.jsonl
          MaxRecords,   \* bound on the records
          MaxTime       \* bound on the clock

ASSUME BoundsAssumption == MaxRecords \in Nat /\ MaxTime \in Nat

VARIABLES deployed,     \* the processes of this deployment
          now,          \* datetime.now(UTC)
          lines,        \* the lines of the file
          open,         \* whether the last line has no line end yet
          pending,      \* pending[p]: the compliance record p is about to append
          made,         \* the number of records made so far
          acked,        \* history: records whose call returned normally
          failed        \* history: the number of writes that were cut short

vars == <<deployed, now, lines, open, pending, made, acked, failed>>

NoHash == 0
Kind == {"plain", "chained", "broken"}
Line == [kind : Kind, id : Nat, prev : Nat, ts : Nat]
NoRecord == [kind |-> "broken", id |-> 0, prev |-> NoHash, ts |-> 0]
Chained(n, h) == [kind |-> "chained", id |-> n, prev |-> h, ts |-> now]
Plain(n) == [kind |-> "plain", id |-> n, prev |-> NoHash, ts |-> now]

\* Among the lines S, in the order of the file, j comes right after k.
Precedes(S, k, j) == k < j /\ \A m \in S : m < j => m <= k
First(S, j) == \A m \in S : j <= m

\* record.get("hash", "")
HashOf(l) == IF l.kind = "chained" THEN l.id ELSE NoHash

----------------------------------------------------------------------------
(* Mutated forms of definitions below, used to check that the properties are  *)
(* sensitive to the code they are about.                                      *)

\* The hash of the last record made is remembered instead of read.
RememberedHash == made

\* The hash of the last compliance record, wherever it is in the file.
LastChainedHash ==
    LET S == {j \in DOMAIN lines : lines[j].kind = "chained"}
    IN  IF S = {} THEN NoHash ELSE lines[CHOOSE j \in S : \A k \in S : k <= j].id

\* The first record of a chain may name any record.
Unanchored(S) ==
    \A j \in S : /\ lines[j].kind = "chained"
                 /\ \A k \in S : Precedes(S, k, j) => lines[j].prev = HashOf(lines[k])

\* The line end is forgotten.
NoLineEnd(l) == /\ lines' = IF open THEN [lines EXCEPT ![Len(lines)] = NoRecord]
                                    ELSE lines \o <<l>>
                /\ open' = TRUE

----------------------------------------------------------------------------

Init == /\ deployed \in {P \in SUBSET Process : P # {}}
        /\ now = 0
        /\ lines = <<>>
        /\ open = FALSE
        /\ pending = [p \in Process |-> NoRecord]
        /\ made = 0
        /\ acked = {}
        /\ failed = 0

Tick == /\ now < MaxTime
        /\ now' = now + 1
        /\ UNCHANGED <<deployed, lines, open, pending, made, acked, failed>>

\* The file after something was written behind a last line without line end: what
\* the line holds is no JSON any more.
Joined == [lines EXCEPT ![Len(lines)] = NoRecord]

\* A record and its line end; both are lost in a line that was left open.
WriteLine(l) == /\ lines' = IF open THEN Joined ELSE lines \o <<l>>
                /\ open' = FALSE

\* A write that is cut short: nothing of the record l arrives, or its beginning, or
\* all but its line end.
WritePart(l) == /\ failed' = failed + 1
                /\ \/ UNCHANGED <<lines, open>>
                   \/ /\ open' = TRUE
                      /\ IF open THEN lines' = Joined
                                 ELSE \E part \in {NoRecord, l} : lines' = lines \o <<part>>

\* A deployed process between two calls, with a record left to make.
Free(p) == p \in deployed /\ pending[p] = NoRecord /\ made < MaxRecords

\* log_verification, log_security_event.
LogPlain(p) == /\ Free(p)
               /\ made' = made + 1
               /\ WriteLine(Plain(made + 1))
               /\ acked' = acked \cup {made + 1}
               /\ UNCHANGED <<deployed, now, pending, failed>>

LogPlainFails(p) == /\ Free(p)
                    /\ made' = made + 1
                    /\ WritePart(Plain(made + 1))
                    /\ UNCHANGED <<deployed, now, pending, acked>>

\* _get_last_hash: "" for a file without lines and for a line that is not JSON or
\* has no hash.
LastHash == IF lines = <<>> THEN NoHash ELSE HashOf(lines[Len(lines)])

\* log_compliance_event, up to the hash of its record.
ReadLastHash(p) == /\ Free(p)
                   /\ made' = made + 1
                   /\ pending' = [pending EXCEPT ![p] = Chained(made + 1, LastHash)]
                   /\ UNCHANGED <<deployed, now, lines, open, acked, failed>>

AppendRecord(p) == /\ pending[p] # NoRecord
                   /\ WriteLine(pending[p])
                   /\ acked' = acked \cup {pending[p].id}
                   /\ pending' = [pending EXCEPT ![p] = NoRecord]
                   /\ UNCHANGED <<deployed, now, made, failed>>

AppendFails(p) == /\ pending[p] # NoRecord
                  /\ WritePart(pending[p])
                  /\ pending' = [pending EXCEPT ![p] = NoRecord]
                  /\ UNCHANGED <<deployed, now, made, acked>>

\* The process dies before it appends.
Crash(p) == /\ pending[p] # NoRecord
            /\ pending' = [pending EXCEPT ![p] = NoRecord]
            /\ UNCHANGED <<deployed, now, lines, open, made, acked, failed>>

Next == \/ Tick
        \/ \E p \in Process : \/ LogPlain(p) \/ LogPlainFails(p)
                              \/ ReadLastHash(p) \/ AppendRecord(p) \/ AppendFails(p)
                              \/ Crash(p)

Spec == Init /\ [][Next]_vars

----------------------------------------------------------------------------
(* What a reader of the file computes                                         *)

\* export_audit_log and get_audit_evidence raise on a line that is not JSON.
Readable == \A j \in DOMAIN lines : lines[j].kind # "broken"

\* The lines of get_audit_evidence(since, until), of a file that is readable.
Evidence(since, until) == {j \in DOMAIN lines : since <= lines[j].ts /\ lines[j].ts <= until}

\* _verify_hash_chain, of the records in the lines S.
VerifyHashChain(S) ==
    \A j \in S : /\ lines[j].kind = "chained"
                 /\ First(S, j) => lines[j].prev = NoHash
                 /\ \A k \in S : Precedes(S, k, j) => lines[j].prev = HashOf(lines[k])

----------------------------------------------------------------------------
(* Properties                                                                 *)

\* Every variable has its type.
TypeOK == /\ deployed \in SUBSET Process
          /\ now \in Nat
          /\ lines \in Seq(Line)
          /\ open \in BOOLEAN
          /\ pending \in [Process -> Line]
          /\ made \in Nat
          /\ acked \in SUBSET (1 .. made)
          /\ failed \in Nat

OneProcess == \A p, q \in deployed : p = q

\* A process alone on the file names in every compliance record the record right
\* before it, and no record after a plain or unreadable line, whatever writes were
\* cut short and wherever it died (log_compliance_event).
LinkedInOrder ==
    OneProcess => \A j \in DOMAIN lines : lines[j].kind = "chained" =>
        lines[j].prev = IF j = 1 THEN NoHash ELSE HashOf(lines[j - 1])

\* The write of the record with hash h failed, and no line has it any more.
Gone(h) == /\ h \in 1 .. made
           /\ h \notin acked
           /\ \A j \in DOMAIN lines : lines[j].id # h
           /\ \A p \in Process : pending[p].id # h

\* However many processes append and whatever writes were cut short, a compliance
\* record names an earlier record of the file: never itself, a later one, or one
\* that was acknowledged and is not there.  It may name a record that is gone, for
\* the hash of a record without line end can be read until the next write spoils
\* that line, and then the caller of that record was told (log_compliance_event,
\* _get_last_hash).
NamesEarlierRecord ==
    \A j \in DOMAIN lines : lines[j].prev # NoHash =>
        \/ \E k \in 1 .. j - 1 : HashOf(lines[k]) = lines[j].prev
        \/ Gone(lines[j].prev)

\* However many processes append, each write that was cut short costs at most one
\* record whose caller was told nothing of it.
LossBounded ==
    Cardinality(acked \ {lines[j].id : j \in DOMAIN lines}) <= failed

\* A process alone on the file: chain_valid of an evidence package says whether it
\* holds compliance records only and begins where a chain begins
\* (get_audit_evidence, _verify_hash_chain).
EvidenceMeaning ==
    OneProcess /\ Readable =>
        \A since, until \in 0 .. MaxTime :
            LET S == Evidence(since, until)
            IN  VerifyHashChain(S) <=> /\ \A j \in S : lines[j].kind = "chained"
                                       /\ \A j \in S : First(S, j) => lines[j].prev = NoHash

\* The chain that verification accepts ends with at most one selection of the
\* records: however many processes appended, two selections that both verify and
\* have the same last record are the same, so a record left out at the beginning or
\* in between shows, and only one left out at the end does not ("tamper-evident";
\* log_compliance_event, _verify_hash_chain).
OmissionShows ==
    LET chains == {S \in SUBSET {j \in DOMAIN lines : lines[j].kind = "chained"} :
                       VerifyHashChain(S)}
    IN  \A S, T \in chains : (\E j \in S \cap T : \A k \in S \cup T : k <= j) => S = T

\* What the README says of the audit log ("JSONL events chained with SHA-256
\* hashes"): a log that nobody tampered with is exported with chain_valid true.
ExportVerifies == OneProcess /\ Readable => VerifyHashChain(DOMAIN lines)

=============================================================================
