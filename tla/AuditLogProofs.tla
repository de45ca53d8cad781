--------------------------- MODULE AuditLogProofs ---------------------------
(* Proofs about AuditLog and ComplianceExport, for any number of processes    *)
(* and records.                                                               *)
EXTENDS ComplianceExport, FiniteSetTheorems, WellFoundedInduction, TLAPS

----------------------------------------------------------------------------
(* The inductive invariant                                                    *)

\* A record has a number of its own, and is in the file once or pending with one
\* process; a pending one is not acknowledged.
RecordsOnce ==
    /\ \A j \in DOMAIN lines : /\ lines[j].id \in 0 .. made
                               /\ lines[j].kind # "broken" => lines[j].id # 0
    /\ \A j, k \in DOMAIN lines : lines[j].id = lines[k].id /\ lines[j].id # 0 => j = k
    /\ \A p \in Process : pending[p] # NoRecord =>
           /\ pending[p].id \in 1 .. made
           /\ pending[p].id \notin acked
           /\ \A j \in DOMAIN lines : lines[j].id # pending[p].id
    /\ \A p, q \in Process :
           pending[p] # NoRecord /\ pending[q] # NoRecord /\ pending[p].id = pending[q].id
               => p = q

\* A line without line end holds no acknowledged record.
OpenUnacked == open => Len(lines) \in DOMAIN lines /\ lines[Len(lines)].id \notin acked

\* The hash h is that of one of the first n lines, or of a record that is gone.
Named(h, n) == h # NoHash => (\E k \in 1 .. n : HashOf(lines[k]) = h) \/ Gone(h)

\* A pending record is a compliance record of a deployed process, and the hash it
\* names is in the file or gone.
PendingNamesLine ==
    \A p \in Process : pending[p] # NoRecord =>
        /\ p \in deployed
        /\ pending[p].kind = "chained"
        /\ Named(pending[p].prev, Len(lines))

\* A process alone on the file: the hash it has read is still the last one.
PendingStillLast ==
    OneProcess => \A p \in Process : pending[p] # NoRecord => pending[p].prev = LastHash

\* The records whose caller was told nothing and that no line holds.
Lost == acked \ {lines[j].id : j \in DOMAIN lines}

\* A line left open is paid for by a write that was cut short and has not cost a
\* record yet.
LossPaidFor == Cardinality(Lost) + (IF open THEN 1 ELSE 0) <= failed

IInv == /\ TypeOK
        /\ RecordsOnce
        /\ OpenUnacked
        /\ PendingNamesLine
        /\ PendingStillLast
        /\ LinkedInOrder
        /\ NamesEarlierRecord
        /\ LossPaidFor

----------------------------------------------------------------------------
(* Lines                                                                      *)

\* The file with one more line.
LEMMA LongerFile ==
    ASSUME NEW s \in Seq(Line), NEW l \in Line
    PROVE  /\ s \o <<l>> \in Seq(Line)
           /\ Len(s) \in Nat
           /\ DOMAIN s = 1 .. Len(s)
           /\ Len(s \o <<l>>) = Len(s) + 1
           /\ DOMAIN (s \o <<l>>) = 1 .. Len(s) + 1
           /\ \A j \in 1 .. Len(s) : (s \o <<l>>)[j] = s[j]
           /\ (s \o <<l>>)[Len(s) + 1] = l
<1>1. <<l>> \in Seq(Line) /\ Len(<<l>>) = 1 /\ <<l>>[1] = l
  OBVIOUS
<1> QED
  BY <1>1

LEMMA RecordTypes ==
    ASSUME now \in Nat
    PROVE  /\ NoRecord \in Line
           /\ \A n, h \in Nat : Chained(n, h) \in Line
           /\ \A n \in Nat : Plain(n) \in Line
  BY DEF NoRecord, Chained, Plain, Line, Kind, NoHash

LEMMA LastHashType == ASSUME TypeOK PROVE LastHash \in Nat
<1>1. CASE lines = <<>>
  BY <1>1 DEF LastHash, NoHash
<1>2. CASE lines # <<>>
  <2>1. lines \in Seq(Line) /\ Len(lines) \in 1 .. Len(lines)
    BY <1>2 DEF TypeOK
  <2>2. lines[Len(lines)] \in Line
    BY <2>1
  <2> QED
    BY <1>2, <2>2 DEF LastHash, HashOf, Line, NoHash
<1> QED
  BY <1>1, <1>2

\* What writing l, or a part of it, may do to the file.
FileStep(l) == \/ lines' = lines
               \/ open /\ lines' = Joined
               \/ ~open /\ lines' = lines \o <<l>>
               \/ ~open /\ lines' = lines \o <<NoRecord>>

\* Lines stay, but for an open one that is spoilt; a new one holds l or nothing.
LEMMA FileShape ==
    ASSUME TypeOK, OpenUnacked, NEW l \in Line, FileStep(l)
    PROVE  /\ lines' \in Seq(Line)
           /\ Len(lines) \in Nat /\ DOMAIN lines = 1 .. Len(lines)
           /\ DOMAIN lines \subseteq DOMAIN lines'
           /\ DOMAIN lines' = 1 .. Len(lines') /\ Len(lines') \in Nat /\ Len(lines) <= Len(lines')
           /\ \A j \in DOMAIN lines : \/ lines'[j] = lines[j]
                                      \/ open /\ j = Len(lines) /\ lines'[j] = NoRecord
           /\ \A j \in DOMAIN lines' : \/ j \in DOMAIN lines /\ lines'[j] = lines[j]
                                       \/ lines'[j] = NoRecord
                                       \/ ~open /\ j = Len(lines) + 1 /\ lines'[j] = l
<1>1. lines \in Seq(Line) /\ NoRecord \in Line
  BY RecordTypes DEF TypeOK
<1>2. Len(lines) \in Nat /\ DOMAIN lines = 1 .. Len(lines)
  BY <1>1
<1>3. CASE lines' = lines
  BY <1>1, <1>2, <1>3
<1>4. CASE open /\ lines' = Joined
  <2>1. Len(lines) \in DOMAIN lines
    BY <1>4 DEF OpenUnacked
  <2>2. lines' = [lines EXCEPT ![Len(lines)] = NoRecord]
    BY <1>4 DEF Joined
  <2>3. lines' \in Seq(Line) /\ Len(lines') = Len(lines) /\ DOMAIN lines' = DOMAIN lines
    BY <1>1, <2>1, <2>2
  <2>4. \A j \in DOMAIN lines : lines'[j] = IF j = Len(lines) THEN NoRecord ELSE lines[j]
    BY <1>1, <2>1, <2>2
  <2> QED
    BY <1>2, <1>4, <2>3, <2>4
<1>5. ASSUME NEW m \in {l, NoRecord}, ~open, lines' = lines \o <<m>>
      PROVE  /\ lines' \in Seq(Line)
             /\ DOMAIN lines' = 1 .. Len(lines) + 1 /\ Len(lines') = Len(lines) + 1
             /\ \A j \in DOMAIN lines : lines'[j] = lines[j]
             /\ lines'[Len(lines) + 1] = m
  BY <1>1, <1>2, <1>5, LongerFile
<1>6. CASE ~open /\ (lines' = lines \o <<l>> \/ lines' = lines \o <<NoRecord>>)
  BY <1>2, <1>5, <1>6
<1> QED
  BY <1>3, <1>4, <1>6 DEF FileStep

----------------------------------------------------------------------------
(* The records a process writes                                               *)

\* The record l that process p writes: the one it has pending, or a plain one made
\* for the purpose.
Own(p, l) == \/ pending[p] # NoRecord /\ l = pending[p] /\ made' = made
             \/ /\ pending[p] = NoRecord
                /\ l.kind = "plain" /\ l.id = made + 1 /\ l.prev = NoHash
                /\ made' = made + 1

\* Nobody else has it, and nobody has seen it.
LEMMA OwnRecord ==
    ASSUME IInv, NEW p \in Process, NEW l \in Line, Own(p, l)
    PROVE  /\ made \in Nat /\ made' \in Nat /\ made <= made'
           /\ l.id \in 1 .. made' /\ l.id # 0 /\ l.id \notin acked /\ l.kind # "broken"
           /\ \A j \in DOMAIN lines : lines[j].id # l.id
           /\ \A q \in Process \ {p} : pending[q] # NoRecord => pending[q].id # l.id
           /\ \A h : Gone(h) => h # l.id
           /\ Named(l.prev, Len(lines))
           /\ OneProcess /\ l.kind = "chained" => l.prev = LastHash
<1>1. made \in Nat /\ acked \subseteq 1 .. made
  BY DEF IInv, TypeOK
<1>2. CASE pending[p] # NoRecord /\ l = pending[p] /\ made' = made
  <2>1. /\ l.id \in 1 .. made /\ l.id \notin acked /\ l.kind = "chained"
        /\ \A j \in DOMAIN lines : lines[j].id # l.id
        /\ \A q \in Process \ {p} : pending[q] # NoRecord => pending[q].id # l.id
        /\ Named(l.prev, Len(lines))
        /\ OneProcess => l.prev = LastHash
    BY <1>2 DEF IInv, RecordsOnce, PendingNamesLine, PendingStillLast
  <2>2. \A h : Gone(h) => h # l.id
    BY <1>2 DEF Gone
  <2> QED
    BY <1>1, <1>2, <2>1, <2>2
<1>3. CASE /\ pending[p] = NoRecord
           /\ l.kind = "plain" /\ l.id = made + 1 /\ l.prev = NoHash
           /\ made' = made + 1
  <2>1. \A n \in 0 .. made : n # l.id
    BY <1>1, <1>3
  <2>2. \A j \in DOMAIN lines : lines[j].id # l.id
    BY <2>1 DEF IInv, RecordsOnce
  <2>3. \A q \in Process : pending[q] # NoRecord => pending[q].id # l.id
    BY <1>1, <1>3 DEF IInv, RecordsOnce
  <2>4. \A h : Gone(h) => h # l.id
    BY <1>1, <1>3 DEF Gone
  <2> QED
    BY <1>1, <1>3, <2>2, <2>3, <2>4 DEF Named
<1> QED
  BY <1>2, <1>3 DEF Own

\* What a hash names is still there, or gone, after a write.
LEMMA NamedKept ==
    ASSUME IInv, NEW p \in Process, NEW l \in Line, Own(p, l), FileStep(l),
           acked' \subseteq acked \cup {l.id},
           \A q \in Process : pending'[q] = pending[q] \/ pending'[q] = NoRecord,
           NEW h, NEW n \in 0 .. Len(lines), Named(h, n)
    PROVE  Named(h, n)'
<1> USE DEF NoHash
<1>1. /\ TypeOK /\ RecordsOnce /\ OpenUnacked
      /\ made \in Nat /\ made' \in Nat /\ made <= made'
      /\ \A j \in DOMAIN lines : lines[j].id # l.id
  BY OwnRecord DEF IInv
<1>2. /\ Len(lines) \in Nat /\ DOMAIN lines = 1 .. Len(lines)
      /\ \A j \in DOMAIN lines : \/ lines'[j] = lines[j]
                                 \/ open /\ j = Len(lines) /\ lines'[j] = NoRecord
      /\ \A j \in DOMAIN lines' : \/ j \in DOMAIN lines /\ lines'[j] = lines[j]
                                  \/ lines'[j] = NoRecord
                                  \/ ~open /\ j = Len(lines) + 1 /\ lines'[j] = l
  BY <1>1, FileShape
<1>3. NoRecord.id = 0
  BY DEF NoRecord
<1> SUFFICES ASSUME h # NoHash
             PROVE  (\E k \in 1 .. n : HashOf(lines'[k]) = h) \/ Gone(h)'
  BY DEF Named, HashOf
<1>4. CASE Gone(h)
  <2>1. h # l.id
    BY <1>4, OwnRecord
  <2>2. h \in 1 .. made' /\ h # 0 /\ h \notin acked'
    BY <1>1, <1>4, <2>1 DEF Gone
  <2>3. \A j \in DOMAIN lines' : lines'[j].id # h
    BY <1>2, <1>3, <1>4, <2>1, <2>2 DEF Gone
  <2>4. \A q \in Process : pending'[q].id # h
    BY <1>3, <1>4, <2>2 DEF Gone
  <2> QED
    BY <2>2, <2>3, <2>4 DEF Gone
<1>5. ASSUME NEW k \in 1 .. n, HashOf(lines[k]) = h, lines'[k] # lines[k]
      PROVE  Gone(h)'
  <2>1. k \in DOMAIN lines /\ lines[k].id = h
    BY <1>2, <1>5 DEF HashOf
  <2>2. open /\ k = Len(lines) /\ lines'[k] = NoRecord
    BY <1>2, <1>5, <2>1
  <2>3. h \in 1 .. made' /\ h \notin acked'
    <3>1. h \in 0 .. made /\ h # l.id /\ h \notin acked
      BY <1>1, <2>1, <2>2 DEF RecordsOnce, OpenUnacked
    <3> QED
      BY <1>1, <3>1
  <2>4. \A j \in DOMAIN lines' : lines'[j].id # h
    <3>1. \A j \in DOMAIN lines : lines[j].id = h => j = k
      BY <1>1, <2>1 DEF RecordsOnce
    <3> QED
      BY <1>2, <1>3, <2>2, <2>3, <3>1
  <2>5. \A q \in Process : pending'[q].id # h
    <3>1. \A q \in Process : pending[q] # NoRecord => pending[q].id # h
      BY <1>1, <2>1 DEF RecordsOnce
    <3> QED
      BY <1>3, <2>3, <3>1
  <2> QED
    BY <2>3, <2>4, <2>5 DEF Gone
<1> QED
  BY <1>4, <1>5 DEF Named

----------------------------------------------------------------------------
(* The invariant is inductive                                                 *)

LEMMA InitInv == Init => IInv
<1> SUFFICES ASSUME Init
             PROVE  IInv
  OBVIOUS
<1>1. TypeOK
  <2>1. NoRecord \in Line
    BY DEF NoRecord, Line, Kind, NoHash
  <2>2. lines \in Seq(Line) /\ pending \in [Process -> Line]
    BY <2>1 DEF Init
  <2>3. open \in BOOLEAN
    BY DEF Init
  <2>4. deployed \in SUBSET Process /\ now \in Nat /\ made \in Nat /\ failed \in Nat
    BY DEF Init
  <2>5. acked \in SUBSET (1 .. made)
    BY DEF Init
  <2> QED
    BY <2>2, <2>3, <2>4, <2>5 DEF TypeOK
<1>2. PendingNamesLine /\ PendingStillLast
  BY DEF Init, PendingNamesLine, PendingStillLast
<1>3. DOMAIN lines = {}
  BY DEF Init
<1>4. LinkedInOrder /\ NamesEarlierRecord
  BY <1>3 DEF LinkedInOrder, NamesEarlierRecord
<1>5. RecordsOnce /\ OpenUnacked
  BY <1>3 DEF Init, RecordsOnce, OpenUnacked
<1>6. LossPaidFor
  <2>1. Lost = {}
    BY DEF Init, Lost
  <2> QED
    BY <2>1, FS_EmptySet DEF Init, LossPaidFor
<1> QED
  BY <1>1, <1>2, <1>4, <1>5, <1>6 DEF IInv

\* A step that leaves the file alone.
LEMMA QuietStep ==
    ASSUME IInv, TypeOK', UNCHANGED <<deployed, lines, open, acked, failed>>,
           \/ made' = made /\ \A p \in Process : pending'[p] = pending[p] \/ pending'[p] = NoRecord
           \/ /\ made' = made + 1
              /\ \E p \in deployed :
                     /\ pending'[p].kind = "chained"
                     /\ pending'[p].id = made + 1
                     /\ pending'[p].prev = LastHash
                     /\ \A q \in Process \ {p} : pending'[q] = pending[q]
    PROVE  IInv'
<1>a. /\ TypeOK /\ RecordsOnce /\ made \in Nat /\ made' \in Nat /\ made <= made'
      /\ acked \subseteq 1 .. made
  BY DEF IInv, TypeOK
<1>b. NoRecord.id = 0 /\ NoRecord.kind = "broken"
  BY DEF NoRecord
<1>c. \A p \in Process : \/ pending'[p] = pending[p] \/ pending'[p] = NoRecord
                         \/ /\ p \in deployed /\ pending'[p].kind = "chained"
                            /\ pending'[p].id = made + 1 /\ made' = made + 1
                            /\ pending'[p].prev = LastHash
  OBVIOUS
<1>1. LinkedInOrder' /\ LossPaidFor' /\ OpenUnacked'
  BY DEF IInv, LinkedInOrder, LossPaidFor, Lost, OneProcess, OpenUnacked
<1>2. LastHash' = LastHash
  BY DEF LastHash
<1>3. PendingStillLast'
  BY <1>2, <1>c DEF IInv, PendingStillLast, OneProcess
<1>4. ASSUME NEW h, Gone(h)
      PROVE  Gone(h)'
  <2>1. h \in 1 .. made' /\ h # made + 1 /\ h # 0
    BY <1>a, <1>4 DEF Gone
  <2> QED
    BY <1>4, <1>b, <1>c, <2>1 DEF Gone
<1>5. ASSUME NEW h, NEW n, Named(h, n)
      PROVE  Named(h, n)'
  BY <1>4, <1>5 DEF Named
<1>6. NamesEarlierRecord'
  BY <1>4 DEF IInv, NamesEarlierRecord
<1>7. Named(LastHash, Len(lines))
  <2>1. LastHash # NoHash => Len(lines) \in 1 .. Len(lines) /\ HashOf(lines[Len(lines)]) = LastHash
    BY <1>a DEF LastHash, TypeOK
  <2> QED
    BY <2>1 DEF Named
<1>8. PendingNamesLine'
  BY <1>c, <1>5, <1>7 DEF IInv, PendingNamesLine
<1>9. RecordsOnce'
  <2>1. \A j \in DOMAIN lines : /\ lines[j].id \in 0 .. made'
                                /\ lines[j].kind # "broken" => lines[j].id # 0
    BY <1>a DEF RecordsOnce
  <2>2. \A p \in Process : pending'[p] # NoRecord =>
            /\ pending'[p].id \in 1 .. made'
            /\ pending'[p].id \notin acked
            /\ \A j \in DOMAIN lines : lines[j].id # pending'[p].id
    <3>1. made + 1 \notin acked /\ \A j \in DOMAIN lines : lines[j].id # made + 1
      BY <1>a DEF RecordsOnce
    <3> QED
      BY <1>a, <1>c, <3>1 DEF RecordsOnce
  <2>3. \A p, q \in Process :
           pending'[p] # NoRecord /\ pending'[q] # NoRecord /\ pending'[p].id = pending'[q].id
               => p = q
    <3>1. \A p \in Process : pending[p] # NoRecord => pending[p].id # made + 1
      BY <1>a DEF RecordsOnce
    <3> QED
      BY <1>a, <3>1 DEF RecordsOnce
  <2>4. \A j, k \in DOMAIN lines : lines[j].id = lines[k].id /\ lines[j].id # 0 => j = k
    BY <1>a DEF RecordsOnce
  <2> QED
    BY <2>1, <2>2, <2>3, <2>4 DEF RecordsOnce
<1> QED
  BY <1>1, <1>3, <1>6, <1>8, <1>9 DEF IInv

\* A step in which p writes its record l or a part of it.
LEMMA WriteStep ==
    ASSUME IInv, NEW p \in Process, p \in deployed, NEW l \in Line, Own(p, l), FileStep(l),
           UNCHANGED <<deployed, now>>,
           pending' = [pending EXCEPT ![p] = NoRecord],
           acked' \subseteq acked \cup {l.id},
           open' \in BOOLEAN, OpenUnacked', failed' \in Nat, LossPaidFor'
    PROVE  IInv'
<1>a. /\ TypeOK /\ RecordsOnce /\ OpenUnacked /\ NoRecord \in Line
      /\ NoRecord.id = 0 /\ NoRecord.kind = "broken" /\ NoRecord.prev = NoHash
  BY RecordTypes DEF IInv, TypeOK, NoRecord
<1>b. /\ made \in Nat /\ made' \in Nat /\ made <= made'
      /\ l.id \in 1 .. made' /\ l.id # 0 /\ l.id \notin acked /\ l.kind # "broken"
      /\ \A j \in DOMAIN lines : lines[j].id # l.id
      /\ \A q \in Process \ {p} : pending[q] # NoRecord => pending[q].id # l.id
      /\ Named(l.prev, Len(lines))
      /\ OneProcess /\ l.kind = "chained" => l.prev = LastHash
  BY OwnRecord
<1>c. /\ lines' \in Seq(Line)
      /\ Len(lines) \in Nat /\ DOMAIN lines = 1 .. Len(lines)
      /\ DOMAIN lines' = 1 .. Len(lines') /\ Len(lines') \in Nat /\ Len(lines) <= Len(lines')
      /\ \A j \in DOMAIN lines : \/ lines'[j] = lines[j]
                                 \/ open /\ j = Len(lines) /\ lines'[j] = NoRecord
      /\ \A j \in DOMAIN lines' : \/ j \in DOMAIN lines /\ lines'[j] = lines[j]
                                  \/ lines'[j] = NoRecord
                                  \/ ~open /\ j = Len(lines) + 1 /\ lines'[j] = l
  BY <1>a, FileShape
<1>d. /\ pending'[p] = NoRecord /\ \A q \in Process \ {p} : pending'[q] = pending[q]
      /\ pending' \in [Process -> Line]
  BY <1>a DEF TypeOK
<1>e. ASSUME NEW h, NEW n \in 0 .. Len(lines), Named(h, n)
      PROVE  h # NoHash => (\E k \in 1 .. n : HashOf(lines'[k]) = h) \/ Gone(h)'
  <2>1. Named(h, n)'
    BY <1>d, <1>e, NamedKept
  <2> QED
    BY <2>1 DEF Named, HashOf
<1>1. TypeOK'
  <2>1. acked' \in SUBSET (1 .. made')
    BY <1>a, <1>b DEF TypeOK
  <2> QED
    BY <1>a, <1>b, <1>c, <1>d, <2>1 DEF TypeOK
<1>2. RecordsOnce'
  <2>1. \A j \in DOMAIN lines' : /\ lines'[j].id \in 0 .. made'
                                 /\ lines'[j].kind # "broken" => lines'[j].id # 0
    BY <1>a, <1>b, <1>c DEF RecordsOnce
  <2>2. \A j, k \in DOMAIN lines' : lines'[j].id = lines'[k].id /\ lines'[j].id # 0 => j = k
    BY <1>a, <1>b, <1>c DEF RecordsOnce
  <2>3. ASSUME NEW q \in Process, pending'[q] # NoRecord
        PROVE  /\ pending'[q].id \in 1 .. made'
               /\ pending'[q].id \notin acked'
               /\ \A j \in DOMAIN lines' : lines'[j].id # pending'[q].id
    <3>1. q # p /\ pending'[q] = pending[q]
      BY <1>d, <2>3
    <3>2. /\ pending[q].id \in 1 .. made /\ pending[q].id \notin acked /\ pending[q].id # l.id
          /\ \A j \in DOMAIN lines : lines[j].id # pending[q].id
      BY <1>a, <1>b, <2>3, <3>1 DEF RecordsOnce
    <3>3. pending[q].id \in 1 .. made' /\ pending[q].id # 0
      BY <1>b, <3>2
    <3> QED
      BY <1>a, <1>c, <3>1, <3>2, <3>3
  <2>4. \A q, r \in Process :
           pending'[q] # NoRecord /\ pending'[r] # NoRecord /\ pending'[q].id = pending'[r].id
               => q = r
    BY <1>a, <1>d DEF RecordsOnce
  <2> QED
    BY <2>1, <2>2, <2>3, <2>4 DEF RecordsOnce
<1>3. PendingNamesLine'
  <2> SUFFICES ASSUME NEW q \in Process, pending'[q] # NoRecord
               PROVE  /\ q \in deployed
                      /\ pending'[q].kind = "chained"
                      /\ Named(pending[q].prev, Len(lines))'
    BY DEF PendingNamesLine
  <2>0. PICK h : h = pending'[q].prev
    OBVIOUS
  <2>1. pending'[q] = pending[q] /\ pending[q] # NoRecord
    BY <1>d
  <2>2. PICK n \in 0 .. Len(lines) : n = Len(lines)
    <3>1. Len(lines) \in 0 .. Len(lines)
      BY <1>c
    <3> QED
      BY <3>1, Zenon
  <2>3. q \in deployed /\ pending[q].kind = "chained" /\ Named(h, n)
    BY <2>0, <2>1, <2>2 DEF IInv, PendingNamesLine
  <2>4. 1 .. n \subseteq 1 .. Len(lines')
    BY <1>c, <2>2
  <2>5. h # NoHash => (\E k \in 1 .. Len(lines') : HashOf(lines'[k]) = h) \/ Gone(h)'
    BY <1>e, <2>3, <2>4
  <2>6. Named(h, Len(lines))'
    BY <2>5 DEF Named, HashOf
  <2>7. Named(pending[q].prev, Len(lines))'
    BY <2>0, <2>6 DEF Named, Gone
  <2> QED
    BY <2>1, <2>3, <2>7
<1>4. PendingStillLast'
  <2> SUFFICES ASSUME OneProcess, NEW q \in Process, pending'[q] # NoRecord
               PROVE  FALSE
    BY DEF PendingStillLast, OneProcess
  <2>1. q # p /\ q \in deployed
    BY <1>d DEF IInv, PendingNamesLine
  <2> QED
    BY <2>1 DEF OneProcess
<1>5. LinkedInOrder'
  <2> SUFFICES ASSUME OneProcess, NEW j \in DOMAIN lines', lines'[j].kind = "chained"
               PROVE  lines'[j].prev = IF j = 1 THEN NoHash ELSE HashOf(lines'[j - 1])
    BY DEF LinkedInOrder, OneProcess, HashOf
  <2>1. CASE j \in DOMAIN lines /\ lines'[j] = lines[j]
    <3>1. j # 1 => j - 1 \in DOMAIN lines /\ j - 1 # Len(lines)
      BY <1>c, <2>1
    <3>2. j # 1 => lines'[j - 1] = lines[j - 1]
      BY <1>c, <3>1
    <3> QED
      BY <2>1, <3>2 DEF IInv, LinkedInOrder
  <2>2. CASE ~open /\ j = Len(lines) + 1 /\ lines'[j] = l
    <3>1. l.prev = LastHash
      BY <1>b, <2>2
    <3>2. CASE lines = <<>>
      BY <2>2, <3>1, <3>2 DEF LastHash
    <3>3. CASE lines # <<>>
      <4>1. j - 1 = Len(lines) /\ j # 1 /\ Len(lines) \in DOMAIN lines
        BY <1>a, <1>c, <2>2, <3>3 DEF TypeOK
      <4>2. lines'[j - 1] = lines[Len(lines)]
        BY <1>c, <2>2, <4>1
      <4> QED
        BY <2>2, <3>1, <3>3, <4>1, <4>2 DEF LastHash
    <3> QED
      BY <3>2, <3>3
  <2> QED
    BY <1>a, <1>c, <2>1, <2>2
<1>6. NamesEarlierRecord'
  <2> SUFFICES ASSUME NEW j \in DOMAIN lines', NEW h, h = lines'[j].prev, h # NoHash
               PROVE  (\E k \in 1 .. j - 1 : HashOf(lines'[k]) = h) \/ Gone(h)'
    BY DEF NamesEarlierRecord, HashOf, Gone
  <2>1. /\ j \in Nat /\ j - 1 \in 0 .. Len(lines)
        /\ Named(h, j - 1)
    <3>1. CASE j \in DOMAIN lines /\ lines'[j] = lines[j]
      BY <1>c, <3>1 DEF IInv, NamesEarlierRecord, Named
    <3>2. CASE j = Len(lines) + 1 /\ lines'[j] = l
      BY <1>b, <1>c, <3>2
    <3> QED
      BY <1>a, <1>c, <3>1, <3>2
  <2> QED
    BY <1>e, <2>1
<1> QED
  BY <1>1, <1>2, <1>3, <1>4, <1>5, <1>6 DEF IInv

\* Lost records are among finitely many.
LEMMA LostFinite == ASSUME TypeOK PROVE IsFiniteSet(Lost) /\ Cardinality(Lost) \in Nat
<1>1. IsFiniteSet(1 .. made)
  BY FS_Interval DEF TypeOK
<1>2. Lost \subseteq 1 .. made
  BY DEF TypeOK, Lost
<1> QED
  BY <1>1, <1>2, FS_Subset, FS_CardinalityType

\* No acknowledged record leaves the file.
LEMMA NothingAckedLeaves ==
    ASSUME TypeOK, OpenUnacked, NEW l \in Line, FileStep(l),
           NEW x \in acked, x \in {lines[j].id : j \in DOMAIN lines}
    PROVE  x \in {lines'[j].id : j \in DOMAIN lines'}
<1>1. PICK j \in DOMAIN lines : x = lines[j].id
  OBVIOUS
<1>2. lines'[j] = lines[j] /\ j \in DOMAIN lines'
  BY <1>1, FileShape DEF OpenUnacked
<1> QED
  BY <1>1, <1>2

\* A whole line: it is in the file, or it completes an open line and is lost.
LEMMA WholeLine ==
    ASSUME IInv, NEW l \in Line, WriteLine(l),
           acked' = acked \cup {l.id}, failed' = failed
    PROVE  FileStep(l) /\ open' = FALSE /\ LossPaidFor'
<1>1. /\ IsFiniteSet(Lost) /\ Cardinality(Lost) \in Nat /\ failed \in Nat
      /\ TypeOK /\ OpenUnacked /\ lines \in Seq(Line)
  BY LostFinite DEF IInv, TypeOK
<1>2. FileStep(l) /\ open' = FALSE
  BY DEF WriteLine, FileStep
<1>3. Lost' \subseteq Lost \cup {l.id}
  BY <1>1, <1>2, NothingAckedLeaves DEF Lost
<1>4. CASE open
  <2>1. /\ IsFiniteSet(Lost \cup {l.id})
        /\ Cardinality(Lost \cup {l.id}) <= Cardinality(Lost) + 1
        /\ Cardinality(Lost \cup {l.id}) \in Nat
    <3> DEFINE L == Lost
               M == Lost \cup {l.id}
    <3>1. /\ IsFiniteSet(M)
          /\ Cardinality(M) = IF l.id \in L THEN Cardinality(L) ELSE Cardinality(L) + 1
      BY <1>1, FS_AddElement
    <3>2. Cardinality(L) \in Nat
      BY <1>1
    <3> HIDE DEF L, M
    <3>3. IsFiniteSet(M) /\ Cardinality(M) <= Cardinality(L) + 1 /\ Cardinality(M) \in Nat
      BY <3>1, <3>2
    <3> QED
      BY <3>3 DEF L, M
  <2>2. Cardinality(Lost') <= Cardinality(Lost \cup {l.id}) /\ Cardinality(Lost') \in Nat
    BY <1>3, <2>1, FS_Subset, FS_CardinalityType
  <2>3. Cardinality(Lost) + 1 <= failed
    BY <1>4 DEF IInv, LossPaidFor
  <2> QED
    BY <1>1, <1>2, <2>1, <2>2, <2>3 DEF LossPaidFor
<1>5. CASE ~open
  <2>1. lines' = lines \o <<l>>
    BY <1>5 DEF WriteLine
  <2>2. l.id \in {lines'[j].id : j \in DOMAIN lines'}
    BY <1>1, <2>1, LongerFile
  <2>3. Lost' \subseteq Lost
    BY <1>3, <2>2 DEF Lost
  <2>4. Cardinality(Lost') <= Cardinality(Lost) /\ Cardinality(Lost') \in Nat
    BY <1>1, <2>3, FS_Subset, FS_CardinalityType
  <2>5. Cardinality(Lost) <= failed
    BY <1>1, <1>5 DEF IInv, LossPaidFor
  <2> QED
    BY <1>1, <1>2, <2>4, <2>5 DEF LossPaidFor
<1> QED
  BY <1>2, <1>4, <1>5

\* A write that is cut short: it pays for the line it leaves open.
LEMMA PartLine ==
    ASSUME IInv, NEW l \in Line, WritePart(l), acked' = acked, l.id \notin acked
    PROVE  FileStep(l) /\ OpenUnacked' /\ open' \in BOOLEAN /\ failed' \in Nat /\ LossPaidFor'
<1>1. /\ IsFiniteSet(Lost) /\ Cardinality(Lost) \in Nat /\ failed \in Nat
      /\ TypeOK /\ OpenUnacked /\ lines \in Seq(Line) /\ NoRecord \in Line
      /\ acked \subseteq 1 .. made /\ made \in Nat /\ open \in BOOLEAN
  BY LostFinite, RecordTypes DEF IInv, TypeOK
<1>2. FileStep(l) /\ failed' = failed + 1
  BY DEF WritePart, FileStep
<1>3. OpenUnacked' /\ open' \in BOOLEAN
  <2>1. CASE UNCHANGED <<lines, open>>
    BY <1>1, <2>1 DEF OpenUnacked
  <2>2. NoRecord.id \notin acked
    BY <1>1 DEF NoRecord
  <2>3. CASE open /\ open' /\ lines' = Joined
    <3>1. Len(lines) \in DOMAIN lines
      BY <1>1, <2>3 DEF OpenUnacked
    <3>2. /\ Len(lines') = Len(lines) /\ DOMAIN lines' = DOMAIN lines
          /\ lines'[Len(lines)] = NoRecord
      BY <1>1, <2>3, <3>1 DEF Joined
    <3> QED
      BY <2>2, <2>3, <3>1, <3>2 DEF OpenUnacked, WritePart
  <2>4. ASSUME NEW m \in {NoRecord, l}, open', lines' = lines \o <<m>>
        PROVE  OpenUnacked'
    <3>1. /\ Len(lines') = Len(lines) + 1 /\ Len(lines) + 1 \in DOMAIN lines'
          /\ lines'[Len(lines) + 1] = m
      BY <1>1, <2>4, LongerFile
    <3>2. m.id \notin acked
      BY <2>2
    <3> QED
      BY <2>4, <3>1, <3>2 DEF OpenUnacked
  <2> QED
    BY <2>1, <2>3, <2>4 DEF WritePart
<1>4. Lost' \subseteq Lost
  BY <1>1, <1>2, NothingAckedLeaves DEF Lost
<1>5. Cardinality(Lost') <= Cardinality(Lost) /\ Cardinality(Lost') \in Nat
  BY <1>1, <1>4, FS_Subset, FS_CardinalityType
<1>6. CASE UNCHANGED <<lines, open>>
  <2>1. Lost' = Lost
    BY <1>6 DEF Lost
  <2> QED
    BY <1>1, <1>2, <1>3, <1>6, <2>1 DEF IInv, LossPaidFor
<1>7. CASE open' = TRUE
  <2>1. Cardinality(Lost) <= failed
    BY <1>1 DEF IInv, LossPaidFor
  <2> QED
    BY <1>1, <1>2, <1>3, <1>5, <1>7, <2>1 DEF LossPaidFor
<1> QED
  BY <1>6, <1>7 DEF WritePart

LEMMA NextInv == IInv /\ [Next]_vars => IInv'
<1> SUFFICES ASSUME IInv, [Next]_vars
             PROVE  IInv'
  OBVIOUS
<1>a. TypeOK /\ made \in Nat /\ now \in Nat /\ failed \in Nat /\ NoRecord \in Line
  BY RecordTypes DEF IInv, TypeOK
<1>1. CASE Tick
  <2>1. TypeOK'
    BY <1>1, <1>a DEF Tick, TypeOK
  <2> QED
    BY <1>1, <1>a, <2>1, QuietStep DEF Tick
<1>2. ASSUME NEW p \in Process, LogPlain(p) \/ LogPlainFails(p)
      PROVE  IInv'
  <2>1. PICK l \in Line : l = Plain(made + 1)
    BY <1>a, RecordTypes
  <2>2. /\ l.kind = "plain" /\ l.prev = NoHash /\ l.id = made + 1
        /\ p \in deployed /\ pending[p] = NoRecord
        /\ made' = made + 1
        /\ UNCHANGED <<deployed, now, pending>>
    BY <1>2, <2>1 DEF LogPlain, LogPlainFails, Free, Plain
  <2>3. Own(p, l) /\ pending' = [pending EXCEPT ![p] = NoRecord]
    BY <1>a, <2>2 DEF Own, TypeOK
  <2>4. l.id \notin acked
    BY <2>3, OwnRecord
  <2>5. CASE LogPlain(p)
    <3>1. WriteLine(l) /\ acked' = acked \cup {l.id} /\ failed' = failed
      BY <2>1, <2>2, <2>5 DEF LogPlain
    <3>2. FileStep(l) /\ open' = FALSE /\ LossPaidFor'
      BY <3>1, WholeLine
    <3> QED
      BY <1>a, <2>2, <2>3, <3>1, <3>2, WriteStep DEF OpenUnacked
  <2>6. CASE LogPlainFails(p)
    <3>1. WritePart(l) /\ acked' = acked
      BY <2>1, <2>6 DEF LogPlainFails
    <3>2. FileStep(l) /\ OpenUnacked' /\ open' \in BOOLEAN /\ failed' \in Nat /\ LossPaidFor'
      BY <2>4, <3>1, PartLine
    <3> QED
      BY <2>2, <2>3, <3>1, <3>2, WriteStep
  <2> QED
    BY <1>2, <2>5, <2>6
<1>3. ASSUME NEW p \in Process, ReadLastHash(p)
      PROVE  IInv'
  <2> DEFINE l == Chained(made + 1, LastHash)
  <2>1. l \in Line /\ l.kind = "chained" /\ l.id = made + 1 /\ l.prev = LastHash
    BY <1>a, RecordTypes, LastHashType DEF Chained
  <2> HIDE DEF l
  <2>2. /\ p \in deployed /\ made' = made + 1
        /\ pending' = [pending EXCEPT ![p] = l]
        /\ UNCHANGED <<deployed, now, lines, open, acked, failed>>
    BY <1>3 DEF ReadLastHash, Free, l
  <2>3. TypeOK'
    <3>1. acked' \in SUBSET (1 .. made') /\ made' \in Nat
      BY <1>a, <2>2 DEF TypeOK
    <3> QED
      BY <1>a, <2>1, <2>2, <3>1 DEF TypeOK
  <2>4. pending'[p] = l /\ \A q \in Process \ {p} : pending'[q] = pending[q]
    BY <1>a, <2>2 DEF TypeOK
  <2> QED
    BY <2>1, <2>2, <2>3, <2>4, QuietStep
<1>4. ASSUME NEW p \in Process, AppendRecord(p) \/ AppendFails(p)
      PROVE  IInv'
  <2>1. /\ pending[p] # NoRecord /\ made' = made
        /\ pending' = [pending EXCEPT ![p] = NoRecord]
        /\ UNCHANGED <<deployed, now>>
    BY <1>4 DEF AppendRecord, AppendFails
  <2>2. PICK l \in Line : l = pending[p]
    BY <1>a DEF TypeOK
  <2>3. p \in deployed /\ Own(p, l)
    BY <2>1, <2>2 DEF IInv, PendingNamesLine, Own
  <2>4. l.id \notin acked
    BY <2>3, OwnRecord
  <2>5. CASE AppendRecord(p)
    <3>1. WriteLine(l) /\ acked' = acked \cup {l.id} /\ failed' = failed
      BY <2>2, <2>5 DEF AppendRecord
    <3>2. FileStep(l) /\ open' = FALSE /\ LossPaidFor'
      BY <3>1, WholeLine
    <3> QED
      BY <1>a, <2>1, <2>3, <3>1, <3>2, WriteStep DEF OpenUnacked
  <2>6. CASE AppendFails(p)
    <3>1. WritePart(l) /\ acked' = acked
      BY <2>2, <2>6 DEF AppendFails
    <3>2. FileStep(l) /\ OpenUnacked' /\ open' \in BOOLEAN /\ failed' \in Nat /\ LossPaidFor'
      BY <2>4, <3>1, PartLine
    <3> QED
      BY <2>1, <2>3, <3>1, <3>2, WriteStep
  <2> QED
    BY <1>4, <2>5, <2>6
<1>5. ASSUME NEW p \in Process, Crash(p)
      PROVE  IInv'
  <2>1. /\ pending' = [pending EXCEPT ![p] = NoRecord]
        /\ UNCHANGED <<deployed, now, lines, open, made, acked, failed>>
    BY <1>5 DEF Crash
  <2>2. TypeOK'
    BY <1>a, <2>1 DEF TypeOK
  <2>3. pending'[p] = NoRecord /\ \A q \in Process \ {p} : pending'[q] = pending[q]
    BY <1>a, <2>1 DEF TypeOK
  <2> QED
    BY <1>a, <2>1, <2>2, <2>3, QuietStep
<1>6. CASE UNCHANGED vars
  <2>1. TypeOK'
    BY <1>6, <1>a DEF vars, TypeOK
  <2> QED
    BY <1>6, <1>a, <2>1, QuietStep DEF vars
<1> QED
  BY <1>1, <1>2, <1>3, <1>4, <1>5, <1>6 DEF Next

----------------------------------------------------------------------------
(* The theorems                                                               *)

\* The strengthened invariant holds in every reachable state.
THEOREM Invariance == Spec => []IInv
  BY InitInv, NextInv, PTL DEF Spec

\* Every variable keeps its type.
THEOREM TypeCorrect == Spec => []TypeOK
<1>1. IInv => TypeOK
  BY DEF IInv
<1> QED
  BY <1>1, Invariance, PTL

\* A process alone on the file links every compliance record to the line before
\* it, whatever writes are cut short and wherever it dies.
THEOREM LinkedTheorem == Spec => []LinkedInOrder
<1>1. IInv => LinkedInOrder
  BY DEF IInv
<1> QED
  BY <1>1, Invariance, PTL

\* However many processes append and whatever writes are cut short, a compliance
\* record names an earlier record, or one that is gone and was never acknowledged.
THEOREM NamesEarlierTheorem == Spec => []NamesEarlierRecord
<1>1. IInv => NamesEarlierRecord
  BY DEF IInv
<1> QED
  BY <1>1, Invariance, PTL

\* However many processes append, a write cut short costs at most one record.
THEOREM LossTheorem == Spec => []LossBounded
<1>1. IInv => LossBounded
  <2> SUFFICES ASSUME IInv
               PROVE  LossBounded
    OBVIOUS
  <2>1. Cardinality(Lost) \in Nat /\ failed \in Nat
    BY LostFinite DEF IInv, TypeOK
  <2>2. Cardinality(Lost) <= failed
    BY <2>1 DEF IInv, LossPaidFor
  <2> QED
    BY <2>2 DEF LossBounded, Lost
<1> QED
  BY <1>1, Invariance, PTL

----------------------------------------------------------------------------
(* Times, and the meaning of an evidence package                              *)

LinesOrdered == \A j, k \in DOMAIN lines :
                    (j <= k /\ lines[j].kind # "broken" /\ lines[k].kind # "broken")
                        => lines[j].ts <= lines[k].ts
LinesPast == \A j \in DOMAIN lines : lines[j].ts <= now
PendingLast == \A p \in Process : pending[p] # NoRecord =>
                   /\ pending[p].ts <= now
                   /\ \A j \in DOMAIN lines : lines[j].ts <= pending[p].ts

\* A process alone on the file writes its records in the order of their times.
TimesInOrder == OneProcess => LinesOrdered /\ LinesPast /\ PendingLast

LEMMA LineTimes ==
    ASSUME TypeOK
    PROVE  /\ DOMAIN lines = 1 .. Len(lines) /\ Len(lines) \in Nat
           /\ \A j \in DOMAIN lines : lines[j].ts \in Nat
<1>1. DOMAIN lines = 1 .. Len(lines) /\ Len(lines) \in Nat
  BY DEF TypeOK
<1>2. \A j \in DOMAIN lines : lines[j] \in Line
  BY DEF TypeOK
<1> QED
  BY <1>1, <1>2 DEF Line

LEMMA OneMoreLine ==
    ASSUME TypeOK, OpenUnacked, LinesOrdered, LinesPast, NEW l \in Line, l.ts <= now,
           \A j \in DOMAIN lines : lines[j].ts <= l.ts,
           FileStep(l), now' = now
    PROVE  LinesOrdered' /\ LinesPast'
<1>1. /\ Len(lines) \in Nat /\ DOMAIN lines = 1 .. Len(lines)
      /\ DOMAIN lines' = 1 .. Len(lines') /\ Len(lines') \in Nat
      /\ \A j \in DOMAIN lines' : \/ j \in DOMAIN lines /\ lines'[j] = lines[j]
                                  \/ lines'[j] = NoRecord
                                  \/ ~open /\ j = Len(lines) + 1 /\ lines'[j] = l
  BY FileShape
<1>2. l.ts \in Nat /\ now \in Nat /\ \A j \in DOMAIN lines : lines[j].ts \in Nat
  BY LineTimes DEF Line, TypeOK
<1>3. NoRecord.ts = 0 /\ NoRecord.kind = "broken"
  BY DEF NoRecord
<1>4. LinesPast'
  BY <1>1, <1>2, <1>3 DEF LinesPast
<1>5. ASSUME NEW j \in DOMAIN lines', NEW k \in DOMAIN lines', j <= k,
             lines'[j].kind # "broken", lines'[k].kind # "broken"
      PROVE  lines'[j].ts <= lines'[k].ts
  <2>1. CASE k \in DOMAIN lines /\ lines'[k] = lines[k]
    <3>1. j \in DOMAIN lines /\ lines'[j] = lines[j]
      BY <1>1, <1>3, <1>5, <2>1
    <3> QED
      BY <1>5, <2>1, <3>1 DEF LinesOrdered
  <2>2. CASE k = Len(lines) + 1 /\ lines'[k] = l
    <3>1. CASE j \in DOMAIN lines /\ lines'[j] = lines[j]
      BY <2>2, <3>1
    <3>2. CASE lines'[j] = l
      BY <1>2, <2>2, <3>2
    <3> QED
      BY <1>1, <1>3, <1>5, <3>1, <3>2
  <2> QED
    BY <1>1, <1>3, <1>5, <2>1, <2>2
<1> QED
  BY <1>4, <1>5 DEF LinesOrdered

LEMMA TimesStep ==
    ASSUME IInv, TimesInOrder, [Next]_vars
    PROVE  TimesInOrder'
<1> SUFFICES ASSUME OneProcess'
             PROVE  LinesOrdered' /\ LinesPast' /\ PendingLast'
  BY DEF TimesInOrder
<1>0. deployed' = deployed
  BY DEF Next, vars, Tick, LogPlain, LogPlainFails, ReadLastHash, AppendRecord, AppendFails, Crash
<1>a. OneProcess /\ LinesOrdered /\ LinesPast /\ PendingLast
  BY <1>0 DEF TimesInOrder, OneProcess
<1>b. /\ TypeOK /\ OpenUnacked /\ PendingNamesLine
      /\ now \in Nat /\ \A j \in DOMAIN lines : lines[j] \in Line
  BY DEF IInv, TypeOK
<1>c. \A p, q \in Process : (pending[p] # NoRecord /\ Free(q)) => FALSE
  BY <1>a, <1>b DEF PendingNamesLine, Free, OneProcess
<1>1. CASE Tick
  <2>1. now' = now + 1 /\ lines' = lines /\ pending' = pending
    BY <1>1 DEF Tick
  <2>2. \A j \in DOMAIN lines : lines[j].ts \in Nat
    BY <1>b DEF Line
  <2>3. \A p \in Process : pending[p].ts \in Nat
    BY <1>b DEF TypeOK, Line
  <2> QED
    BY <1>a, <1>b, <2>1, <2>2, <2>3 DEF LinesOrdered, LinesPast, PendingLast
<1>2. ASSUME NEW p \in Process, LogPlain(p) \/ LogPlainFails(p)
      PROVE  LinesOrdered' /\ LinesPast' /\ PendingLast'
  <2>1. PICK l \in Line : l = Plain(made + 1)
    BY <1>b, RecordTypes DEF TypeOK
  <2>2. l.ts = now /\ \A j \in DOMAIN lines : lines[j].ts <= l.ts
    BY <1>a, <2>1 DEF Plain, LinesPast
  <2>3. FileStep(l) /\ now' = now /\ pending' = pending
    BY <1>2, <2>1 DEF LogPlain, LogPlainFails, WriteLine, WritePart, FileStep
  <2>4. LinesOrdered' /\ LinesPast'
    BY <1>a, <1>b, <2>2, <2>3, OneMoreLine
  <2> QED
    BY <1>2, <1>c, <2>3, <2>4 DEF LogPlain, LogPlainFails, PendingLast
<1>5. ASSUME NEW p \in Process, ReadLastHash(p)
      PROVE  LinesOrdered' /\ LinesPast' /\ PendingLast'
  <2>1. lines' = lines /\ now' = now
    BY <1>5 DEF ReadLastHash
  <2>2. pending' = [pending EXCEPT ![p] = Chained(made + 1, LastHash)]
    BY <1>5 DEF ReadLastHash
  <2>3. \A q \in Process : pending'[q] = NoRecord \/ pending'[q].ts = now
    BY <1>5, <1>b, <1>c, <2>2 DEF ReadLastHash, TypeOK, Chained
  <2> QED
    BY <1>a, <1>b, <2>1, <2>3 DEF LinesOrdered, LinesPast, PendingLast
<1>6. ASSUME NEW p \in Process, pending[p] # NoRecord
      PROVE  \A q \in Process \ {p} : pending[q] = NoRecord
  BY <1>6, <1>a, <1>b DEF PendingNamesLine, OneProcess
<1>7. ASSUME NEW p \in Process, AppendRecord(p) \/ AppendFails(p)
      PROVE  LinesOrdered' /\ LinesPast' /\ PendingLast'
  <2>1. PICK l \in Line : l = pending[p]
    BY <1>b DEF TypeOK
  <2>2. l.ts <= now /\ \A j \in DOMAIN lines : lines[j].ts <= l.ts
    BY <1>7, <1>a, <2>1 DEF PendingLast, AppendRecord, AppendFails
  <2>3. FileStep(l) /\ now' = now
    BY <1>7, <2>1 DEF AppendRecord, AppendFails, WriteLine, WritePart, FileStep
  <2>4. \A q \in Process : pending'[q] = NoRecord
    BY <1>6, <1>7, <1>b DEF AppendRecord, AppendFails, TypeOK
  <2> QED
    BY <1>a, <1>b, <2>2, <2>3, <2>4, OneMoreLine DEF PendingLast
<1>9. ASSUME NEW p \in Process, Crash(p)
      PROVE  LinesOrdered' /\ LinesPast' /\ PendingLast'
  <2>1. \A q \in Process : pending'[q] = NoRecord
    BY <1>6, <1>9, <1>b DEF Crash, TypeOK
  <2> QED
    BY <1>9, <1>a, <2>1 DEF Crash, LinesOrdered, LinesPast, PendingLast
<1>10. CASE UNCHANGED vars
  BY <1>a, <1>10 DEF vars, LinesOrdered, LinesPast, PendingLast
<1> QED
  BY <1>1, <1>2, <1>5, <1>7, <1>9, <1>10 DEF Next

\* In a file in the order of time the lines of a span are next to each other.
LEMMA SpanIsContiguous ==
    ASSUME TypeOK, OneProcess, Readable, TimesInOrder, NEW since \in Nat, NEW until \in Nat,
           NEW j \in Evidence(since, until), NEW k \in Evidence(since, until),
           Precedes(Evidence(since, until), k, j)
    PROVE  k = j - 1
<1>1. /\ DOMAIN lines = 1 .. Len(lines) /\ Len(lines) \in Nat
      /\ \A m \in DOMAIN lines : lines[m].ts \in Nat
  BY LineTimes
<1>2. j \in 1 .. Len(lines) /\ k \in 1 .. Len(lines) /\ k < j /\ j - 1 \in 1 .. Len(lines)
  BY <1>1 DEF Evidence, Precedes
<1>3. lines[k].ts <= lines[j - 1].ts /\ lines[j - 1].ts <= lines[j].ts
  <2>1. k <= j - 1 /\ j - 1 <= j
    BY <1>2
  <2> QED
    BY <1>1, <1>2, <2>1 DEF TimesInOrder, LinesOrdered, Readable
<1>4. j - 1 \in Evidence(since, until)
  BY <1>1, <1>2, <1>3 DEF Evidence
<1>5. j - 1 <= k
  BY <1>2, <1>4 DEF Precedes
<1> QED
  BY <1>2, <1>5

LEMMA MeaningHolds ==
    ASSUME TypeOK, LinkedInOrder, TimesInOrder
    PROVE  EvidenceMeaning
<1> SUFFICES ASSUME OneProcess, Readable, NEW since \in 0 .. MaxTime, NEW until \in 0 .. MaxTime,
                    \A j \in Evidence(since, until) : lines[j].kind = "chained",
                    \A j \in Evidence(since, until) :
                        First(Evidence(since, until), j) => lines[j].prev = NoHash
             PROVE  VerifyHashChain(Evidence(since, until))
  BY DEF EvidenceMeaning, VerifyHashChain
<1>1. ASSUME NEW j \in Evidence(since, until), NEW k \in Evidence(since, until),
             Precedes(Evidence(since, until), k, j)
      PROVE  lines[j].prev = HashOf(lines[k])
  <2>1. k = j - 1
    BY <1>1, SpanIsContiguous, BoundsAssumption
  <2>2. j \in DOMAIN lines /\ k \in DOMAIN lines /\ DOMAIN lines = 1 .. Len(lines)
    BY DEF Evidence, TypeOK
  <2>3. j # 1
    BY <2>1, <2>2
  <2> QED
    BY <2>1, <2>2, <2>3 DEF LinkedInOrder
<1> QED
  BY <1>1 DEF VerifyHashChain

\* A process alone on the file: chain_valid of an evidence package says what it
\* should, whatever writes were cut short before.
THEOREM EvidenceTheorem == Spec => []EvidenceMeaning
<1>1. Init => TimesInOrder
  BY DEF Init, TimesInOrder, LinesOrdered, LinesPast, PendingLast
<1>2. IInv /\ TimesInOrder /\ [Next]_vars => TimesInOrder'
  BY TimesStep
<1>3. IInv /\ TimesInOrder => EvidenceMeaning
  BY MeaningHolds DEF IInv
<1> QED
  BY <1>1, <1>2, <1>3, Invariance, PTL DEF Spec

----------------------------------------------------------------------------
(* What a verified chain determines                                           *)

\* The order of the numbers is well-founded.
LEMMA OrderOfNumbers ==
    \E R : IsWellFoundedOn(R, Nat) /\ \A x, y \in Nat : <<x, y>> \in R <=> x < y
<1> DEFINE R == {xy \in Nat \X Nat : xy[1] < xy[2]}
<1>1. IsWellFoundedOn(R, Nat)
  BY NatLessThanWellFounded DEF OpToRel
<1>2. \A x, y \in Nat : <<x, y>> \in R <=> x < y
  OBVIOUS
<1> HIDE DEF R
<1> QED
  BY <1>1, <1>2

\* A set of numbers that is not empty has a least one.
LEMMA LeastNumber ==
    ASSUME NEW S, S \subseteq Nat, S # {}
    PROVE  \E x \in S : \A y \in S : x <= y
<1>1. PICK R : IsWellFoundedOn(R, Nat) /\ \A x, y \in Nat : <<x, y>> \in R <=> x < y
  BY OrderOfNumbers
<1>2. PICK x \in S : \A y \in S : ~ (<<y, x>> \in R)
  <2>1. IsWellFoundedOn(R, Nat)
    BY <1>1
  <2> QED
    BY <2>1, WFMin, Zenon
<1>3. ASSUME NEW y \in S
      PROVE  x <= y
  <2>1. x \in Nat /\ y \in Nat /\ ~ (y < x)
    BY <1>1, <1>2
  <2> QED
    BY <2>1
<1> QED
  BY <1>3

\* A set of line numbers that is not empty has a least and a greatest one.
LEMMA EndsOfSelection ==
    ASSUME NEW m \in Nat, NEW S \in SUBSET (1 .. m), S # {}
    PROVE  /\ \E x \in S : \A y \in S : x <= y
           /\ \E x \in S : \A y \in S : y <= x
<1>1. S \subseteq Nat
  OBVIOUS
<1>2. \E x \in S : \A y \in S : y <= x
  <2> DEFINE D == {d \in Nat : m - d \in S}
  <2>1. D \subseteq Nat /\ D # {}
    <3>1. PICK x \in S : x \in 1 .. m
      OBVIOUS
    <3>2. m - x \in Nat /\ m - (m - x) = x
      BY <3>1
    <3> QED
      BY <3>2
  <2>2. PICK d \in D : \A e \in D : d <= e
    <3> HIDE DEF D
    <3> QED
      BY <2>1, LeastNumber
  <2>3. ASSUME NEW y \in S
        PROVE  y <= m - d
    <3>1. y \in 1 .. m
      OBVIOUS
    <3>2. m - y \in Nat /\ m - (m - y) = y /\ d \in Nat
      BY <3>1
    <3>3. d <= m - y
      BY <2>2, <3>2
    <3> QED
      BY <3>1, <3>2, <3>3
  <2> QED
    BY <2>3
<1> QED
  BY <1>1, <1>2, LeastNumber

\* The lines that may be selected.
ChainedLines == {j \in DOMAIN lines : lines[j].kind = "chained"}

\* Two selections that verify and agree after line d agree on d: the record after d
\* names one predecessor.
LEMMA NoForkBelow ==
    ASSUME TypeOK, RecordsOnce,
           NEW S \in SUBSET ChainedLines, VerifyHashChain(S),
           NEW T \in SUBSET ChainedLines, VerifyHashChain(T),
           NEW d \in S, d \notin T,
           NEW j \in S \cap T, d < j,
           \A x \in S \cup T : d < x => x \in S /\ x \in T
    PROVE  FALSE
<1>1. /\ Len(lines) \in Nat
      /\ S \in SUBSET (1 .. Len(lines)) /\ T \in SUBSET (1 .. Len(lines))
      /\ S \subseteq Nat /\ T \subseteq Nat
  BY DEF TypeOK, ChainedLines
<1> DEFINE U == {x \in S : d < x}
<1>2. PICK n \in U : \A x \in U : n <= x
  <2>1. U \in SUBSET (1 .. Len(lines)) /\ U # {}
    BY <1>1
  <2> HIDE DEF U
  <2> QED
    BY <1>1, <2>1, EndsOfSelection
<1>3. n \in S /\ n \in T /\ d < n
  OBVIOUS
<1>4. Precedes(S, d, n)
  <2>1. \A m \in S : m < n => m <= d
    BY <1>1, <1>2
  <2> QED
    BY <1>3, <2>1 DEF Precedes
<1>5. lines[n].prev = lines[d].id
  BY <1>3, <1>4 DEF VerifyHashChain, HashOf, ChainedLines
<1>6. lines[d].id # NoHash /\ lines[d].kind = "chained" /\ d \in DOMAIN lines
  BY DEF RecordsOnce, ChainedLines, NoHash, TypeOK
<1> HIDE DEF U
<1> DEFINE V == {x \in T : x < n}
<1>7. CASE V = {}
  <2>1. First(T, n)
    BY <1>1, <1>3, <1>7 DEF First
  <2> QED
    BY <1>3, <1>5, <1>6, <2>1 DEF VerifyHashChain
<1>8. CASE V # {}
  <2>1. PICK k \in V : \A x \in V : x <= k
    <3>1. V \in SUBSET (1 .. Len(lines))
      BY <1>1
    <3> HIDE DEF V
    <3> QED
      BY <1>1, <1>8, <3>1, EndsOfSelection
  <2>2. k \in T /\ Precedes(T, k, n)
    BY <2>1 DEF Precedes
  <2>3. lines[n].prev = lines[k].id /\ lines[k].kind = "chained" /\ k \in DOMAIN lines
    BY <1>3, <2>2 DEF VerifyHashChain, HashOf, ChainedLines
  <2>4. k = d
    BY <1>5, <1>6, <2>3 DEF RecordsOnce
  <2> QED
    BY <2>2, <2>4
<1> QED
  BY <1>7, <1>8

LEMMA OmissionHolds ==
    ASSUME TypeOK, RecordsOnce
    PROVE  OmissionShows
<1> SUFFICES ASSUME NEW S \in SUBSET ChainedLines, VerifyHashChain(S),
                    NEW T \in SUBSET ChainedLines, VerifyHashChain(T),
                    NEW j \in S \cap T, \A k \in S \cup T : k <= j,
                    S # T
             PROVE  FALSE
  BY DEF OmissionShows, ChainedLines
<1> DEFINE D == (S \ T) \cup (T \ S)
<1>1. /\ Len(lines) \in Nat
      /\ S \in SUBSET (1 .. Len(lines)) /\ T \in SUBSET (1 .. Len(lines))
      /\ S \subseteq Nat /\ T \subseteq Nat
  BY DEF TypeOK, ChainedLines
<1>2. D \in SUBSET (1 .. Len(lines)) /\ D # {}
  BY <1>1
<1>3. PICK d \in D : \A x \in D : x <= d
  <2> HIDE DEF D
  <2> QED
    BY <1>1, <1>2, EndsOfSelection
<1>4. d < j /\ \A x \in S \cup T : d < x => x \in S /\ x \in T
  <2>1. d <= j /\ d # j
    OBVIOUS
  <2>2. \A x \in S \cup T : d < x => x \notin D
    BY <1>1, <1>3
  <2> QED
    BY <1>1, <2>1, <2>2
<1>5. CASE d \in S /\ d \notin T
  BY <1>4, <1>5, NoForkBelow
<1>6. CASE d \in T /\ d \notin S
  BY <1>4, <1>6, NoForkBelow
<1> QED
  BY <1>5, <1>6

\* However many processes appended and whatever writes were cut short, the last
\* record of a chain that verifies determines all the others: a record left out
\* before it shows (OmissionShows).
THEOREM OmissionTheorem == Spec => []OmissionShows
<1>1. IInv => OmissionShows
  BY OmissionHolds DEF IInv
<1> QED
  BY <1>1, Invariance, PTL

----------------------------------------------------------------------------
(* The export of the evidence                                                 *)

HasBrokenLine == \E j \in DOMAIN lines : lines[j].kind = "broken"
InFile == {lines[j].id : j \in DOMAIN lines}

\* A record that was acknowledged and is in no line has left a line that does not
\* load.
LossShows == HasBrokenLine \/ acked \subseteq InFile

\* What an export owes was acknowledged before.
ExportInv == /\ LossShows
             /\ exporting \in [Process -> [on : BOOLEAN, owed : SUBSET Nat]]
             /\ \A p \in Process : exporting[p].owed \subseteq acked
             /\ package \in [given : BOOLEAN, records : SUBSET Nat, owed : SUBSET Nat]
             /\ PackageComplete

LEMMA FileStepShows ==
    ASSUME TypeOK, OpenUnacked, LossShows, NEW l \in Line, FileStep(l),
           acked' = acked \/ (acked' = acked \cup {l.id} /\ WriteLine(l))
    PROVE  LossShows'
<1>1. CASE HasBrokenLine
  <2>1. PICK j \in DOMAIN lines : lines[j].kind = "broken"
    BY <1>1 DEF HasBrokenLine
  <2>2. j \in DOMAIN lines' /\ (lines'[j] = lines[j] \/ lines'[j] = NoRecord)
    BY FileShape
  <2> QED
    BY <2>1, <2>2 DEF LossShows, HasBrokenLine, NoRecord
<1>2. CASE acked \subseteq InFile
  <2>1. acked \subseteq InFile'
    BY <1>2, NothingAckedLeaves DEF InFile
  <2>2. CASE acked' = acked
    BY <2>1, <2>2 DEF LossShows
  <2>3. CASE open /\ WriteLine(l)
    <3>1. lines \in Seq(Line) /\ Len(lines) \in DOMAIN lines /\ lines' = Joined
      BY <2>3 DEF TypeOK, OpenUnacked, WriteLine
    <3>2. Len(lines) \in DOMAIN lines' /\ lines'[Len(lines)] = NoRecord
      BY <3>1 DEF Joined
    <3> QED
      BY <3>2 DEF LossShows, HasBrokenLine, NoRecord
  <2>4. CASE ~open /\ acked' = acked \cup {l.id} /\ WriteLine(l)
    <3>1. lines \in Seq(Line) /\ lines' = lines \o <<l>>
      BY <2>4 DEF TypeOK, WriteLine
    <3>2. Len(lines) + 1 \in DOMAIN lines' /\ lines'[Len(lines) + 1] = l
      BY <3>1, LongerFile
    <3>3. l.id \in InFile'
      BY <3>2 DEF InFile
    <3> QED
      BY <2>1, <2>4, <3>3 DEF LossShows
  <2> QED
    BY <2>2, <2>3, <2>4
<1> QED
  BY <1>1, <1>2 DEF LossShows

\* Whatever the processes do to the trail, a loss shows in it, and what was
\* acknowledged stays so.
LEMMA TrailStep ==
    ASSUME IInv, LossShows, [Next]_vars
    PROVE  LossShows' /\ acked \subseteq acked'
<1>a. TypeOK /\ OpenUnacked
  BY DEF IInv
<1>1. CASE UNCHANGED <<lines, acked>>
  BY <1>1 DEF LossShows, HasBrokenLine, InFile
<1>2. ASSUME NEW l \in Line,
             \/ WriteLine(l) /\ acked' = acked \cup {l.id}
             \/ WritePart(l) /\ acked' = acked
      PROVE  LossShows' /\ acked \subseteq acked'
  <2>1. FileStep(l)
    BY <1>2 DEF WriteLine, WritePart, FileStep
  <2> QED
    BY <1>a, <1>2, <2>1, FileStepShows
<1>3. ASSUME NEW p \in Process, LogPlain(p) \/ LogPlainFails(p)
      PROVE  LossShows' /\ acked \subseteq acked'
  <2>1. PICK l \in Line : l = Plain(made + 1)
    BY <1>a, RecordTypes DEF TypeOK
  <2>2. l.id = made + 1
    BY <2>1 DEF Plain
  <2> QED
    BY <1>2, <1>3, <2>1, <2>2 DEF LogPlain, LogPlainFails
<1>4. ASSUME NEW p \in Process, AppendRecord(p) \/ AppendFails(p)
      PROVE  LossShows' /\ acked \subseteq acked'
  <2>1. pending[p] \in Line
    BY <1>a DEF TypeOK
  <2> QED
    BY <1>2, <1>4, <2>1 DEF AppendRecord, AppendFails
<1>5. ASSUME NEW p \in Process, ReadLastHash(p) \/ Crash(p)
      PROVE  UNCHANGED <<lines, acked>>
  BY <1>5 DEF ReadLastHash, Crash
<1>6. Tick \/ UNCHANGED vars => UNCHANGED <<lines, acked>>
  BY DEF Tick, vars
<1> QED
  BY <1>1, <1>3, <1>4, <1>5, <1>6 DEF Next

\* To the trail, an export is a step that changes nothing.
LEMMA ExportStep == [ExportNext]_<<vars, exportVars>> => [Next]_vars
  BY DEF ExportNext, Writes, BeginExport, FinishExport, ExportFails, Next, vars

LEMMA ExportInitInv == ExportInit => ExportInv
<1> SUFFICES ASSUME ExportInit
             PROVE  ExportInv
  OBVIOUS
<1>1. lines = <<>> /\ ~open /\ acked = {}
  BY DEF ExportInit, Init
<1>2. LossShows
  BY <1>1 DEF LossShows
<1> QED
  BY <1>1, <1>2 DEF ExportInit, ExportInv, NotExporting, NoPackage, PackageComplete

LEMMA ExportNextInv ==
    ASSUME IInv, ExportInv, [ExportNext]_<<vars, exportVars>>
    PROVE  ExportInv'
<1>1. LossShows' /\ acked \subseteq acked'
  BY ExportStep, TrailStep DEF ExportInv
<1>2. CASE UNCHANGED exportVars
  BY <1>1, <1>2 DEF ExportInv, exportVars, PackageComplete
<1>3. ASSUME NEW p \in Process, BeginExport(p)
      PROVE  ExportInv'
  <2>1. acked \in SUBSET Nat
    BY DEF IInv, TypeOK
  <2> QED
    BY <1>1, <1>3, <2>1 DEF BeginExport, ExportInv, vars, PackageComplete
<1>4. ASSUME NEW p \in Process, FinishExport(p)
      PROVE  ExportInv'
  <2>1. acked \subseteq InFile
    BY <1>4 DEF FinishExport, TrailLoads, Readable, ExportInv, LossShows, HasBrokenLine
  <2>2. ListedRecords = InFile \cap Reported
    BY DEF ListedRecords, InFile
  <2>3. exporting[p].owed \cap Reported \subseteq ListedRecords
    BY <2>1, <2>2 DEF ExportInv
  <2>4. ListedRecords \in SUBSET Nat /\ exporting[p].owed \in SUBSET Nat
    BY <2>2, ReportedAssumption DEF ExportInv
  <2>5. PackageComplete' /\ package' \in [given : BOOLEAN, records : SUBSET Nat, owed : SUBSET Nat]
    BY <1>4, <2>3, <2>4 DEF FinishExport, PackageComplete
  <2>6. exporting' \in [Process -> [on : BOOLEAN, owed : SUBSET Nat]]
    BY <1>4 DEF FinishExport, ExportInv, NotExporting
  <2>7. \A q \in Process : exporting'[q].owed \subseteq acked'
    BY <1>1, <1>4 DEF FinishExport, ExportInv, NotExporting
  <2> QED
    BY <1>1, <2>5, <2>6, <2>7 DEF ExportInv
<1>5. ASSUME NEW p \in Process, ExportFails(p)
      PROVE  ExportInv'
  BY <1>1, <1>5 DEF ExportFails, ExportInv, NotExporting, vars, PackageComplete
<1> QED
  BY <1>2, <1>3, <1>4, <1>5 DEF ExportNext, exportVars

\* Whatever the trail has gone through, an evidence package lists every record it
\* owes.
THEOREM PackageTheorem == ExportSpec => []PackageComplete
<1>1. ExportInit => Init
  BY DEF ExportInit
<1>2. ExportSpec => Spec
  BY <1>1, ExportStep, PTL DEF ExportSpec, Spec
<1>3. ExportInv => PackageComplete
  BY DEF ExportInv
<1> QED
  BY <1>2, <1>3, Invariance, ExportInitInv, ExportNextInv, PTL DEF ExportSpec

=============================================================================
