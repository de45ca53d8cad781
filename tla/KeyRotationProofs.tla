------------------------- MODULE KeyRotationProofs -------------------------
(* Proofs about KeyRotation, for any number of processes, any retention limit *)
(* above zero and any number of keys.                                         *)
EXTENDS KeyRotation, SequenceTheorems, TLAPS

----------------------------------------------------------------------------
(* The inductive invariant                                                    *)

\* A key at position j of a list has seen j - 1 newer keys.
Aged(s) == \A j \in 1 .. Len(s) : s[j] <= made - (j - 1)

\* The active key is newer than every other key of its list.
HeadNewest(s) == \A j \in 2 .. Len(s) : s[j] < s[1]

\* The lists, in memory and in the metadata, are aged and start with the newest.
ListsOrdered == /\ Aged(meta.ids) /\ HeadNewest(meta.ids)
                /\ \A p \in Process : Aged(ids[p]) /\ HeadNewest(ids[p])

\* Who has a list, and how long it is while keys are deleted.
ListsPresent == /\ meta.kind = "whole" <=> meta.ids # <<>>
                /\ \A p \in Process : /\ at[p] = "down" <=> ids[p] = <<>>
                                      /\ at[p] = "delete" => TooMany(ids[p])

\* A process between the file of its new key and its metadata.
Rotating(p) == at[p] \in {"delete", "open", "write"}

\* The new key of such a process is in the directory and in no other list.
NewKeyUnknown ==
    \A q \in Process : Rotating(q) =>
        /\ ids[q][1] \in pem
        /\ \A p \in Process \ {q} : \A j \in 1 .. Len(ids[p]) : ids[p][j] # ids[q][1]
        /\ \A j \in 1 .. Len(meta.ids) : meta.ids[j] # ids[q][1]

\* The key that the metadata calls active is not about to be deleted by anyone:
\* a process that has demoted it is still in the rotation that demoted it.
ActiveNotRetired ==
    meta.kind = "whole" =>
        \A p \in Process : \A j \in 2 .. Len(ids[p]) :
            ids[p][j] = meta.ids[1] => j = 2 /\ Rotating(p)

IInv == /\ TypeOK
        /\ ListsOrdered
        /\ ListsPresent
        /\ NewKeyUnknown
        /\ ActiveNotRetired
        /\ RecentKeysOnDisk
        /\ RestartCanSign

----------------------------------------------------------------------------
(* Sequences and keys                                                         *)

\* Ages only grow.
LEMMA AgeGrows ==
    ASSUME NEW k \in Nat, NEW m \in Nat, NEW i \in Int, k <= m - i
    PROVE  k <= m + 1 - i
  OBVIOUS

\* Promote makes a list of keys of a key and a list of keys.
LEMMA PromoteType ==
    ASSUME NEW S, NEW s \in Seq(S), NEW k \in S
    PROVE  Promote(s, k) \in Seq(S)
<1>1. <<k>> \in Seq(S)
  OBVIOUS
<1> QED
  BY <1>1 DEF Promote

\* What is left of a list without its last element.
LEMMA ShorterShape ==
    ASSUME NEW S, NEW s \in Seq(S), s # <<>>
    PROVE  /\ SubSeq(s, 1, Len(s) - 1) \in Seq(S)
           /\ Len(s) \in Nat \ {0}
           /\ Len(SubSeq(s, 1, Len(s) - 1)) = Len(s) - 1
           /\ \A j \in 1 .. Len(s) - 1 : SubSeq(s, 1, Len(s) - 1)[j] = s[j]
<1>1. Len(s) \in Nat \ {0}
  OBVIOUS
<1>2. \A j \in 1 .. Len(s) - 1 : s[j] \in S
  OBVIOUS
<1> DEFINE n == Len(s) - 1
<1>3. n \in Int /\ 1 \in Int /\ \A i \in 1 .. n : s[i] \in S
  BY <1>1, <1>2
<1>4. /\ SubSeq(s, 1, n) \in Seq(S)
      /\ Len(SubSeq(s, 1, n)) = IF 1 <= n THEN n - 1 + 1 ELSE 0
      /\ \A i \in 1 .. n - 1 + 1 : SubSeq(s, 1, n)[i] = s[1 + i - 1]
  <2> HIDE DEF n
  <2> QED
    BY <1>3, SubSeqProperties
<1>5. n \in Nat
  BY <1>1
<1>6. Len(SubSeq(s, 1, n)) = n
  <2>1. (IF 1 <= n THEN n - 1 + 1 ELSE 0) = n
    <3> HIDE DEF n
    <3> QED
      BY <1>5
  <2> HIDE DEF n
  <2> QED
    BY <1>4, <2>1
<1>7. \A i \in 1 .. n : SubSeq(s, 1, n)[i] = s[i]
  <2> HIDE DEF n
  <2> QED
    BY <1>4, <1>5
<1> QED
  BY <1>1, <1>4, <1>6, <1>7

\* A list of keys stays one when more keys are generated.
LEMMA KeysGrow ==
    ASSUME NEW m \in Nat, NEW n \in Nat, m <= n, NEW s \in Seq(1 .. m)
    PROVE  s \in Seq(1 .. n)
<1>1. 1 .. m \subseteq 1 .. n
  OBVIOUS
<1>2. /\ Len(s) \in Nat
      /\ s = [j \in 1 .. Len(s) |-> s[j]]
      /\ \A j \in 1 .. Len(s) : s[j] \in 1 .. n
  BY <1>1
<1> QED
  BY <1>2

\* The metadata has the type of the metadata.
LEMMA MetaShape ==
    ASSUME TypeOK
    PROVE  /\ meta.ids \in Seq(Key)
           /\ meta.kind \in {"absent", "torn", "whole"}
           /\ meta.size \in Nat
           /\ Absent.kind = "absent" /\ Absent.ids = <<>>
           /\ \A n : Torn(n).kind = "torn" /\ Torn(n).ids = <<>> /\ Torn(n).size = n
           /\ \A s : Whole(s).kind = "whole" /\ Whole(s).ids = s /\ Whole(s).size = Len(s)
  BY DEF TypeOK, Absent, Torn, Whole

----------------------------------------------------------------------------
(* Type correctness                                                           *)

LEMMA TypeInit == Init => TypeOK
  BY DEF Init, TypeOK, Absent, Key

\* What the generation of a key does to the types.
LEMMA SaveKeyType ==
    ASSUME TypeOK, NEW p \in Process, SaveKey(p)
    PROVE  /\ made \in Nat /\ made' = made + 1
           /\ made + 1 \in Key'
           /\ Key \subseteq Key'
           /\ pem' \in SUBSET Key'
           /\ cache' \in [Process -> SUBSET Key']
           /\ \A s \in Seq(Key) : s \in Seq(Key')
<1>1. made \in Nat /\ made' = made + 1 /\ made' \in Nat /\ made <= made'
  BY DEF TypeOK, SaveKey
<1>2. Key = 1 .. made /\ Key' = 1 .. made'
  BY DEF Key
<1>3. made + 1 \in Key' /\ Key \subseteq Key'
  BY <1>1, <1>2
<1>4. \A s \in Seq(Key) : s \in Seq(Key')
  BY <1>1, <1>2, KeysGrow
<1>5. pem' \in SUBSET Key'
  BY <1>3 DEF TypeOK, SaveKey
<1>6. cache' \in [Process -> SUBSET Key']
  BY <1>3 DEF TypeOK, SaveKey
<1> QED
  BY <1>1, <1>3, <1>4, <1>5, <1>6

LEMMA TypeNext == TypeOK /\ ListsPresent /\ [Next]_vars => TypeOK'
<1> SUFFICES ASSUME TypeOK, ListsPresent, [Next]_vars
             PROVE  TypeOK'
  OBVIOUS
<1>a. made' = made => Key' = Key
  BY DEF Key
<1>1. ASSUME NEW p \in Process, Load(p)
      PROVE  TypeOK'
  BY <1>1, <1>a, MetaShape DEF Load, TypeOK
<1>2. ASSUME NEW p \in Process, Initialize(p)
      PROVE  TypeOK'
  <2>1. SaveKey(p) /\ deployed' = deployed /\ meta' = meta
    BY <1>2 DEF Initialize
  <2>2. <<made + 1>> \in Seq(Key') /\ \A q \in Process : ids[q] \in Seq(Key')
    BY <2>1, SaveKeyType DEF TypeOK
  <2>3. ids' \in [Process -> Seq(Key')]
    BY <1>2, <2>2 DEF Initialize, TypeOK
  <2>4. at' \in [Process -> {"down", "ready", "delete", "open", "write"}]
    BY <1>2 DEF Initialize, TypeOK
  <2>5. meta' \in [kind : {"absent", "torn", "whole"}, ids : Seq(Key'), size : Nat]
    BY <2>1, SaveKeyType DEF TypeOK
  <2> QED
    BY <2>1, <2>3, <2>4, <2>5, SaveKeyType DEF TypeOK
<1>3. ASSUME NEW p \in Process, Rotate(p)
      PROVE  TypeOK'
  <2>1. SaveKey(p) /\ deployed' = deployed /\ meta' = meta
    BY <1>3 DEF Rotate
  <2>2. \A q \in Process : ids[q] \in Seq(Key')
    BY <2>1, SaveKeyType DEF TypeOK
  <2>3. Promote(ids[p], made + 1) \in Seq(Key')
    BY <2>1, <2>2, SaveKeyType, PromoteType
  <2>4. ids' \in [Process -> Seq(Key')]
    BY <1>3, <2>2, <2>3 DEF Rotate, TypeOK
  <2>5. at' \in [Process -> {"down", "ready", "delete", "open", "write"}]
    BY <1>3 DEF Rotate, TypeOK
  <2>6. meta' \in [kind : {"absent", "torn", "whole"}, ids : Seq(Key'), size : Nat]
    BY <2>1, SaveKeyType DEF TypeOK
  <2> QED
    BY <2>1, <2>4, <2>5, <2>6, SaveKeyType DEF TypeOK
<1>4. ASSUME NEW p \in Process, Delete(p)
      PROVE  TypeOK'
  <2>1. ids[p] # <<>>
    BY <1>4 DEF Delete, ListsPresent
  <2>2. SubSeq(ids[p], 1, Len(ids[p]) - 1) \in Seq(Key)
    BY <2>1, ShorterShape DEF TypeOK
  <2> QED
    BY <1>4, <1>a, <2>2 DEF Delete, TypeOK
<1>5. ASSUME NEW p \in Process, OpenMetadata(p)
      PROVE  TypeOK'
  BY <1>5, <1>a DEF OpenMetadata, Torn, TypeOK
<1>6. ASSUME NEW p \in Process, WriteMetadata(p)
      PROVE  TypeOK'
  BY <1>6, <1>a DEF WriteMetadata, Torn, Whole, TypeOK
<1>7. ASSUME NEW p \in Process, NEW k \in 1 .. MaxKeys, GetKey(p, k)
      PROVE  TypeOK'
  BY <1>7, <1>a DEF GetKey, TypeOK
<1>8. ASSUME NEW p \in Process, Crash(p)
      PROVE  TypeOK'
  BY <1>8, <1>a DEF Crash, TypeOK
<1>9. CASE UNCHANGED vars
  BY <1>9, <1>a DEF vars, TypeOK
<1> QED
  BY <1>1, <1>2, <1>3, <1>4, <1>5, <1>6, <1>7, <1>8, <1>9 DEF Next

----------------------------------------------------------------------------
(* The invariant is inductive                                                 *)

LEMMA InitInv == Init => IInv
<1> SUFFICES ASSUME Init
             PROVE  IInv
  OBVIOUS
<1>1. TypeOK
  BY TypeInit
<1>2. \A p \in Process : ids[p] = <<>> /\ at[p] = "down"
  BY DEF Init
<1>3. meta.kind = "absent" /\ meta.ids = <<>> /\ made = 0
  BY DEF Init, Absent
<1>4. ListsOrdered
  BY <1>2, <1>3 DEF ListsOrdered, Aged, HeadNewest
<1>5. ListsPresent
  BY <1>2, <1>3 DEF ListsPresent
<1>6. NewKeyUnknown /\ ActiveNotRetired /\ RestartCanSign
  BY <1>2, <1>3 DEF NewKeyUnknown, Rotating, ActiveNotRetired, RestartCanSign
<1>7. RecentKeysOnDisk
  BY <1>3 DEF RecentKeysOnDisk, Key
<1> QED
  BY <1>1, <1>4, <1>5, <1>6, <1>7 DEF IInv

\* The keys of the lists, as numbers.
LEMMA ListShape ==
    ASSUME IInv
    PROVE  /\ made \in Nat
           /\ \A p \in Process : /\ ids[p] \in Seq(Key)
                                  /\ Len(ids[p]) \in Nat
                                  /\ ids[p] # <<>> => Len(ids[p]) >= 1
                                  /\ \A j \in 1 .. Len(ids[p]) : ids[p][j] \in 1 .. made
           /\ meta.ids \in Seq(Key)
           /\ Len(meta.ids) \in Nat
           /\ meta.ids # <<>> => Len(meta.ids) >= 1
           /\ \A j \in 1 .. Len(meta.ids) : meta.ids[j] \in 1 .. made
<1>1. TypeOK /\ made \in Nat /\ Key = 1 .. made
  BY DEF IInv, TypeOK, Key
<1>2. meta.ids \in Seq(Key) /\ \A p \in Process : ids[p] \in Seq(Key)
  BY <1>1, MetaShape DEF TypeOK
<1>3. \A s \in Seq(Key) : /\ Len(s) \in Nat
                         /\ s # <<>> => Len(s) >= 1
                         /\ \A j \in 1 .. Len(s) : s[j] \in Key
  OBVIOUS
<1> QED
  BY <1>1, <1>2, <1>3

LEMMA ElementIsKey ==
    ASSUME IInv, NEW p \in Process, NEW j \in 1 .. Len(ids[p])
    PROVE  ids[p][j] \in Nat /\ 1 <= ids[p][j] /\ ids[p][j] <= made /\ made \in Nat
<1>1. ids \in [Process -> Seq(Key)] /\ made \in Nat /\ Key = 1 .. made
  BY DEF IInv, TypeOK, Key
<1>2. ids[p] \in Seq(Key)
  BY <1>1
<1>3. ids[p][j] \in Key
  BY <1>2
<1> QED
  BY <1>1, <1>3

\* A step that leaves the lists, the metadata and the stages alone, and only adds
\* to the directory, keeps everything but the types.
LEMMA QuietStep ==
    ASSUME IInv, TypeOK', UNCHANGED <<made, pem, meta, at, ids>>
    PROVE  IInv'
<1>1. Key' = Key
  BY DEF Key
<1>2. ListsOrdered' /\ ListsPresent'
  BY DEF IInv, ListsOrdered, Aged, HeadNewest, ListsPresent, TooMany
<1>3. NewKeyUnknown' /\ ActiveNotRetired'
  BY DEF IInv, NewKeyUnknown, ActiveNotRetired, Rotating
<1>4. RecentKeysOnDisk' /\ RestartCanSign'
  BY <1>1 DEF IInv, RecentKeysOnDisk, RestartCanSign
<1> QED
  BY <1>2, <1>3, <1>4 DEF IInv

\* A new key at the head of p's list, its file written.
LEMMA NewKeyStep ==
    ASSUME IInv, TypeOK', NEW p \in Process,
           made' = made + 1,
           pem' = pem \cup {made + 1},
           meta' = meta,
           \A q \in Process \ {p} : ids'[q] = ids[q] /\ at'[q] = at[q],
           Rotating(p)',
           at[p] \in {"down", "ready"},
           Len(ids'[p]) = Len(ids[p]) + 1,
           ids'[p][1] = made + 1,
           \A j \in 2 .. Len(ids[p]) + 1 : ids'[p][j] = ids[p][j - 1],
           at'[p] = "delete" => TooMany(ids'[p])
    PROVE  IInv'
<1>a. at'[p] # "down" /\ ids'[p] # <<>>
  <2>1. Len(ids'[p]) # 0
    BY ListShape
  <2> QED
    BY <2>1 DEF Rotating
<1>1. Aged(meta.ids)' /\ HeadNewest(meta.ids)'
  BY ListShape DEF IInv, ListsOrdered, Aged, HeadNewest
<1>2. ASSUME NEW q \in Process
      PROVE  Aged(ids[q])' /\ HeadNewest(ids[q])'
  <2>1. CASE q # p
    <3>1. ids'[q] = ids[q] /\ Aged(ids[q]) /\ HeadNewest(ids[q])
      BY <2>1 DEF IInv, ListsOrdered
    <3>2. ASSUME NEW j \in 1 .. Len(ids[q])
          PROVE  ids[q][j] <= made' - (j - 1)
      <4>1. ids[q][j] \in Nat /\ made \in Nat /\ j - 1 \in Int
        BY ElementIsKey
      <4>2. ids[q][j] <= made - (j - 1)
        BY <3>1 DEF Aged
      <4>3. made' = made + 1
        OBVIOUS
      <4>4. ids[q][j] <= made + 1 - (j - 1)
        BY <4>1, <4>2, AgeGrows
      <4> QED
        BY <4>1, <4>3, <4>4
    <3> QED
      BY <3>1, <3>2 DEF Aged, HeadNewest
  <2>2. CASE q = p
    <3>1. \A j \in 1 .. Len(ids'[p]) : ids'[p][j] <= made' - (j - 1)
      <4> TAKE j \in 1 .. Len(ids'[p])
      <4>1. CASE j = 1
        BY <4>1, ListShape
      <4>2. CASE j # 1
        <5>1. j - 1 \in 1 .. Len(ids[p]) /\ ids'[p][j] = ids[p][j - 1]
          BY <4>2, ListShape
        <5>2. ids[p][j - 1] <= made - ((j - 1) - 1)
          BY <5>1 DEF IInv, ListsOrdered, Aged
        <5> QED
          BY <5>1, <5>2, ListShape
      <4> QED
        BY <4>1, <4>2
    <3>2. \A j \in 2 .. Len(ids'[p]) : ids'[p][j] < ids'[p][1]
      <4> TAKE j \in 2 .. Len(ids'[p])
      <4>1. j - 1 \in 1 .. Len(ids[p]) /\ ids'[p][j] = ids[p][j - 1]
        BY ListShape
      <4>2. ids[p][j - 1] \in 1 .. made /\ made \in Nat
        BY <4>1, ElementIsKey
      <4> QED
        BY <4>1, <4>2
    <3> QED
      BY <2>2, <3>1, <3>2 DEF Aged, HeadNewest
  <2> QED
    BY <2>1, <2>2
<1>3. ListsOrdered'
  BY <1>1, <1>2 DEF ListsOrdered
<1>4. ListsPresent'
  BY <1>a DEF IInv, ListsPresent, TooMany
<1>5. NewKeyUnknown'
  <2>1. ASSUME NEW q \in Process, Rotating(q)', q # p
        PROVE  /\ ids'[q][1] \in pem'
               /\ \A r \in Process \ {q} : \A j \in 1 .. Len(ids'[r]) : ids'[r][j] # ids'[q][1]
               /\ \A j \in 1 .. Len(meta'.ids) : meta'.ids[j] # ids'[q][1]
    <3>1. Rotating(q) /\ ids'[q] = ids[q]
      BY <2>1 DEF Rotating
    <3>2. ids[q][1] \in 1 .. made
      <4>1. ids[q] # <<>>
        BY <3>1 DEF IInv, ListsPresent, Rotating
      <4>2. 1 \in 1 .. Len(ids[q])
        BY <4>1, ListShape
      <4> QED
        BY <4>2, ElementIsKey
    <3>3. \A j \in 1 .. Len(ids'[p]) : ids'[p][j] # ids[q][1]
      <4> TAKE j \in 1 .. Len(ids'[p])
      <4>1. CASE j = 1
        BY <4>1, <3>2, ListShape
      <4>2. CASE j # 1
        <5>1. j - 1 \in 1 .. Len(ids[p]) /\ ids'[p][j] = ids[p][j - 1]
          BY <4>2, ListShape
        <5> QED
          BY <2>1, <3>1, <5>1 DEF IInv, NewKeyUnknown
      <4> QED
        BY <4>1, <4>2
    <3> QED
      BY <2>1, <3>1, <3>3 DEF IInv, NewKeyUnknown
  <2>2. ASSUME NEW r \in Process \ {p}, NEW j \in 1 .. Len(ids'[r])
        PROVE  ids'[r][j] # ids'[p][1]
    <3>1. ids'[r] = ids[r]
      OBVIOUS
    <3>2. ids[r][j] <= made /\ ids[r][j] \in Nat /\ made \in Nat
      BY <3>1, ElementIsKey
    <3> QED
      BY <3>1, <3>2
  <2>3. \A j \in 1 .. Len(meta'.ids) : meta'.ids[j] # ids'[p][1]
    BY ListShape
  <2> QED
    BY <2>1, <2>2, <2>3 DEF NewKeyUnknown
<1>6. ActiveNotRetired'
  <2> SUFFICES ASSUME meta.kind = "whole", NEW q \in Process, NEW j \in 2 .. Len(ids'[q]),
                      ids'[q][j] = meta.ids[1]
               PROVE  j = 2 /\ Rotating(q)'
    BY DEF ActiveNotRetired
  <2>1. CASE q # p
    BY <2>1 DEF IInv, ActiveNotRetired, Rotating
  <2>2. CASE q = p
    <3>1. j - 1 \in 1 .. Len(ids[p]) /\ ids[p][j - 1] = meta.ids[1]
      BY <2>2, ListShape
    <3>2. ~Rotating(p)
      BY DEF Rotating
    <3>3. j - 1 \notin 2 .. Len(ids[p])
      BY <3>1, <3>2 DEF IInv, ActiveNotRetired
    <3>4. j = 2
      BY <3>1, <3>3, ListShape
    <3> QED
      BY <2>2, <3>4
  <2> QED
    BY <2>1, <2>2
<1>7. RecentKeysOnDisk'
  <2> SUFFICES ASSUME NEW k \in 1 .. made', made' - k <= MaxPrevious
               PROVE  k \in pem'
    BY DEF RecentKeysOnDisk, Key
  <2>1. made \in Nat /\ MaxPrevious \in Nat
    BY ListShape, KeyAssumption
  <2>2. CASE k = made + 1
    BY <2>2
  <2>3. CASE k # made + 1
    <3>1. k \in 1 .. made /\ made - k <= MaxPrevious
      BY <2>1, <2>3
    <3> QED
      BY <3>1 DEF IInv, RecentKeysOnDisk, Key
  <2> QED
    BY <2>2, <2>3
<1>8. RestartCanSign'
  BY DEF IInv, RestartCanSign
<1> QED
  BY <1>3, <1>4, <1>5, <1>6, <1>7, <1>8 DEF IInv
\* A process starts from the metadata, or dies: its list is the metadata's, or none.
LEMMA ListChangeStep ==
    ASSUME IInv, TypeOK', NEW p \in Process,
           UNCHANGED <<made, pem, meta>>,
           \A q \in Process \ {p} : ids'[q] = ids[q] /\ at'[q] = at[q],
           \/ at'[p] = "ready" /\ ids'[p] = meta.ids /\ meta.kind = "whole"
           \/ at'[p] = "down" /\ ids'[p] = <<>>
    PROVE  IInv'
<1>1. ListsOrdered'
  <2>1. Aged(meta.ids)' /\ HeadNewest(meta.ids)'
    BY DEF IInv, ListsOrdered, Aged, HeadNewest
  <2>2. ASSUME NEW q \in Process
        PROVE  Aged(ids[q])' /\ HeadNewest(ids[q])'
    BY <2>1 DEF IInv, ListsOrdered, Aged, HeadNewest
  <2> QED
    BY <2>1, <2>2 DEF ListsOrdered
<1>2. ListsPresent'
  BY DEF IInv, ListsPresent, TooMany
<1>3. NewKeyUnknown'
  <2> SUFFICES ASSUME NEW q \in Process, Rotating(q)'
               PROVE  /\ ids'[q][1] \in pem'
                      /\ \A r \in Process \ {q} : \A j \in 1 .. Len(ids'[r]) :
                             ids'[r][j] # ids'[q][1]
                      /\ \A j \in 1 .. Len(meta'.ids) : meta'.ids[j] # ids'[q][1]
    BY DEF NewKeyUnknown
  <2>1. q # p /\ Rotating(q) /\ ids'[q] = ids[q]
    BY DEF Rotating
  <2>2. \A j \in 1 .. Len(ids'[p]) : ids'[p][j] # ids[q][1]
    BY <2>1 DEF IInv, NewKeyUnknown
  <2> QED
    BY <2>1, <2>2 DEF IInv, NewKeyUnknown
<1>4. ActiveNotRetired'
  <2> SUFFICES ASSUME meta.kind = "whole", NEW q \in Process, NEW j \in 2 .. Len(ids'[q]),
                      ids'[q][j] = meta.ids[1]
               PROVE  j = 2 /\ Rotating(q)'
    BY DEF ActiveNotRetired
  <2>1. q # p
    <3> SUFFICES ASSUME q = p
                 PROVE  FALSE
      OBVIOUS
    <3>1. ids'[p] = meta.ids
      OBVIOUS
    <3>2. meta.ids[j] < meta.ids[1] /\ meta.ids[j] = meta.ids[1]
      BY <3>1 DEF IInv, ListsOrdered, HeadNewest
    <3>3. 1 \in 1 .. Len(meta.ids) /\ meta.ids[1] \in 1 .. made /\ made \in Nat
      BY ListShape DEF IInv, ListsPresent
    <3> QED
      BY <3>2, <3>3
  <2> QED
    BY <2>1 DEF IInv, ActiveNotRetired, Rotating
<1>5. RecentKeysOnDisk' /\ RestartCanSign'
  BY DEF IInv, RecentKeysOnDisk, Key, RestartCanSign
<1> QED
  BY <1>1, <1>2, <1>3, <1>4, <1>5 DEF IInv

\* p deletes the oldest key of its list: everybody's recent keys, the new keys of
\* the processes that rotate and the active key of the metadata stay.
LEMMA DeleteStep ==
    ASSUME IInv, TypeOK', NEW p \in Process, Delete(p)
    PROVE  IInv'
<1> DEFINE n == Len(ids[p])
           retired == ids[p][n]
<1>1. /\ at[p] = "delete" /\ Rotating(p) /\ Rotating(p)'
      /\ \A q \in Process \ {p} : ids'[q] = ids[q] /\ at'[q] = at[q]
      /\ ids'[p] = SubSeq(ids[p], 1, n - 1)
      /\ at'[p] = "delete" => TooMany(ids'[p])
      /\ pem' = pem \ {retired}
      /\ UNCHANGED <<made, meta>>
  BY DEF Delete, Rotating, IInv, TypeOK
<1>2. n \in Nat /\ n >= 3 /\ n >= MaxPrevious + 2 /\ made \in Nat /\ MaxPrevious \in Nat
  BY <1>1, ListShape, KeyAssumption DEF IInv, ListsPresent, TooMany
<1>3. Len(ids'[p]) = n - 1 /\ \A j \in 1 .. n - 1 : ids'[p][j] = ids[p][j]
  <2>1. ids[p] \in Seq(Key)
    BY DEF IInv, TypeOK
  <2>2. ids[p] # <<>>
    BY <1>1 DEF IInv, ListsPresent
  <2> QED
    BY <1>1, <2>1, <2>2, ShorterShape
<1>4. retired <= made - (n - 1) /\ retired \in Nat /\ retired < ids[p][1]
  <2>1. n \in 1 .. Len(ids[p]) /\ n \in 2 .. Len(ids[p])
    BY <1>2
  <2>2. retired \in Nat
    BY <2>1, ElementIsKey
  <2>3. Aged(ids[p]) /\ HeadNewest(ids[p])
    BY DEF IInv, ListsOrdered
  <2> QED
    BY <2>1, <2>2, <2>3 DEF Aged, HeadNewest
<1> HIDE DEF retired, n
<1>5. ids'[p][1] = ids[p][1] /\ ids[p][1] # retired /\ ids[p][1] \in Nat
  <2>1. ids[p][1] \in Nat
    BY <1>2, ElementIsKey DEF n
  <2> QED
    BY <1>2, <1>3, <1>4, <2>1
<1>6. ListsOrdered'
  <2>1. Aged(meta.ids)' /\ HeadNewest(meta.ids)'
    BY <1>1 DEF IInv, ListsOrdered, Aged, HeadNewest
  <2>2. \A q \in Process \ {p} : Aged(ids[q])' /\ HeadNewest(ids[q])'
    BY <1>1 DEF IInv, ListsOrdered, Aged, HeadNewest
  <2>3. Aged(ids[p]) /\ HeadNewest(ids[p])
    BY DEF IInv, ListsOrdered
  <2>4. Aged(ids[p])'
    BY <1>1, <1>2, <1>3, <2>3 DEF Aged, n
  <2>5. HeadNewest(ids[p])'
    BY <1>2, <1>3, <1>5, <2>3 DEF HeadNewest, n
  <2> QED
    BY <2>1, <2>2, <2>4, <2>5 DEF ListsOrdered
<1>7. ListsPresent'
  <2>1. at'[p] # "down"
    BY <1>1 DEF Rotating
  <2>2. ids'[p] # <<>>
    <3>1. Len(ids'[p]) # 0
      BY <1>2, <1>3
    <3> QED
      BY <3>1
  <2> QED
    BY <1>1, <2>1, <2>2 DEF IInv, ListsPresent, TooMany
<1>8. NewKeyUnknown'
  <2> SUFFICES ASSUME NEW q \in Process, Rotating(q)'
               PROVE  /\ ids'[q][1] \in pem'
                      /\ \A r \in Process \ {q} : \A j \in 1 .. Len(ids'[r]) :
                             ids'[r][j] # ids'[q][1]
                      /\ \A j \in 1 .. Len(meta'.ids) : meta'.ids[j] # ids'[q][1]
    BY DEF NewKeyUnknown
  <2>1. Rotating(q) /\ ids'[q][1] = ids[q][1]
    BY <1>1, <1>5 DEF Rotating
  <2>2. ids[q][1] # retired
    <3>1. CASE q = p
      BY <3>1, <1>5
    <3>2. CASE q # p
      <4>1. n \in 1 .. Len(ids[p])
        BY <1>2 DEF n
      <4> QED
        BY <3>2, <2>1, <4>1 DEF IInv, NewKeyUnknown, retired
    <3> QED
      BY <3>1, <3>2
  <2>3. \A r \in Process \ {q} : \A j \in 1 .. Len(ids'[r]) : ids'[r][j] # ids[q][1]
    <3> TAKE r \in Process \ {q}
    <3>1. CASE r = p
      <4>1. \A j \in 1 .. n : ids[p][j] # ids[q][1]
        BY <3>1, <2>1 DEF IInv, NewKeyUnknown, n
      <4> QED
        BY <3>1, <4>1, <1>2, <1>3
    <3>2. CASE r # p
      BY <3>2, <1>1, <2>1 DEF IInv, NewKeyUnknown
    <3> QED
      BY <3>1, <3>2
  <2> QED
    BY <1>1, <2>1, <2>2, <2>3 DEF IInv, NewKeyUnknown
<1>9. ActiveNotRetired'
  <2> SUFFICES ASSUME meta.kind = "whole", NEW q \in Process, NEW j \in 2 .. Len(ids'[q]),
                      ids'[q][j] = meta.ids[1]
               PROVE  j = 2 /\ Rotating(q)'
    BY <1>1 DEF ActiveNotRetired
  <2>1. CASE q # p
    BY <2>1, <1>1 DEF IInv, ActiveNotRetired, Rotating
  <2>2. CASE q = p
    <3>1. j \in 2 .. n /\ ids[p][j] = meta.ids[1]
      BY <2>2, <1>2, <1>3
    <3> QED
      BY <2>2, <3>1, <1>1 DEF IInv, ActiveNotRetired, n
  <2> QED
    BY <2>1, <2>2
<1>10. RecentKeysOnDisk'
  <2> SUFFICES ASSUME NEW k \in 1 .. made, made - k <= MaxPrevious
               PROVE  k \in pem'
    BY <1>1 DEF RecentKeysOnDisk, Key
  <2>1. k # retired
    BY <1>2, <1>4
  <2> QED
    BY <1>1, <2>1 DEF IInv, RecentKeysOnDisk, Key
<1>11. RestartCanSign'
  <2> SUFFICES ASSUME meta.kind = "whole"
               PROVE  meta.ids # <<>> /\ meta.ids[1] \in pem'
    BY <1>1 DEF RestartCanSign
  <2>1. meta.ids[1] # retired
    <3>1. n \in 2 .. n /\ n # 2
      BY <1>2
    <3>2. n = Len(ids[p])
      BY DEF n
    <3> QED
      BY <3>1, <3>2 DEF IInv, ActiveNotRetired, retired
  <2> QED
    BY <1>1, <2>1 DEF IInv, RestartCanSign
<1> QED
  BY <1>6, <1>7, <1>8, <1>9, <1>10, <1>11 DEF IInv

\* p empties the metadata file, or leaves it in pieces.
LEMMA TornStep ==
    ASSUME IInv, TypeOK', NEW p \in Process, NEW n,
           at[p] \in {"open", "write"}, at'[p] \in {"write", "ready"},
           meta' = Torn(n),
           UNCHANGED <<made, pem, ids>>,
           \A q \in Process \ {p} : at'[q] = at[q]
    PROVE  IInv'
<1>1. meta'.kind = "torn" /\ meta'.ids = <<>>
  BY DEF Torn
<1>2. ListsOrdered'
  BY <1>1 DEF IInv, ListsOrdered, Aged, HeadNewest
<1>3. ListsPresent'
  BY <1>1 DEF IInv, ListsPresent, TooMany
<1>4. NewKeyUnknown'
  BY <1>1 DEF IInv, NewKeyUnknown, Rotating
<1>5. ActiveNotRetired' /\ RestartCanSign'
  BY <1>1 DEF ActiveNotRetired, RestartCanSign
<1>6. RecentKeysOnDisk'
  BY DEF IInv, RecentKeysOnDisk, Key
<1> QED
  BY <1>2, <1>3, <1>4, <1>5, <1>6 DEF IInv

\* p publishes its list.
LEMMA PublishStep ==
    ASSUME IInv, TypeOK', NEW p \in Process,
           at[p] = "write", at'[p] = "ready",
           meta' = Whole(ids[p]),
           UNCHANGED <<made, pem, ids>>,
           \A q \in Process \ {p} : at'[q] = at[q]
    PROVE  IInv'
<1>1. meta'.kind = "whole" /\ meta'.ids = ids[p]
  BY DEF Whole
<1>2. Rotating(p) /\ ids[p] # <<>>
  BY DEF Rotating, IInv, ListsPresent
<1>3. ListsOrdered'
  BY <1>1 DEF IInv, ListsOrdered, Aged, HeadNewest
<1>4. ListsPresent'
  BY <1>1, <1>2 DEF IInv, ListsPresent, TooMany
<1>5. NewKeyUnknown'
  BY <1>1 DEF IInv, NewKeyUnknown, Rotating
<1>6. ActiveNotRetired'
  <2> SUFFICES ASSUME NEW q \in Process, NEW j \in 2 .. Len(ids[q]), ids[q][j] = ids[p][1]
               PROVE  FALSE
    BY <1>1 DEF ActiveNotRetired
  <2>1. CASE q # p
    <3>1. j \in 1 .. Len(ids[q])
      BY ListShape
    <3> QED
      BY <2>1, <3>1, <1>2 DEF IInv, NewKeyUnknown
  <2>2. CASE q = p
    <3>1. ids[p][j] < ids[p][1]
      BY <2>2 DEF IInv, ListsOrdered, HeadNewest
    <3>2. 1 \in 1 .. Len(ids[p])
      BY <1>2, ListShape
    <3>3. ids[p][1] \in Nat
      BY <3>2, ElementIsKey
    <3> QED
      BY <2>2, <3>1, <3>3
  <2> QED
    BY <2>1, <2>2
<1>7. RestartCanSign'
  BY <1>1, <1>2 DEF IInv, NewKeyUnknown, RestartCanSign
<1>8. RecentKeysOnDisk'
  BY DEF IInv, RecentKeysOnDisk, Key
<1> QED
  BY <1>3, <1>4, <1>5, <1>6, <1>7, <1>8 DEF IInv

LEMMA NextInv == IInv /\ [Next]_vars => IInv'
<1> SUFFICES ASSUME IInv, [Next]_vars
             PROVE  IInv'
  OBVIOUS
<1>a. TypeOK /\ TypeOK'
  BY TypeNext DEF IInv
<1>1. ASSUME NEW p \in Process, Load(p)
      PROVE  IInv'
  <2>1. /\ UNCHANGED <<made, pem, meta>>
        /\ \A q \in Process \ {p} : ids'[q] = ids[q] /\ at'[q] = at[q]
        /\ at'[p] = "ready" /\ ids'[p] = meta.ids /\ meta.kind = "whole"
    BY <1>1, <1>a DEF Load, TypeOK
  <2> QED
    BY <1>a, <2>1, ListChangeStep
<1>2. ASSUME NEW p \in Process, Initialize(p)
      PROVE  IInv'
  <2>1. /\ made' = made + 1
        /\ pem' = pem \cup {made + 1}
        /\ meta' = meta
        /\ \A q \in Process \ {p} : ids'[q] = ids[q] /\ at'[q] = at[q]
        /\ at[p] = "down" /\ at'[p] = "open" /\ ids'[p] = <<made + 1>>
    BY <1>2, <1>a DEF Initialize, SaveKey, TypeOK
  <2>2. ids[p] = <<>>
    BY <2>1 DEF IInv, ListsPresent
  <2>3. Len(ids[p]) = 0 /\ Len(ids'[p]) = 1 /\ ids'[p][1] = made + 1
    BY <2>1, <2>2
  <2>4. \A j \in 2 .. Len(ids[p]) + 1 : ids'[p][j] = ids[p][j - 1]
    BY <2>3
  <2>5. Rotating(p)' /\ at'[p] # "delete" /\ at[p] \in {"down", "ready"}
    BY <2>1 DEF Rotating
  <2>6. Len(ids'[p]) = Len(ids[p]) + 1
    BY <2>3
  <2> QED
    BY <1>a, <2>1, <2>3, <2>4, <2>5, <2>6, NewKeyStep
<1>3. ASSUME NEW p \in Process, Rotate(p)
      PROVE  IInv'
  <2>1. /\ made' = made + 1
        /\ pem' = pem \cup {made + 1}
        /\ meta' = meta
        /\ \A q \in Process \ {p} : ids'[q] = ids[q] /\ at'[q] = at[q]
        /\ at[p] = "ready"
        /\ ids'[p] = Promote(ids[p], made + 1)
        /\ at'[p] = IF TooMany(ids'[p]) THEN "delete" ELSE "open"
    BY <1>3, <1>a DEF Rotate, SaveKey, TypeOK
  <2>2. ids[p] \in Seq(Nat) /\ made + 1 \in Nat
    BY <1>a DEF TypeOK, Key
  <2>3. /\ Len(ids'[p]) = Len(ids[p]) + 1
        /\ ids'[p][1] = made + 1
        /\ \A j \in 2 .. Len(ids[p]) + 1 : ids'[p][j] = ids[p][j - 1]
    BY <2>1, <2>2 DEF Promote
  <2>4. Rotating(p)'
    BY <2>1 DEF Rotating
  <2> QED
    BY <1>a, <2>1, <2>3, <2>4, NewKeyStep
<1>4. ASSUME NEW p \in Process, Delete(p)
      PROVE  IInv'
  BY <1>4, <1>a, DeleteStep
<1>5. ASSUME NEW p \in Process, OpenMetadata(p)
      PROVE  IInv'
  <2>1. /\ at[p] = "open" /\ at'[p] = "write" /\ meta' = Torn(0)
        /\ UNCHANGED <<made, pem, ids>>
        /\ \A q \in Process \ {p} : at'[q] = at[q]
    BY <1>5, <1>a DEF OpenMetadata, TypeOK
  <2> QED
    BY <1>a, <2>1, TornStep
<1>6. ASSUME NEW p \in Process, WriteMetadata(p)
      PROVE  IInv'
  <2>1. /\ at[p] = "write" /\ at'[p] = "ready"
        /\ meta' = Torn(meta.size) \/ meta' = Whole(ids[p])
        /\ UNCHANGED <<made, pem, ids>>
        /\ \A q \in Process \ {p} : at'[q] = at[q]
    BY <1>6, <1>a DEF WriteMetadata, TypeOK
  <2>2. CASE meta' = Torn(meta.size)
    BY <1>a, <2>1, <2>2, TornStep
  <2>3. CASE meta' = Whole(ids[p])
    BY <1>a, <2>1, <2>3, PublishStep
  <2> QED
    BY <2>1, <2>2, <2>3
<1>7. ASSUME NEW p \in Process, NEW k \in 1 .. MaxKeys, GetKey(p, k)
      PROVE  IInv'
  BY <1>7, <1>a, QuietStep DEF GetKey
<1>8. ASSUME NEW p \in Process, Crash(p)
      PROVE  IInv'
  <2>1. /\ UNCHANGED <<made, pem, meta>>
        /\ \A q \in Process \ {p} : ids'[q] = ids[q] /\ at'[q] = at[q]
        /\ at'[p] = "down" /\ ids'[p] = <<>>
    BY <1>8, <1>a DEF Crash, TypeOK
  <2> QED
    BY <1>a, <2>1, ListChangeStep
<1>9. CASE UNCHANGED vars
  BY <1>9, <1>a, QuietStep DEF vars
<1> QED
  BY <1>1, <1>2, <1>3, <1>4, <1>5, <1>6, <1>7, <1>8, <1>9 DEF Next

----------------------------------------------------------------------------
(* The theorems                                                               *)

\* The strengthened invariant holds in every reachable state.
THEOREM Invariance == Spec => []IInv
  BY InitInv, NextInv, PTL DEF Spec

\* Every variable keeps its type.
THEOREM TypeCorrect == Spec => []TypeOK
<1>1. IInv => TypeOK
  BY DEF IInv
<1> QED
  BY <1>1, Invariance, PTL

\* A key's file outlives the generation of MaxPrevious further keys, however many
\* processes share the directory and wherever they die.
THEOREM RecentKeysTheorem == Spec => []RecentKeysOnDisk
<1>1. IInv => RecentKeysOnDisk
  BY DEF IInv
<1> QED
  BY <1>1, Invariance, PTL

\* Metadata that can be read names an active key whose file is there, however many
\* processes share the directory and wherever they die.
THEOREM RestartTheorem == Spec => []RestartCanSign
<1>1. IInv => RestartCanSign
  BY DEF IInv
<1> QED
  BY <1>1, Invariance, PTL

----------------------------------------------------------------------------
(* OnlyOldestMissing: one process on its directory.                           *)

Distinct(s) == \A i, j \in 1 .. Len(s) : s[i] = s[j] => i = j

\* The first n keys of a list have their files.
OnDisk(s, n) == \A j \in 1 .. Len(s) : j <= n => s[j] \in pem

\* What the only process lists, and how far that is from what its metadata lists.
Sole(p) ==
    /\ at[p] = "ready" => meta.kind = "whole" /\ ids[p] = meta.ids
    /\ at[p] \in {"delete", "open"} /\ meta.kind = "whole" =>
           /\ Len(ids[p]) <= Len(meta.ids) + 1
           /\ \A j \in 2 .. Len(ids[p]) : ids[p][j] = meta.ids[j - 1]
    /\ Rotating(p) => OnDisk(ids[p], MaxPrevious + 1)
    /\ at[p] = "write" => meta.kind # "whole" /\ meta.size = 0

ListsDistinct == Distinct(meta.ids) /\ \A p \in Process : Distinct(ids[p])

SoleInv == /\ \A p \in Process : at[p] # "down" => p \in deployed
           /\ ListsDistinct
           /\ OneProcess => /\ meta.kind = "whole" => OnDisk(meta.ids, MaxPrevious)
                            /\ \A p \in Process : Sole(p)

LEMMA SoleInit == Init => SoleInv
<1> SUFFICES ASSUME Init
             PROVE  SoleInv
  OBVIOUS
<1>1. \A p \in Process : ids[p] = <<>> /\ at[p] = "down"
  BY DEF Init
<1>2. meta.kind = "absent" /\ meta.ids = <<>>
  BY DEF Init, Absent
<1>3. Len(<<>>) = 0
  OBVIOUS
<1> QED
  BY <1>1, <1>2, <1>3 DEF SoleInv, ListsDistinct, Distinct, Sole, Rotating

\* A step of process p leaves the others, and if p is alone there are none.
LEMMA SoleStep ==
    ASSUME IInv, SoleInv, NEW p \in Process, p \in deployed, UNCHANGED deployed,
           \A q \in Process \ {p} : ids'[q] = ids[q] /\ at'[q] = at[q],
           Distinct(meta.ids)', Distinct(ids[p])',
           OneProcess => /\ meta'.kind = "whole" => OnDisk(meta.ids, MaxPrevious)'
                         /\ Sole(p)'
    PROVE  SoleInv'
<1>1. ASSUME OneProcess, NEW q \in Process, q # p
      PROVE  Sole(q)'
  <2>1. q \notin deployed
    BY <1>1 DEF OneProcess
  <2>2. at'[q] = "down"
    BY <1>1, <2>1 DEF SoleInv
  <2> QED
    BY <2>2 DEF Sole, Rotating
<1>2. \A q \in Process : Distinct(ids[q])'
  BY DEF SoleInv, ListsDistinct, Distinct
<1> QED
  BY <1>1, <1>2 DEF SoleInv, ListsDistinct, OneProcess

\* A new key at the head of a list is in no list yet.
LEMMA DistinctPromote ==
    ASSUME IInv, SoleInv, NEW p \in Process,
           Len(ids'[p]) = Len(ids[p]) + 1,
           ids'[p][1] = made + 1,
           \A j \in 2 .. Len(ids[p]) + 1 : ids'[p][j] = ids[p][j - 1]
    PROVE  Distinct(ids[p])'
<1>1. Len(ids[p]) \in Nat /\ made \in Nat
  BY ListShape
<1>2. \A j \in 1 .. Len(ids[p]) : ids[p][j] # made + 1
  BY ElementIsKey
<1> SUFFICES ASSUME NEW i \in 1 .. Len(ids[p]) + 1, NEW j \in 1 .. Len(ids[p]) + 1,
                    ids'[p][i] = ids'[p][j]
             PROVE  i = j
  BY DEF Distinct
<1>3. ASSUME NEW k \in 1 .. Len(ids[p]) + 1, k # 1
      PROVE  ids'[p][k] = ids[p][k - 1] /\ k - 1 \in 1 .. Len(ids[p])
  BY <1>1, <1>3
<1>4. CASE i = 1 \/ j = 1
  BY <1>2, <1>3, <1>4
<1>5. CASE i # 1 /\ j # 1
  <2>1. ids[p][i - 1] = ids[p][j - 1] /\ i - 1 \in 1 .. Len(ids[p]) /\ j - 1 \in 1 .. Len(ids[p])
    BY <1>3, <1>5
  <2>2. i - 1 = j - 1
    BY <2>1 DEF SoleInv, ListsDistinct, Distinct
  <2> QED
    BY <2>2
<1> QED
  BY <1>4, <1>5

LEMMA SoleDelete ==
    ASSUME IInv, SoleInv, NEW p \in Process, Delete(p)
    PROVE  SoleInv'
<1> DEFINE n == Len(ids[p])
<1>a. TypeOK
  BY DEF IInv
<1>1. /\ at[p] = "delete"
      /\ pem' = pem \ {ids[p][n]}
      /\ ids' = [ids EXCEPT ![p] = SubSeq(@, 1, Len(@) - 1)]
      /\ at' = [at EXCEPT ![p] = IF TooMany(ids'[p]) THEN "delete" ELSE "open"]
      /\ UNCHANGED <<deployed, made, meta>>
  BY DEF Delete
<1>b. ids[p] \in Seq(Key) /\ n \in Nat
  BY <1>a DEF TypeOK
<1>c. TooMany(ids[p])
  BY <1>1 DEF IInv, ListsPresent
<1>2. ids[p] \in Seq(Key) /\ n \in Nat /\ n > MaxPrevious + 1
  BY <1>b, <1>c DEF TooMany
<1>3. ids[p] # <<>>
  BY <1>1 DEF IInv, ListsPresent
<1>4. ids'[p] = SubSeq(ids[p], 1, n - 1)
  BY <1>a, <1>1 DEF TypeOK
<1>5. /\ Len(ids'[p]) = n - 1
      /\ \A j \in 1 .. n - 1 : ids'[p][j] = ids[p][j]
  BY <1>2, <1>3, <1>4, ShorterShape
<1>6. \A q \in Process \ {p} : ids'[q] = ids[q] /\ at'[q] = at[q]
  BY <1>a, <1>1 DEF TypeOK
<1>7. at'[p] \in {"delete", "open"}
  BY <1>a, <1>1 DEF TypeOK
<1>8. Distinct(ids[p]) /\ Distinct(meta.ids)
  BY DEF SoleInv, ListsDistinct
<1>9. p \in deployed
  BY <1>1 DEF SoleInv
<1> HIDE DEF n
<1>10. Distinct(ids[p])' /\ Distinct(meta.ids)'
  <2>1. \A j \in 1 .. n - 1 : j \in 1 .. n
    BY <1>2
  <2>2. \A i, j \in 1 .. n : ids[p][i] = ids[p][j] => i = j
    BY <1>8 DEF Distinct, n
  <2> QED
    BY <1>1, <1>5, <1>8, <2>1, <2>2 DEF Distinct
<1>11. ASSUME OneProcess
       PROVE  (meta'.kind = "whole" => OnDisk(meta.ids, MaxPrevious)') /\ Sole(p)'
  <2>1. Sole(p) /\ (meta.kind = "whole" => OnDisk(meta.ids, MaxPrevious))
    BY <1>11 DEF SoleInv
  <2>2. OnDisk(ids[p], MaxPrevious + 1)
    BY <1>1, <2>1 DEF Sole, Rotating
  <2>3. OnDisk(ids[p], MaxPrevious + 1)'
    <3> SUFFICES ASSUME NEW j \in 1 .. n - 1, j <= MaxPrevious + 1
                 PROVE  ids[p][j] \in pem /\ ids[p][j] # ids[p][n]
      BY <1>1, <1>5 DEF OnDisk
    <3>1. j \in 1 .. n /\ n \in 1 .. n /\ j # n
      BY <1>2
    <3>2. ids[p][j] \in pem
      BY <2>2, <3>1 DEF OnDisk, n
    <3>3. ids[p][j] # ids[p][n]
      BY <1>8, <3>1 DEF Distinct, n
    <3> QED
      BY <3>2, <3>3
  <2>4. ASSUME meta.kind = "whole"
        PROVE  OnDisk(meta.ids, MaxPrevious)'
    <3>1. n <= Len(meta.ids) + 1 /\ \A j \in 2 .. n : ids[p][j] = meta.ids[j - 1]
      BY <1>1, <2>1, <2>4 DEF Sole, n
    <3>2. Len(meta.ids) \in Nat
      BY ListShape
    <3>3. n - 1 \in 1 .. Len(meta.ids) /\ ids[p][n] = meta.ids[n - 1] /\ n - 1 > MaxPrevious
      BY <1>2, <3>1, <3>2, KeyAssumption
    <3> SUFFICES ASSUME NEW j \in 1 .. Len(meta.ids), j <= MaxPrevious
                 PROVE  meta.ids[j] \in pem /\ meta.ids[j] # ids[p][n]
      BY <1>1 DEF OnDisk
    <3>4. meta.ids[j] \in pem
      BY <2>1, <2>4 DEF OnDisk
    <3>5. j # n - 1
      BY <1>2, <3>3, KeyAssumption
    <3>6. meta.ids[j] # meta.ids[n - 1]
      BY <1>8, <3>3, <3>5 DEF Distinct
    <3> QED
      BY <3>3, <3>4, <3>6
  <2>5. ASSUME meta.kind = "whole"
        PROVE  /\ Len(ids'[p]) <= Len(meta.ids) + 1
               /\ \A j \in 2 .. Len(ids'[p]) : ids'[p][j] = meta.ids[j - 1]
    <3>1. n <= Len(meta.ids) + 1 /\ \A j \in 2 .. n : ids[p][j] = meta.ids[j - 1]
      BY <1>1, <2>1, <2>5 DEF Sole, n
    <3>2. Len(meta.ids) \in Nat
      BY ListShape
    <3> QED
      BY <1>2, <1>5, <3>1, <3>2
  <2> QED
    BY <1>1, <1>7, <2>3, <2>4, <2>5 DEF Sole
<1> QED
  BY <1>1, <1>6, <1>9, <1>10, <1>11, SoleStep

LEMMA SoleNext == IInv /\ SoleInv /\ [Next]_vars => SoleInv'
<1> SUFFICES ASSUME IInv, SoleInv, [Next]_vars
             PROVE  SoleInv'
  OBVIOUS
<1>a. TypeOK /\ ListsDistinct /\ MaxPrevious \in Nat
  BY KeyAssumption DEF IInv, SoleInv
<1>b. \A p \in Process : at[p] # "down" => p \in deployed
  BY DEF SoleInv
<1>1. ASSUME NEW p \in Process, Load(p)
      PROVE  SoleInv'
  <2>1. /\ UNCHANGED <<deployed, made, pem, meta>> /\ p \in deployed
        /\ \A q \in Process \ {p} : ids'[q] = ids[q] /\ at'[q] = at[q]
        /\ at'[p] = "ready" /\ ids'[p] = meta.ids /\ meta.kind = "whole"
    BY <1>1, <1>a DEF Load, TypeOK
  <2>2. Distinct(ids[p])' /\ Distinct(meta.ids)'
    BY <1>a, <2>1 DEF ListsDistinct, Distinct
  <2>3. Sole(p)'
    BY <2>1 DEF Sole, Rotating
  <2>4. OneProcess => OnDisk(meta.ids, MaxPrevious)'
    BY <2>1 DEF SoleInv, OnDisk
  <2> QED
    BY <2>1, <2>2, <2>3, <2>4, SoleStep
<1>2. ASSUME NEW p \in Process, Initialize(p)
      PROVE  SoleInv'
  <2>1. /\ made' = made + 1
        /\ pem' = pem \cup {made + 1}
        /\ UNCHANGED <<deployed, meta>> /\ meta.kind = "absent" /\ p \in deployed
        /\ \A q \in Process \ {p} : ids'[q] = ids[q] /\ at'[q] = at[q]
        /\ at'[p] = "open" /\ ids'[p] = <<made + 1>>
    BY <1>2, <1>a DEF Initialize, SaveKey, TypeOK
  <2>2. Len(ids'[p]) = 1 /\ ids'[p][1] = made + 1
    BY <2>1
  <2>3. Distinct(ids[p])' /\ Distinct(meta.ids)'
    BY <1>a, <2>1, <2>2 DEF ListsDistinct, Distinct
  <2>4. Sole(p)'
    BY <2>1, <2>2 DEF Sole, Rotating, OnDisk
  <2> QED
    BY <2>1, <2>3, <2>4, SoleStep
<1>3. ASSUME NEW p \in Process, Rotate(p)
      PROVE  SoleInv'
  <2>1. /\ made' = made + 1
        /\ pem' = pem \cup {made + 1}
        /\ UNCHANGED <<deployed, meta>>
        /\ \A q \in Process \ {p} : ids'[q] = ids[q] /\ at'[q] = at[q]
        /\ at[p] = "ready" /\ p \in deployed
        /\ ids'[p] = Promote(ids[p], made + 1)
        /\ at'[p] \in {"delete", "open"}
    BY <1>3, <1>a, <1>b DEF Rotate, SaveKey, TypeOK
  <2>2. ids[p] \in Seq(Nat) /\ made + 1 \in Nat
    BY <1>a DEF TypeOK, Key
  <2>3. /\ Len(ids'[p]) = Len(ids[p]) + 1
        /\ ids'[p][1] = made + 1
        /\ \A j \in 2 .. Len(ids[p]) + 1 : ids'[p][j] = ids[p][j - 1]
    BY <2>1, <2>2 DEF Promote
  <2>4. Distinct(ids[p])' /\ Distinct(meta.ids)'
    BY <1>a, <2>1, <2>3, DistinctPromote DEF ListsDistinct, Distinct
  <2>5. ASSUME OneProcess
        PROVE  (meta'.kind = "whole" => OnDisk(meta.ids, MaxPrevious)') /\ Sole(p)'
    <3>1. meta.kind = "whole" /\ ids[p] = meta.ids /\ OnDisk(meta.ids, MaxPrevious)
      BY <2>1, <2>5 DEF SoleInv, Sole
    <3>2. OnDisk(meta.ids, MaxPrevious)'
      BY <2>1, <3>1 DEF OnDisk
    <3>3. Len(ids[p]) \in Nat
      BY ListShape
    <3>4. OnDisk(ids[p], MaxPrevious + 1)'
      <4> SUFFICES ASSUME NEW j \in 1 .. Len(ids[p]) + 1, j <= MaxPrevious + 1
                   PROVE  ids'[p][j] \in pem \cup {made + 1}
        BY <2>1, <2>3 DEF OnDisk
      <4>1. CASE j = 1
        BY <2>3, <4>1
      <4>2. CASE j # 1
        <5>1. j - 1 \in 1 .. Len(ids[p]) /\ j - 1 <= MaxPrevious /\ ids'[p][j] = ids[p][j - 1]
          BY <1>a, <2>3, <3>3, <4>2
        <5> QED
          BY <3>1, <5>1 DEF OnDisk
      <4> QED
        BY <4>1, <4>2
    <3>5. /\ Len(ids'[p]) <= Len(meta.ids) + 1
          /\ \A j \in 2 .. Len(ids'[p]) : ids'[p][j] = meta.ids[j - 1]
      BY <2>3, <3>1, <3>3
    <3> QED
      BY <2>1, <3>2, <3>4, <3>5 DEF Sole
  <2> QED
    BY <2>1, <2>4, <2>5, SoleStep
<1>4. ASSUME NEW p \in Process, Delete(p)
      PROVE  SoleInv'
  BY <1>4, SoleDelete
<1>5. ASSUME NEW p \in Process, OpenMetadata(p)
      PROVE  SoleInv'
  <2>1. /\ at[p] = "open" /\ at'[p] = "write" /\ meta' = Torn(0) /\ p \in deployed
        /\ UNCHANGED <<deployed, made, pem, ids>>
        /\ \A q \in Process \ {p} : at'[q] = at[q]
    BY <1>5, <1>a, <1>b DEF OpenMetadata, TypeOK
  <2>2. meta'.kind = "torn" /\ meta'.ids = <<>> /\ meta'.size = 0
    BY <2>1 DEF Torn
  <2>3. Len(<<>>) = 0
    OBVIOUS
  <2>4. Distinct(ids[p])' /\ Distinct(meta.ids)'
    BY <1>a, <2>1, <2>2, <2>3 DEF ListsDistinct, Distinct
  <2>5. OneProcess => Sole(p)'
    BY <2>1, <2>2 DEF SoleInv, Sole, Rotating, OnDisk
  <2> QED
    BY <2>1, <2>2, <2>4, <2>5, SoleStep
<1>6. ASSUME NEW p \in Process, WriteMetadata(p)
      PROVE  SoleInv'
  <2>1. /\ at[p] = "write" /\ at'[p] = "ready" /\ p \in deployed
        /\ meta' = IF meta.size > Len(ids[p]) THEN Torn(meta.size) ELSE Whole(ids[p])
        /\ UNCHANGED <<deployed, made, pem, ids>>
        /\ \A q \in Process \ {p} : at'[q] = at[q]
    BY <1>6, <1>a, <1>b DEF WriteMetadata, TypeOK
  <2>2. meta'.ids = <<>> \/ meta'.ids = ids[p]
    BY <2>1 DEF Torn, Whole
  <2>3. Len(<<>>) = 0
    OBVIOUS
  <2>4. Distinct(ids[p])' /\ Distinct(meta.ids)'
    BY <1>a, <2>1, <2>2, <2>3 DEF ListsDistinct, Distinct
  <2>5. ASSUME OneProcess
        PROVE  OnDisk(meta.ids, MaxPrevious)' /\ Sole(p)'
    <3>1. meta.size = 0 /\ OnDisk(ids[p], MaxPrevious + 1)
      BY <2>1, <2>5 DEF SoleInv, Sole, Rotating
    <3>2. Len(ids[p]) \in Nat
      BY ListShape
    <3>3. meta'.kind = "whole" /\ meta'.ids = ids[p]
      BY <2>1, <3>1, <3>2 DEF Whole
    <3>4. OnDisk(meta.ids, MaxPrevious)'
      BY <1>a, <2>1, <3>1, <3>2, <3>3 DEF OnDisk
    <3>5. Sole(p)'
      BY <2>1, <3>3 DEF Sole, Rotating
    <3> QED
      BY <3>4, <3>5
  <2> QED
    BY <2>1, <2>4, <2>5, SoleStep
<1>7. ASSUME NEW p \in Process, Crash(p)
      PROVE  SoleInv'
  <2>1. /\ UNCHANGED <<deployed, made, pem, meta>> /\ p \in deployed
        /\ \A q \in Process \ {p} : ids'[q] = ids[q] /\ at'[q] = at[q]
        /\ at'[p] = "down" /\ ids'[p] = <<>>
    BY <1>7, <1>a, <1>b DEF Crash, TypeOK
  <2>2. Len(<<>>) = 0
    OBVIOUS
  <2>3. Distinct(ids[p])' /\ Distinct(meta.ids)'
    BY <1>a, <2>1, <2>2 DEF ListsDistinct, Distinct
  <2>4. Sole(p)' /\ (OneProcess /\ meta'.kind = "whole" => OnDisk(meta.ids, MaxPrevious)')
    BY <2>1 DEF Sole, Rotating, SoleInv, OnDisk
  <2> QED
    BY <2>1, <2>3, <2>4, SoleStep
<1>8. ASSUME UNCHANGED <<deployed, pem, meta, at, ids>>
      PROVE  SoleInv'
  BY <1>8 DEF SoleInv, ListsDistinct, Distinct, OneProcess, OnDisk, Sole, Rotating
<1>9. ASSUME NEW p \in Process, NEW k \in 1 .. MaxKeys, GetKey(p, k)
      PROVE  SoleInv'
  BY <1>8, <1>9 DEF GetKey
<1> QED
  BY <1>1, <1>2, <1>3, <1>4, <1>5, <1>6, <1>7, <1>8, <1>9 DEF Next, vars

\* A process alone on its directory can load every key it lists but the oldest of a
\* full list, wherever it died in the middle of a rotation (OnlyOldestMissing).
THEOREM OldestTheorem == Spec => []OnlyOldestMissing
<1>1. SoleInv => OnlyOldestMissing
  BY DEF SoleInv, Sole, OnDisk, OnlyOldestMissing
<1>2. Spec => []SoleInv
  BY SoleInit, SoleNext, Invariance, PTL DEF Spec
<1> QED
  BY <1>1, <1>2, PTL

----------------------------------------------------------------------------
(* The keys that processes hold in memory.                                    *)

\* The key that a process deletes is old, and not the one it signs with.
LEMMA RetiredIsOld ==
    ASSUME IInv, NEW p \in Process, Delete(p)
    PROVE  LET retired == ids[p][Len(ids[p])]
           IN  /\ retired # ids'[p][1]
               /\ made - retired > MaxPrevious
               /\ cache' = [cache EXCEPT ![p] = @ \ {retired}]
<1> DEFINE n == Len(ids[p])
<1>1. /\ at[p] = "delete"
      /\ ids'[p] = SubSeq(ids[p], 1, n - 1)
      /\ cache' = [cache EXCEPT ![p] = @ \ {ids[p][n]}]
  BY DEF Delete, IInv, TypeOK
<1>2. n \in Nat /\ n >= 3 /\ n >= MaxPrevious + 2 /\ MaxPrevious \in Nat
  BY <1>1, ListShape, KeyAssumption DEF IInv, ListsPresent, TooMany
<1>3. ids[p] \in Seq(Key) /\ ids[p] # <<>>
  BY <1>1 DEF IInv, TypeOK, ListsPresent
<1>4. ids'[p][1] = ids[p][1]
  <2>1. 1 \in 1 .. n - 1
    BY <1>2
  <2> QED
    BY <1>1, <1>3, <2>1, ShorterShape
<1>5. 1 \in 1 .. n /\ n \in 1 .. n /\ n \in 2 .. n
  <2> HIDE DEF n
  <2> QED
    BY <1>2
<1>6. ids[p][n] \in Nat /\ ids[p][1] \in Nat /\ made \in Nat
  BY <1>5, ElementIsKey
<1>7. ids[p][n] <= made - (n - 1) /\ ids[p][n] < ids[p][1]
  BY <1>5 DEF IInv, ListsOrdered, Aged, HeadNewest
<1>8. made - ids[p][n] > MaxPrevious
  <2> DEFINE k == ids[p][n]
  <2>1. k <= made - (n - 1) /\ k \in Nat
    BY <1>6, <1>7
  <2> HIDE DEF n, k
  <2>2. made - k > MaxPrevious
    BY <1>2, <1>6, <2>1
  <2> QED
    BY <2>2 DEF n, k
<1>9. ids[p][n] # ids'[p][1]
  BY <1>4, <1>6, <1>7
<1> QED
  BY <1>1, <1>8, <1>9

\* Only the deletion of a key, a start and a death take keys from a memory.
LEMMA InHandStep == IInv /\ [Next]_vars => [ForgetsOnlyOld]_vars
<1> SUFFICES ASSUME IInv, [Next]_vars,
                    NEW p \in Process, at[p] # "down", at'[p] # "down",
                    NEW k \in cache[p] \ cache'[p]
             PROVE  k # ids'[p][1] /\ made' - k > MaxPrevious
  BY DEF ForgetsOnlyOld
<1>1. cache \in [Process -> SUBSET Key] /\ at \in [Process -> {"down", "ready", "delete", "open", "write"}]
  BY DEF IInv, TypeOK
<1>2. ASSUME NEW q \in Process, Load(q) \/ Crash(q)
      PROVE  FALSE
  BY <1>1, <1>2 DEF Load, Crash
<1>3. ASSUME NEW q \in Process, Initialize(q) \/ Rotate(q)
      PROVE  FALSE
  BY <1>1, <1>3 DEF Initialize, Rotate, SaveKey
<1>4. ASSUME NEW q \in Process, OpenMetadata(q) \/ WriteMetadata(q)
      PROVE  FALSE
  BY <1>4 DEF OpenMetadata, WriteMetadata
<1>5. ASSUME NEW q \in Process, NEW m \in 1 .. MaxKeys, GetKey(q, m)
      PROVE  FALSE
  BY <1>1, <1>5 DEF GetKey
<1>6. ASSUME NEW q \in Process, Delete(q)
      PROVE  k # ids'[p][1] /\ made' - k > MaxPrevious
  <2>1. cache' = [cache EXCEPT ![q] = @ \ {ids[q][Len(ids[q])]}]
    BY <1>6, RetiredIsOld
  <2>2. q = p /\ k = ids[q][Len(ids[q])]
    BY <1>1, <2>1
  <2>3. made' = made
    BY <1>6 DEF Delete
  <2> QED
    BY <1>6, <2>2, <2>3, RetiredIsOld
<1>7. ~ UNCHANGED vars
  BY DEF vars
<1> QED
  BY <1>2, <1>3, <1>4, <1>5, <1>6, <1>7 DEF Next

\* For any number of processes that rotate, die and start, a running process loses
\* from memory only keys that are old and not its own active key (KeysStayInHand).
THEOREM InHandTheorem == Spec => KeysStayInHand
  BY Invariance, InHandStep, PTL DEF Spec, KeysStayInHand

\* A process that is down holds nothing, and one that is alone holds what is there.
MemoryInv == /\ \A p \in Process : at[p] = "down" => cache[p] = {}
             /\ RetiredForgotten

\* A step of process p that adds to its memory only keys that are in the directory,
\* and deletes from the directory only what p does not hold.
LEMMA MemoryStep ==
    ASSUME SoleInv, MemoryInv, NEW p \in Process, p \in deployed, UNCHANGED deployed,
           \A q \in Process \ {p} : cache'[q] = cache[q] /\ at'[q] = at[q],
           at'[p] = "down" => cache'[p] = {},
           OneProcess => cache'[p] \subseteq pem'
    PROVE  MemoryInv'
<1>1. ASSUME OneProcess, NEW q \in Process, q # p
      PROVE  cache'[q] = {}
  <2>1. q \notin deployed
    BY <1>1 DEF OneProcess
  <2>2. at[q] = "down"
    BY <2>1 DEF SoleInv
  <2> QED
    BY <1>1, <2>2 DEF MemoryInv
<1>2. RetiredForgotten'
  BY <1>1 DEF RetiredForgotten, OneProcess
<1> QED
  BY <1>2 DEF MemoryInv

LEMMA MemoryNext == IInv /\ SoleInv /\ MemoryInv /\ [Next]_vars => MemoryInv'
<1> SUFFICES ASSUME IInv, SoleInv, MemoryInv, [Next]_vars
             PROVE  MemoryInv'
  OBVIOUS
<1>a. /\ cache \in [Process -> SUBSET Key]
      /\ at \in [Process -> {"down", "ready", "delete", "open", "write"}]
  BY DEF IInv, TypeOK
<1>b. \A p \in Process : OneProcess => cache[p] \subseteq pem
  BY DEF MemoryInv, RetiredForgotten
<1>c. \A p \in Process : at[p] # "down" => p \in deployed
  BY DEF SoleInv
<1>1. ASSUME NEW p \in Process, Load(p) \/ Crash(p)
      PROVE  MemoryInv'
  <2>1. /\ p \in deployed /\ deployed' = deployed /\ cache'[p] = {}
        /\ \A q \in Process \ {p} : cache'[q] = cache[q] /\ at'[q] = at[q]
    BY <1>1, <1>a, <1>c DEF Load, Crash
  <2> QED
    BY <2>1, MemoryStep
<1>2. ASSUME NEW p \in Process, Initialize(p) \/ Rotate(p)
      PROVE  MemoryInv'
  <2>1. /\ p \in deployed /\ deployed' = deployed
        /\ pem' = pem \cup {made + 1} /\ cache'[p] = cache[p] \cup {made + 1}
        /\ \A q \in Process \ {p} : cache'[q] = cache[q] /\ at'[q] = at[q]
    BY <1>2, <1>a, <1>c DEF Initialize, Rotate, SaveKey
  <2>2. at'[p] # "down"
    BY <1>2, <1>a DEF Initialize, Rotate
  <2> QED
    BY <1>b, <2>1, <2>2, MemoryStep
<1>3. ASSUME NEW p \in Process, Delete(p)
      PROVE  MemoryInv'
  <2> DEFINE retired == ids[p][Len(ids[p])]
  <2>1. /\ p \in deployed /\ deployed' = deployed
        /\ pem' = pem \ {retired} /\ cache'[p] = cache[p] \ {retired}
        /\ \A q \in Process \ {p} : cache'[q] = cache[q] /\ at'[q] = at[q]
    BY <1>3, <1>a, <1>c DEF Delete
  <2>2. at'[p] # "down"
    BY <1>3, <1>a DEF Delete
  <2> HIDE DEF retired
  <2> QED
    BY <1>b, <2>1, <2>2, MemoryStep
<1>4. ASSUME NEW p \in Process, OpenMetadata(p) \/ WriteMetadata(p)
      PROVE  MemoryInv'
  <2>1. /\ p \in deployed /\ UNCHANGED <<deployed, pem, cache>>
        /\ \A q \in Process \ {p} : at'[q] = at[q]
    BY <1>4, <1>a, <1>c DEF OpenMetadata, WriteMetadata
  <2>2. at'[p] # "down"
    BY <1>4, <1>a DEF OpenMetadata, WriteMetadata
  <2> QED
    BY <1>b, <2>1, <2>2, MemoryStep
<1>5. ASSUME NEW p \in Process, NEW k \in 1 .. MaxKeys, GetKey(p, k)
      PROVE  MemoryInv'
  <2>1. /\ p \in deployed /\ UNCHANGED <<deployed, pem, at>> /\ at[p] = "ready"
        /\ k \in pem /\ cache'[p] = cache[p] \cup {k}
        /\ \A q \in Process \ {p} : cache'[q] = cache[q]
    BY <1>5, <1>a, <1>c DEF GetKey
  <2> QED
    BY <1>b, <2>1, MemoryStep
<1>6. CASE UNCHANGED vars
  BY <1>6 DEF vars, MemoryInv, RetiredForgotten, OneProcess
<1> QED
  BY <1>1, <1>2, <1>3, <1>4, <1>5, <1>6 DEF Next

\* A process alone on its directory, wherever it died, holds no key in memory whose
\* file was deleted (RetiredForgotten).
THEOREM ForgottenTheorem == Spec => []RetiredForgotten
<1>1. Init => MemoryInv
  BY DEF Init, MemoryInv, RetiredForgotten
<1>2. Spec => []SoleInv
  BY SoleInit, SoleNext, Invariance, PTL DEF Spec
<1>3. Spec => []MemoryInv
  BY <1>1, <1>2, MemoryNext, Invariance, PTL DEF Spec
<1>4. MemoryInv => RetiredForgotten
  BY DEF MemoryInv
<1> QED
  BY <1>3, <1>4, PTL

----------------------------------------------------------------------------
(* The directory implements the abstract keys.                                *)

\* The key a restart would sign with, under a name of its own.
Active == IF meta.kind = "whole" THEN meta.ids[1] ELSE 0

\* A step that leaves the directory and the metadata alone.
LEMMA PrivateStep ==
    ASSUME UNCHANGED <<made, pem, meta>>
    PROVE  [Abstract!Next]_(Abstract!keys)
  BY DEF Abstract!keys

\* A key is generated, and the metadata does not know yet.
LEMMA SaveKeyGenerates ==
    ASSUME NEW p \in Process, SaveKey(p), UNCHANGED meta
    PROVE  Abstract!Next
<1>1. Active' = Active
  BY DEF Active
<1>2. Abstract!Generate
  BY <1>1 DEF SaveKey, Abstract!Generate, Active
<1> QED
  BY <1>2 DEF Abstract!Next

\* The last key of a list that is too long is old, and no restart would sign with
\* it; another process may have deleted it before.
LEMMA DeleteRetires ==
    ASSUME IInv, NEW p \in Process, Delete(p)
    PROVE  [Abstract!Next]_(Abstract!keys)
<1> DEFINE n == Len(ids[p])
<1>1. at[p] = "delete" /\ pem' = pem \ {ids[p][n]} /\ UNCHANGED <<made, meta>>
  BY DEF Delete
<1>2. n \in Nat /\ n >= MaxPrevious + 2 /\ n >= 3 /\ MaxPrevious \in Nat
  BY <1>1, ListShape, KeyAssumption DEF IInv, ListsPresent, TooMany
<1>3. n \in 1 .. n /\ n \in 2 .. n /\ n # 2
  <2> HIDE DEF n
  <2> QED
    BY <1>2
<1>4. PICK k \in Nat : k = ids[p][n] /\ 1 <= k /\ made \in Nat
  BY <1>3, ElementIsKey
<1>5. k <= made - (n - 1)
  BY <1>3, <1>4 DEF IInv, ListsOrdered, Aged
<1>6. made - k > MaxPrevious
  <2> HIDE DEF n
  <2> QED
    BY <1>2, <1>4, <1>5
<1>7. k # Active
  <2>1. meta.kind = "whole" => ids[p][n] # meta.ids[1]
    BY <1>3 DEF IInv, ActiveNotRetired
  <2> QED
    BY <1>4, <2>1 DEF Active
<1>8. Active' = Active
  BY <1>1 DEF Active
<1>9. CASE k \in pem
  <2>1. Abstract!Retire(k)
    BY <1>1, <1>4, <1>6, <1>7, <1>8 DEF Abstract!Retire, Active
  <2> QED
    BY <1>9, <2>1 DEF Abstract!Next
<1>10. CASE k \notin pem
  <2>1. pem' = pem
    BY <1>1, <1>4, <1>10
  <2> QED
    BY <1>1, <2>1, PrivateStep
<1> QED
  BY <1>9, <1>10

\* The metadata file is emptied, or left in pieces.
LEMMA TornWithdraws ==
    ASSUME NEW n, meta' = Torn(n), UNCHANGED <<made, pem>>
    PROVE  Abstract!Next
<1>1. Active' = 0
  BY DEF Active, Torn
<1>2. Abstract!Withdraw
  BY <1>1 DEF Abstract!Withdraw, Active
<1> QED
  BY <1>2 DEF Abstract!Next

\* The list that is published starts with a key that is there.
LEMMA WholePublishes ==
    ASSUME IInv, NEW p \in Process, at[p] = "write", meta' = Whole(ids[p]),
           UNCHANGED <<made, pem>>
    PROVE  Abstract!Next
<1>1. Active' = ids[p][1]
  BY DEF Active, Whole
<1>2. ids[p][1] \in pem
  BY DEF IInv, NewKeyUnknown, Rotating
<1>3. PICK k \in pem : k = ids[p][1]
  BY <1>2
<1>4. Abstract!Publish(k)
  BY <1>1, <1>3 DEF Abstract!Publish, Active
<1> QED
  BY <1>4 DEF Abstract!Next

\* Every step is a step of the abstract keys, or none.
LEMMA StepImplements == IInv /\ [Next]_vars => [Abstract!Next]_(Abstract!keys)
<1> SUFFICES ASSUME IInv, [Next]_vars
             PROVE  [Abstract!Next]_(Abstract!keys)
  OBVIOUS
<1>1. CASE UNCHANGED <<made, pem, meta>>
  BY <1>1, PrivateStep
<1>2. CASE \E p \in Process : Initialize(p) \/ Rotate(p)
  BY <1>2, SaveKeyGenerates DEF Initialize, Rotate
<1>3. CASE \E p \in Process : Delete(p)
  BY <1>3, DeleteRetires
<1>4. CASE \E p \in Process : OpenMetadata(p)
  BY <1>4, TornWithdraws DEF OpenMetadata
<1>5. CASE \E p \in Process : WriteMetadata(p)
  <2> PICK p \in Process : WriteMetadata(p)
    BY <1>5
  <2>1. CASE meta' = Torn(meta.size)
    BY <2>1, TornWithdraws DEF WriteMetadata
  <2>2. CASE meta' = Whole(ids[p])
    BY <2>2, WholePublishes DEF WriteMetadata
  <2> QED
    BY <2>1, <2>2 DEF WriteMetadata
<1>6. ASSUME NEW p \in Process, NEW k \in 1 .. MaxKeys, GetKey(p, k)
      PROVE  UNCHANGED <<made, pem, meta>>
  BY <1>6 DEF GetKey
<1>7. ASSUME NEW p \in Process, Load(p) \/ Crash(p)
      PROVE  UNCHANGED <<made, pem, meta>>
  BY <1>7 DEF Load, Crash
<1>8. CASE UNCHANGED vars
  BY <1>1, <1>8 DEF vars
<1> QED
  BY <1>1, <1>2, <1>3, <1>4, <1>5, <1>6, <1>7, <1>8 DEF Next

\* The key directory implements the abstract keys, for any number of processes and
\* any retention limit (ImplementsRetention).
THEOREM RefinementTheorem == Spec => ImplementsRetention
<1>1. Init => Abstract!Init
  BY DEF Init, Absent, Abstract!Init
<1> QED
  BY <1>1, StepImplements, Invariance, PTL DEF Spec, ImplementsRetention, Abstract!Spec

=============================================================================
