-------------------------- MODULE AccessTokenProofs --------------------------
(* Proofs about AccessToken, for any number of processes, accounts and tokens *)
(* and any lifetimes.                                                         *)
EXTENDS AccessToken, TLAPS

----------------------------------------------------------------------------
(* The inductive invariant                                                    *)

\* The history is up to date; only accounts whose id was made have a row.
HistoryFresh ==
    \A a \in Account :
        /\ lastPresent[a] <= time /\ (row[a].present => lastPresent[a] = time /\ a \in made)
        /\ lastActive[a] <= time /\ (row[a].active => lastActive[a] = time)
        /\ lastApprover[a] <= time /\ (row[a].approver => lastApprover[a] = time)

\* How long after the last moment an account was active a request is taken up.
Reach == Lifetime + Skew + MaxDrift + MaxHandling

\* A request in hand is not old, and what it goes by was so when it was taken up
\* or later.
FreshHand(g) ==
    hand[g] # Nothing =>
        /\ hand[g].since <= time /\ time <= hand[g].since + MaxHandling
        /\ hand[g].op = "register" => hand[g].account \in made
        /\ hand[g].op = "login" => hand[g].since <= lastActive[hand[g].account]
        /\ hand[g].op = "decoded" =>
               /\ 0 < Reach
               /\ row[hand[g].account].present => hand[g].since < lastActive[hand[g].account] + Reach
        /\ hand[g].op = "loaded" =>
               /\ hand[g].since <= lastPresent[hand[g].account]
               /\ hand[g].approver => hand[g].since <= lastApprover[hand[g].account]
               /\ hand[g].since < lastActive[hand[g].account] + Reach

\* A token with which a request may still load a row was made while the row was
\* active, or by a login that had begun then.
FreshToken(t) ==
    jwt[t].issued =>
        /\ jwt[t].iat <= time + MaxDrift
        /\ row[jwt[t].account].present =>
               jwt[t].iat <= lastActive[jwt[t].account] + MaxHandling + MaxDrift

HandFresh == \A g \in Gateway : FreshHand(g)
TokenFresh == \A t \in JWT : FreshToken(t)

IInv == AccessTypeOK /\ HistoryFresh /\ HandFresh /\ TokenFresh /\ AuthorityEnds

----------------------------------------------------------------------------

LEMMA RowTypes == NoRow \in Row /\ NewRow \in Row /\ NewRow.present /\ NewRow.active
                  /\ \A r \in Row : r.present \in BOOLEAN /\ r.active \in BOOLEAN
                                    /\ r.approver \in BOOLEAN
<1>1. NoRow \in Row
  BY DEF Row
<1>2. NewRow \in [present : {TRUE}, active : BOOLEAN, approver : BOOLEAN]
  BY DEF NewRow
<1>3. NewRow.present /\ NewRow.active
  BY DEF NewRow
<1>4. ASSUME NEW r \in Row
      PROVE  r.present \in BOOLEAN /\ r.active \in BOOLEAN /\ r.approver \in BOOLEAN
  <2>1. CASE r = NoRow
    BY <2>1 DEF NoRow
  <2>2. CASE r \in [present : {TRUE}, active : BOOLEAN, approver : BOOLEAN]
    BY <2>2
  <2> QED
    BY <2>1, <2>2 DEF Row
<1> QED
  BY <1>1, <1>2, <1>3, <1>4 DEF Row

\* The history after a step that may change the time or a row.
LEMMA NoteStep ==
    ASSUME AccessTypeOK, HistoryFresh, Note, time' \in Nat, time <= time',
           row' \in [Account -> Row], \A a \in Account : row'[a].present => a \in made'
    PROVE  /\ HistoryFresh'
           /\ lastPresent' \in [Account -> Nat]
           /\ lastActive' \in [Account -> Nat]
           /\ lastApprover' \in [Account -> Nat]
           /\ \A a \in Account : /\ lastPresent[a] <= lastPresent'[a]
                                 /\ lastActive[a] <= lastActive'[a]
                                 /\ lastApprover[a] <= lastApprover'[a]
<1>1. /\ time \in Nat
      /\ lastPresent \in [Account -> Nat]
      /\ lastActive \in [Account -> Nat]
      /\ lastApprover \in [Account -> Nat]
  BY DEF AccessTypeOK
<1>2. /\ lastPresent' \in [Account -> Nat]
      /\ lastActive' \in [Account -> Nat]
      /\ lastApprover' \in [Account -> Nat]
  BY <1>1 DEF Note
<1>3. \A a \in Account :
          /\ lastPresent'[a] = IF row'[a].present THEN time' ELSE lastPresent[a]
          /\ lastActive'[a] = IF row'[a].active THEN time' ELSE lastActive[a]
          /\ lastApprover'[a] = IF row'[a].approver THEN time' ELSE lastApprover[a]
  BY DEF Note
<1>4. \A a \in Account : /\ lastPresent[a] <= time
                         /\ lastActive[a] <= time
                         /\ lastApprover[a] <= time
  BY DEF HistoryFresh
<1>5. ASSUME NEW a \in Account
      PROVE  /\ lastPresent[a] <= lastPresent'[a] /\ lastPresent'[a] <= time'
             /\ lastActive[a] <= lastActive'[a] /\ lastActive'[a] <= time'
             /\ lastApprover[a] <= lastApprover'[a] /\ lastApprover'[a] <= time'
  BY <1>1, <1>3, <1>4
<1> QED
  BY <1>2, <1>3, <1>5 DEF HistoryFresh

\* What was served stays within its bounds as the history grows.
LEMMA ServedStays ==
    ASSUME AccessTypeOK, AuthorityEnds, served' = served,
           lastPresent' \in [Account -> Nat],
           lastActive' \in [Account -> Nat],
           lastApprover' \in [Account -> Nat],
           \A a \in Account : /\ lastPresent[a] <= lastPresent'[a]
                              /\ lastActive[a] <= lastActive'[a]
                              /\ lastApprover[a] <= lastApprover'[a]
    PROVE  AuthorityEnds'
<1> SUFFICES ASSUME served.given
             PROVE  AuthorityEnds'
  BY DEF AuthorityEnds
<1> DEFINE a == served.account
<1>a. served # NotServed
  BY DEF NotServed
<1>b. served \in Served
  BY <1>a DEF AccessTypeOK
<1>1. a \in Account /\ served.at \in Nat
  BY <1>b DEF Served
<1>2. /\ lastPresent[a] \in Nat /\ lastPresent'[a] \in Nat
      /\ lastActive[a] \in Nat /\ lastActive'[a] \in Nat
      /\ lastApprover[a] \in Nat /\ lastApprover'[a] \in Nat
  BY <1>1 DEF AccessTypeOK
<1>3. /\ served.at < lastActive[a] + Grace
      /\ served.at <= lastPresent[a] + MaxHandling
      /\ served.asApprover => served.at <= lastApprover[a] + MaxHandling
  BY DEF AuthorityEnds
<1>4. Grace \in Nat /\ MaxHandling \in Nat
  BY AccessAssumption DEF Grace
<1>5. /\ lastPresent[a] <= lastPresent'[a]
      /\ lastActive[a] <= lastActive'[a]
      /\ lastApprover[a] <= lastApprover'[a]
  BY <1>1
<1>6. Grace' = Grace
  BY DEF Grace
<1> HIDE DEF a
<1>7. /\ served.at < lastActive'[a] + Grace
      /\ served.at <= lastPresent'[a] + MaxHandling
      /\ served.asApprover => served.at <= lastApprover'[a] + MaxHandling
  BY <1>1, <1>2, <1>3, <1>4, <1>5
<1> QED
  BY <1>6, <1>7 DEF AuthorityEnds, a

\* The three history variables keep their types and grow.
Growth == /\ lastPresent' \in [Account -> Nat]
          /\ lastActive' \in [Account -> Nat]
          /\ lastApprover' \in [Account -> Nat]
          /\ \A a \in Account : /\ lastPresent[a] <= lastPresent'[a]
                                /\ lastActive[a] <= lastActive'[a]
                                /\ lastApprover[a] <= lastApprover'[a]

LEMMA HandTypes ==
    ASSUME AccessTypeOK, NEW g \in Gateway, hand[g] # Nothing
    PROVE  /\ hand[g] \in InHand
           /\ hand[g].op \in {"login", "register", "decoded", "loaded"}
           /\ hand[g].account \in Account
           /\ hand[g].since \in Nat
           /\ hand[g].approver \in BOOLEAN
<1>1. hand[g] \in InHand
  BY DEF AccessTypeOK
<1> QED
  BY <1>1 DEF InHand

LEMMA TokenTypes ==
    ASSUME AccessTypeOK, NEW t \in JWT, jwt[t].issued
    PROVE  /\ jwt[t] \in Claims
           /\ jwt[t].account \in Account
           /\ jwt[t].iat \in Nat
<1>1. jwt[t] # NoJWT
  BY DEF NoJWT
<1>2. jwt[t] \in Claims
  BY <1>1 DEF AccessTypeOK
<1> QED
  BY <1>2 DEF Claims

\* A row that appears is that of an active account.
RowsAppearActive ==
    \A a \in Account : row'[a].present => row[a].present \/ lastActive'[a] = time'

LEMMA HandStays ==
    ASSUME AccessTypeOK, Growth, time' \in Nat, time <= time', made \subseteq made',
           RowsAppearActive,
           NEW g \in Gateway, FreshHand(g), hand'[g] = hand[g],
           hand[g] # Nothing => time' <= hand[g].since + MaxHandling
    PROVE  FreshHand(g)'
<1> SUFFICES ASSUME hand[g] # Nothing
             PROVE  FreshHand(g)'
  BY DEF FreshHand
<1> DEFINE a == hand[g].account
<1>1. a \in Account /\ hand[g].since \in Nat
  BY HandTypes
<1>2. /\ lastPresent[a] \in Nat /\ lastPresent'[a] \in Nat /\ lastPresent[a] <= lastPresent'[a]
      /\ lastActive[a] \in Nat /\ lastActive'[a] \in Nat /\ lastActive[a] <= lastActive'[a]
      /\ lastApprover[a] \in Nat /\ lastApprover'[a] \in Nat /\ lastApprover[a] <= lastApprover'[a]
  BY <1>1 DEF AccessTypeOK, Growth
<1>3. time \in Nat /\ Reach \in Nat /\ Reach' = Reach
  BY AccessAssumption DEF AccessTypeOK, Reach
<1>4. row'[a].present => row[a].present \/ lastActive'[a] = time'
  BY <1>1 DEF RowsAppearActive
<1>5. hand[g].op = "decoded" =>
          /\ 0 < Reach
          /\ row'[a].present => hand[g].since < lastActive'[a] + Reach
  BY <1>1, <1>2, <1>3, <1>4 DEF FreshHand
<1>6. hand[g].op = "loaded" =>
          /\ hand[g].since <= lastPresent'[a]
          /\ hand[g].approver => hand[g].since <= lastApprover'[a]
          /\ hand[g].since < lastActive'[a] + Reach
  BY <1>1, <1>2, <1>3 DEF FreshHand
<1>7. /\ hand[g].since <= time' /\ time' <= hand[g].since + MaxHandling
      /\ hand[g].op = "register" => a \in made'
      /\ hand[g].op = "login" => hand[g].since <= lastActive'[a]
  BY <1>1, <1>2, <1>3 DEF FreshHand
<1> QED
  BY <1>3, <1>5, <1>6, <1>7 DEF FreshHand

LEMMA TokenStays ==
    ASSUME AccessTypeOK, Growth, time' \in Nat, time <= time',
           RowsAppearActive, NEW t \in JWT, FreshToken(t), jwt'[t] = jwt[t]
    PROVE  FreshToken(t)'
<1> SUFFICES ASSUME jwt[t].issued
             PROVE  FreshToken(t)'
  BY DEF FreshToken
<1> DEFINE a == jwt[t].account
<1>1. a \in Account /\ jwt[t].iat \in Nat
  BY TokenTypes
<1>2. lastActive[a] \in Nat /\ lastActive'[a] \in Nat /\ lastActive[a] <= lastActive'[a]
  BY <1>1 DEF AccessTypeOK, Growth
<1>3. time \in Nat
  BY DEF AccessTypeOK
<1>4. row'[a].present => row[a].present \/ lastActive'[a] = time'
  BY <1>1 DEF RowsAppearActive
<1> QED
  BY <1>1, <1>2, <1>3, <1>4, AccessAssumption DEF FreshToken

LEMMA InitInv == AccessInit => IInv
<1> SUFFICES ASSUME AccessInit
             PROVE  IInv
  OBVIOUS
<1>1. AccessTypeOK
  BY RowTypes DEF AccessInit, AccessTypeOK
<1>2. HistoryFresh
  BY DEF AccessInit, HistoryFresh, NoRow
<1>3. HandFresh /\ TokenFresh /\ AuthorityEnds
  BY DEF AccessInit, HandFresh, TokenFresh, FreshHand, FreshToken, AuthorityEnds, NoJWT, NotServed
<1> QED
  BY <1>1, <1>2, <1>3 DEF IInv

----------------------------------------------------------------------------
(* Steps that change the time or a row                                        *)

LEMMA ElapseInv == ASSUME IInv, Elapse PROVE IInv'
<1>1. /\ time' = time + 1 /\ time \in Nat
      /\ row' = row /\ made' = made /\ hand' = hand /\ jwt' = jwt /\ served' = served
  BY DEF Elapse, IInv, AccessTypeOK
<1>2. time' \in Nat /\ time <= time'
  BY <1>1
<1>3. HistoryFresh' /\ Growth
  BY <1>1, <1>2, NoteStep DEF Elapse, IInv, AccessTypeOK, HistoryFresh, Growth
<1>4. AccessTypeOK'
  BY <1>1, <1>2, <1>3 DEF IInv, AccessTypeOK, Elapse, Growth
<1>5. ASSUME NEW g \in Gateway
      PROVE  FreshHand(g)'
  <2>1. hand[g] # Nothing => time' <= hand[g].since + MaxHandling
    BY <1>1, HandTypes, AccessAssumption DEF Elapse, IInv
  <2> QED
    BY <1>1, <1>2, <1>3, <2>1, HandStays DEF IInv, HandFresh, RowsAppearActive
<1>6. ASSUME NEW t \in JWT
      PROVE  FreshToken(t)'
  BY <1>1, <1>2, <1>3, TokenStays DEF IInv, TokenFresh, RowsAppearActive
<1>7. AuthorityEnds'
  BY <1>1, <1>3, ServedStays DEF IInv, Growth
<1> QED
  BY <1>3, <1>4, <1>5, <1>6, <1>7 DEF IInv, HandFresh, TokenFresh

LEMMA SetRowInv ==
    ASSUME IInv, NEW a \in Account, NEW r \in Row, SetRow(a, r)
    PROVE  IInv'
<1>1. /\ time' = time /\ time \in Nat /\ row' = [row EXCEPT ![a] = r]
      /\ made' = made /\ hand' = hand /\ jwt' = jwt /\ served' = served /\ row[a].present
  BY DEF SetRow, IInv, AccessTypeOK
<1>2. row' \in [Account -> Row] /\ \A b \in Account : row'[b].present => row[b].present
  BY <1>1 DEF IInv, AccessTypeOK
<1>3. HistoryFresh' /\ Growth
  <2>1. \A b \in Account : row'[b].present => b \in made'
    BY <1>1, <1>2 DEF IInv, HistoryFresh
  <2> QED
    BY <1>1, <1>2, <2>1, NoteStep DEF SetRow, IInv, Growth
<1>4. AccessTypeOK'
  BY <1>1, <1>2, <1>3 DEF IInv, AccessTypeOK, SetRow, Growth
<1>5. ASSUME NEW g \in Gateway
      PROVE  FreshHand(g)'
  BY <1>1, <1>2, <1>3, HandStays DEF IInv, HandFresh, FreshHand, RowsAppearActive
<1>6. ASSUME NEW t \in JWT
      PROVE  FreshToken(t)'
  BY <1>1, <1>2, <1>3, TokenStays DEF IInv, TokenFresh, RowsAppearActive
<1>7. AuthorityEnds'
  BY <1>1, <1>3, ServedStays DEF IInv, Growth
<1> QED
  BY <1>3, <1>4, <1>5, <1>6, <1>7 DEF IInv, HandFresh, TokenFresh

LEMMA CommitInv ==
    ASSUME IInv, NEW g \in Gateway, CommitAccount(g)
    PROVE  IInv'
<1> DEFINE a == hand[g].account
<1>1. /\ time' = time /\ time \in Nat /\ row' = [row EXCEPT ![a] = NewRow]
      /\ made' = made /\ hand' = [hand EXCEPT ![g] = Nothing] /\ jwt' = jwt /\ served' = served
  BY DEF CommitAccount, IInv, AccessTypeOK
<1>2. hand[g] # Nothing
  BY DEF CommitAccount, Nothing
<1>3. a \in Account /\ a \in made
  BY <1>2, HandTypes DEF IInv, HandFresh, FreshHand, CommitAccount
<1>4. /\ row' \in [Account -> Row]
      /\ \A b \in Account : b # a => row'[b] = row[b]
      /\ row'[a] = NewRow
  BY <1>1, <1>3, RowTypes DEF IInv, AccessTypeOK
<1>5. HistoryFresh' /\ Growth
  <2>1. \A b \in Account : row'[b].present => b \in made'
    BY <1>1, <1>3, <1>4 DEF IInv, HistoryFresh
  <2> QED
    BY <1>1, <1>4, <2>1, NoteStep DEF CommitAccount, IInv, Growth
<1>6. lastActive'[a] = time'
  BY <1>3, <1>4, RowTypes DEF CommitAccount, Note
<1>7. AccessTypeOK'
  BY <1>1, <1>4, <1>5 DEF IInv, AccessTypeOK, CommitAccount, Growth
<1>8. RowsAppearActive
  BY <1>4, <1>6 DEF RowsAppearActive
<1>9. ASSUME NEW h \in Gateway
      PROVE  FreshHand(h)'
  <2>1. CASE h = g
    BY <1>1, <2>1 DEF FreshHand, IInv, AccessTypeOK
  <2>2. CASE h # g
    <3>1. hand'[h] = hand[h]
      BY <1>1, <2>2 DEF IInv, AccessTypeOK
    <3> QED
      BY <1>1, <1>5, <1>8, <3>1, HandStays DEF IInv, HandFresh, FreshHand
  <2> QED
    BY <2>1, <2>2
<1>10. ASSUME NEW t \in JWT
      PROVE  FreshToken(t)'
  BY <1>1, <1>5, <1>8, TokenStays DEF IInv, TokenFresh
<1>11. AuthorityEnds'
  BY <1>1, <1>5, ServedStays DEF IInv, Growth
<1> QED
  BY <1>5, <1>7, <1>9, <1>10, <1>11 DEF IInv, HandFresh, TokenFresh

----------------------------------------------------------------------------
(* Steps of a process that leave the time and the rows alone                  *)

Quiet(g) == /\ time' = time /\ row' = row /\ drift' = drift
            /\ UNCHANGED observed
            /\ made \subseteq made'
            /\ \A h \in Gateway : h # g => hand'[h] = hand[h]

LEMMA QuietGrowth ==
    ASSUME IInv, NEW g \in Gateway, Quiet(g)
    PROVE  Growth /\ HistoryFresh'
<1>1. /\ lastPresent' = lastPresent /\ lastActive' = lastActive
      /\ lastApprover' = lastApprover
  BY DEF Quiet, observed
<1>2. /\ lastPresent \in [Account -> Nat] /\ lastActive \in [Account -> Nat]
      /\ lastApprover \in [Account -> Nat]
  BY DEF IInv, AccessTypeOK
<1>3. Growth
  BY <1>1, <1>2 DEF Growth
<1> QED
  BY <1>1, <1>3 DEF Quiet, IInv, HistoryFresh

LEMMA QuietStep ==
    ASSUME IInv, NEW g \in Gateway, Quiet(g), AccessTypeOK', FreshHand(g)',
           \A t \in JWT : jwt'[t] = jwt[t] \/ FreshToken(t)',
           served' = served \/ AuthorityEnds'
    PROVE  IInv'
<1>1. time' = time /\ time' \in Nat /\ time <= time' /\ row' = row
  BY DEF Quiet, IInv, AccessTypeOK
<1>2. Growth /\ HistoryFresh' /\ RowsAppearActive
  BY <1>1, QuietGrowth DEF RowsAppearActive
<1>3. ASSUME NEW h \in Gateway
      PROVE  FreshHand(h)'
  <2>1. CASE h # g
    <3>1. hand'[h] = hand[h]
      BY <2>1 DEF Quiet
    <3>2. FreshHand(h) /\ (hand[h] # Nothing => time' <= hand[h].since + MaxHandling)
      BY <1>1 DEF IInv, HandFresh, FreshHand
    <3> QED
      BY <1>1, <1>2, <3>1, <3>2, HandStays DEF IInv, Quiet
  <2> QED
    BY <2>1
<1>4. ASSUME NEW t \in JWT
      PROVE  FreshToken(t)'
  <2>1. CASE jwt'[t] = jwt[t]
    BY <1>1, <1>2, <2>1, TokenStays DEF IInv, TokenFresh
  <2> QED
    BY <2>1
<1>5. AuthorityEnds'
  BY <1>2, ServedStays DEF IInv, Growth
<1> QED
  BY <1>2, <1>3, <1>4, <1>5 DEF IInv, HandFresh, TokenFresh

\* A request that was taken up, and a token that was made.
LEMMA TakeTypes ==
    ASSUME AccessTypeOK, NEW g \in Gateway, NEW a \in Account,
           NEW op \in {"login", "register", "decoded", "loaded"}, Take(g, op, a)
    PROVE  /\ hand' \in [Gateway -> {Nothing} \cup InHand]
           /\ hand'[g] = [op |-> op, account |-> a, since |-> time, approver |-> FALSE]
           /\ \A h \in Gateway : h # g => hand'[h] = hand[h]
<1> DEFINE x == [op |-> op, account |-> a, since |-> time, approver |-> FALSE]
<1>1. hand \in [Gateway -> {Nothing} \cup InHand] /\ time \in Nat
  BY DEF AccessTypeOK
<1>3. x \in InHand
  BY <1>1 DEF InHand
<1>4. hand' = [hand EXCEPT ![g] = x]
  BY DEF Take
<1> HIDE DEF x
<1>5. /\ hand' \in [Gateway -> {Nothing} \cup InHand]
      /\ hand'[g] = x
      /\ \A h \in Gateway : h # g => hand'[h] = hand[h]
  BY <1>1, <1>3, <1>4
<1> QED
  BY <1>5 DEF x

LEMMA CreateTypes ==
    ASSUME AccessTypeOK, NEW g \in Gateway, NEW t \in JWT, NEW a \in Account,
           CreateAccessToken(g, t, a)
    PROVE  /\ jwt' \in [JWT -> {NoJWT} \cup Claims]
           /\ jwt'[t] = [issued |-> TRUE, account |-> a, iat |-> Clock(g)]
           /\ Clock(g) \in Nat /\ Clock(g) <= time + MaxDrift
           /\ \A u \in JWT : u # t => jwt'[u] = jwt[u]
<1> DEFINE x == [issued |-> TRUE, account |-> a, iat |-> Clock(g)]
<1>1. jwt \in [JWT -> {NoJWT} \cup Claims] /\ time \in Nat /\ drift[g] \in 0 .. MaxDrift
  BY DEF AccessTypeOK
<1>2. Clock(g) \in Nat /\ Clock(g) <= time + MaxDrift
  BY <1>1, AccessAssumption DEF Clock
<1>3. x \in Claims
  BY <1>2 DEF Claims
<1>4. jwt' = [jwt EXCEPT ![t] = x]
  BY DEF CreateAccessToken
<1> HIDE DEF x
<1>5. /\ jwt' \in [JWT -> {NoJWT} \cup Claims]
      /\ jwt'[t] = x
      /\ \A u \in JWT : u # t => jwt'[u] = jwt[u]
  BY <1>1, <1>3, <1>4
<1> QED
  BY <1>2, <1>5 DEF x

LEMMA RegisterInv ==
    ASSUME IInv, NEW g \in Gateway, NEW t \in JWT, NEW a \in Account, RegisterAccount(g, t, a)
    PROVE  IInv'
<1>1. /\ hand' \in [Gateway -> {Nothing} \cup InHand]
      /\ hand'[g] = [op |-> "register", account |-> a, since |-> time, approver |-> FALSE]
      /\ \A h \in Gateway : h # g => hand'[h] = hand[h]
  BY TakeTypes DEF RegisterAccount, IInv
<1>2. /\ jwt' \in [JWT -> {NoJWT} \cup Claims]
      /\ jwt'[t] = [issued |-> TRUE, account |-> a, iat |-> Clock(g)]
      /\ Clock(g) \in Nat /\ Clock(g) <= time + MaxDrift
      /\ \A u \in JWT : u # t => jwt'[u] = jwt[u]
  BY CreateTypes DEF RegisterAccount, IInv
<1>3. made' = made \cup {a} /\ time' = time /\ time \in Nat /\ row' = row /\ served' = served
  BY DEF RegisterAccount, IInv, AccessTypeOK
<1>4. Quiet(g)
  BY <1>1, <1>3 DEF Quiet, RegisterAccount
<1>5. AccessTypeOK'
  BY <1>1, <1>2, <1>3 DEF RegisterAccount, IInv, AccessTypeOK, observed
<1>6. FreshHand(g)'
  BY <1>1, <1>3, AccessAssumption DEF FreshHand
<1>7. FreshToken(t)'
  <2>1. ~row[a].present
    BY DEF RegisterAccount, IInv, HistoryFresh
  <2> QED
    BY <1>2, <1>3, <2>1 DEF FreshToken
<1> QED
  BY <1>2, <1>3, <1>4, <1>5, <1>6, <1>7, QuietStep

LEMMA LoadInv ==
    ASSUME IInv, NEW g \in Gateway, NEW a \in Account, LoadForLogin(g, a)
    PROVE  IInv'
<1>1. /\ hand' \in [Gateway -> {Nothing} \cup InHand]
      /\ hand'[g] = [op |-> "login", account |-> a, since |-> time, approver |-> FALSE]
      /\ \A h \in Gateway : h # g => hand'[h] = hand[h]
  BY TakeTypes DEF LoadForLogin, IInv
<1>2. /\ time' = time /\ time \in Nat /\ jwt' = jwt /\ served' = served /\ made' = made
      /\ lastActive' = lastActive /\ lastActive[a] = time
  BY DEF LoadForLogin, IInv, AccessTypeOK, observed, HistoryFresh
<1>3. Quiet(g)
  BY <1>1, <1>2 DEF Quiet, LoadForLogin
<1>4. AccessTypeOK'
  BY <1>1 DEF LoadForLogin, IInv, AccessTypeOK, observed
<1>5. FreshHand(g)'
  BY <1>1, <1>2, AccessAssumption DEF FreshHand
<1> QED
  BY <1>2, <1>3, <1>4, <1>5, QuietStep

LEMMA FinishInv ==
    ASSUME IInv, NEW g \in Gateway, NEW t \in JWT, FinishLogin(g, t)
    PROVE  IInv'
<1> DEFINE a == hand[g].account
<1>1. hand[g] # Nothing /\ hand[g].op = "login"
  BY DEF FinishLogin, Nothing
<1>2. /\ a \in Account /\ hand[g].since \in Nat
      /\ time <= hand[g].since + MaxHandling /\ hand[g].since <= lastActive[a]
  BY <1>1, HandTypes DEF IInv, HandFresh, FreshHand
<1>3. /\ jwt' \in [JWT -> {NoJWT} \cup Claims]
      /\ jwt'[t] = [issued |-> TRUE, account |-> a, iat |-> Clock(g)]
      /\ Clock(g) \in Nat /\ Clock(g) <= time + MaxDrift
      /\ \A u \in JWT : u # t => jwt'[u] = jwt[u]
  BY <1>2, CreateTypes DEF FinishLogin, IInv
<1>4. /\ time' = time /\ time \in Nat /\ row' = row /\ served' = served /\ made' = made
      /\ lastActive' = lastActive /\ lastActive[a] \in Nat
      /\ hand \in [Gateway -> {Nothing} \cup InHand] /\ hand' = [hand EXCEPT ![g] = Nothing]
  BY <1>2 DEF FinishLogin, IInv, AccessTypeOK, observed
<1>5. Quiet(g)
  BY <1>4 DEF Quiet, FinishLogin
<1>6. AccessTypeOK'
  BY <1>3, <1>4 DEF FinishLogin, IInv, AccessTypeOK, observed
<1>7. FreshHand(g)'
  BY <1>4 DEF FreshHand
<1>8. FreshToken(t)'
  <2>1. Clock(g) <= lastActive[a] + MaxHandling + MaxDrift
    BY <1>2, <1>3, <1>4, AccessAssumption
  <2> QED
    BY <1>3, <1>4, <2>1 DEF FreshToken
<1> QED
  BY <1>3, <1>4, <1>5, <1>6, <1>7, <1>8, QuietStep

LEMMA DecodeInv ==
    ASSUME IInv, NEW g \in Gateway, NEW t \in JWT, Decode(g, t)
    PROVE  IInv'
<1> DEFINE a == jwt[t].account
<1>1. jwt[t].issued /\ a \in Account /\ jwt[t].iat \in Nat
  BY TokenTypes DEF Decode, IInv
<1>2. /\ hand' \in [Gateway -> {Nothing} \cup InHand]
      /\ hand'[g] = [op |-> "decoded", account |-> a, since |-> time, approver |-> FALSE]
      /\ \A h \in Gateway : h # g => hand'[h] = hand[h]
  BY <1>1, TakeTypes DEF Decode, IInv
<1>3. /\ time' = time /\ time \in Nat /\ jwt' = jwt /\ served' = served /\ made' = made
      /\ row' = row /\ lastActive' = lastActive
      /\ lastActive[a] \in Nat /\ drift[g] \in 0 .. MaxDrift
  BY <1>1 DEF Decode, IInv, AccessTypeOK, observed
<1>4. time + drift[g] < jwt[t].iat + Lifetime + Skew
  BY DEF Decode, Unexpired, Clock
<1>5. 0 < Reach /\ (row[a].present => time < lastActive[a] + Reach)
  <2>1. /\ jwt[t].iat <= time + MaxDrift
        /\ row[a].present => jwt[t].iat <= lastActive[a] + MaxHandling + MaxDrift
    BY <1>1 DEF IInv, TokenFresh, FreshToken
  <2>2. 0 < Lifetime + Skew + MaxDrift + MaxHandling
    BY <1>1, <1>3, <1>4, <2>1, AccessAssumption
  <2>3. row[a].present => time < lastActive[a] + Lifetime + Skew + MaxDrift + MaxHandling
    BY <1>1, <1>3, <1>4, <2>1, AccessAssumption
  <2> QED
    BY <1>3, <2>2, <2>3, AccessAssumption DEF Reach
<1>6. Quiet(g)
  BY <1>2, <1>3 DEF Quiet, Decode
<1>7. AccessTypeOK'
  BY <1>2 DEF Decode, IInv, AccessTypeOK, observed
<1>8. FreshHand(g)'
  BY <1>2, <1>3, <1>5, AccessAssumption DEF FreshHand, Reach
<1> QED
  BY <1>3, <1>6, <1>7, <1>8, QuietStep

LEMMA LoadUserInv ==
    ASSUME IInv, NEW g \in Gateway, LoadUser(g)
    PROVE  IInv'
<1> DEFINE h == hand[g]
           a == hand[g].account
           x == [op |-> "loaded", account |-> a, since |-> h.since, approver |-> row[a].approver]
<1>1. h # Nothing /\ h.op = "decoded" /\ row[a].present
  BY DEF LoadUser, Nothing
<1>2. h \in InHand /\ a \in Account /\ h.since \in Nat
  BY <1>1, HandTypes DEF IInv
<1>3. /\ h.since <= time /\ time <= h.since + MaxHandling
      /\ h.since < lastActive[a] + Reach
  BY <1>1 DEF IInv, HandFresh, FreshHand
<1>4. lastPresent[a] = time /\ (row[a].approver => lastApprover[a] = time)
  BY <1>1, <1>2 DEF IInv, HistoryFresh
<1>5. /\ time' = time /\ time \in Nat /\ jwt' = jwt /\ served' = served /\ made' = made
      /\ row' = row /\ row[a] \in Row
      /\ lastActive' = lastActive /\ lastPresent' = lastPresent /\ lastApprover' = lastApprover
      /\ hand \in [Gateway -> {Nothing} \cup InHand]
  BY <1>2 DEF LoadUser, IInv, AccessTypeOK, observed
<1>6. x \in InHand
  <2>1. row[a].approver \in BOOLEAN
    BY <1>5, RowTypes
  <2> QED
    BY <1>2, <2>1 DEF InHand
<1>7. hand' = [hand EXCEPT ![g] = x]
  BY <1>5 DEF LoadUser
<1>8. /\ hand' \in [Gateway -> {Nothing} \cup InHand]
      /\ hand'[g] = x
      /\ \A k \in Gateway : k # g => hand'[k] = hand[k]
  <2> HIDE DEF x, h
  <2> QED
    BY <1>5, <1>6, <1>7
<1>9. Quiet(g)
  BY <1>5, <1>8 DEF Quiet, LoadUser
<1>10. AccessTypeOK'
  BY <1>8 DEF LoadUser, IInv, AccessTypeOK, observed
<1>11. FreshHand(g)'
  BY <1>3, <1>4, <1>5, <1>8 DEF FreshHand, Reach
<1> QED
  BY <1>5, <1>9, <1>10, <1>11, QuietStep

LEMMA ServeInv ==
    ASSUME IInv, NEW g \in Gateway, Serve(g)
    PROVE  IInv'
<1> DEFINE h == hand[g]
           a == hand[g].account
<1>1. /\ h # Nothing /\ h.op = "loaded" /\ a \in Account
      /\ h.since \in Nat /\ time <= h.since + MaxHandling /\ h.since <= lastPresent[a]
      /\ h.approver => h.since <= lastApprover[a]
      /\ h.since < lastActive[a] + Reach
  <2>1. h # Nothing /\ h.op = "loaded"
    BY DEF Serve, Nothing
  <2> QED
    BY <2>1, HandTypes DEF IInv, HandFresh, FreshHand
<1>2. /\ time' = time /\ time \in Nat /\ jwt' = jwt /\ row' = row /\ made' = made
      /\ lastActive' = lastActive /\ lastPresent' = lastPresent /\ lastApprover' = lastApprover
      /\ lastActive[a] \in Nat /\ lastPresent[a] \in Nat /\ lastApprover[a] \in Nat
      /\ hand \in [Gateway -> {Nothing} \cup InHand] /\ hand' = [hand EXCEPT ![g] = Nothing]
  BY <1>1 DEF Serve, IInv, AccessTypeOK, observed
<1>3. PICK asApprover \in BOOLEAN :
          /\ asApprover => h.approver
          /\ served' = [given |-> TRUE, account |-> a, at |-> time, asApprover |-> asApprover]
  BY DEF Serve
<1>4. served' \in Served
  BY <1>1, <1>2, <1>3 DEF Served
<1>5. AuthorityEnds'
  <2>1. time < lastActive[a] + (Lifetime + Skew + MaxDrift + 2 * MaxHandling)
    BY <1>1, <1>2, AccessAssumption DEF Reach
  <2>2. time <= lastPresent[a] + MaxHandling
    BY <1>1, <1>2, AccessAssumption
  <2>3. asApprover => time <= lastApprover[a] + MaxHandling
    BY <1>1, <1>2, <1>3, AccessAssumption
  <2> QED
    BY <1>2, <1>3, <2>1, <2>2, <2>3 DEF AuthorityEnds, Grace
<1>6. Quiet(g)
  BY <1>2 DEF Quiet, Serve
<1>7. AccessTypeOK'
  BY <1>2, <1>4 DEF Serve, IInv, AccessTypeOK, observed
<1>8. FreshHand(g)'
  BY <1>2 DEF FreshHand
<1> QED
  BY <1>2, <1>5, <1>6, <1>7, <1>8, QuietStep

LEMMA AbandonInv ==
    ASSUME IInv, NEW g \in Gateway, Abandon(g)
    PROVE  IInv'
<1>1. /\ hand \in [Gateway -> {Nothing} \cup InHand] /\ hand' = [hand EXCEPT ![g] = Nothing]
      /\ jwt' = jwt /\ served' = served
  BY DEF Abandon, IInv, AccessTypeOK
<1>2. Quiet(g)
  BY <1>1 DEF Quiet, Abandon
<1>3. AccessTypeOK'
  BY <1>1 DEF Abandon, IInv, AccessTypeOK, observed
<1>4. FreshHand(g)'
  BY <1>1 DEF FreshHand
<1> QED
  BY <1>1, <1>2, <1>3, <1>4, QuietStep

LEMMA NextInv == IInv /\ [AccessNext]_accessVars => IInv'
<1> SUFFICES ASSUME IInv, [AccessNext]_accessVars
             PROVE  IInv'
  OBVIOUS
<1>1. CASE UNCHANGED accessVars
  BY <1>1 DEF accessVars, observed, IInv, AccessTypeOK, HistoryFresh, HandFresh, TokenFresh,
              FreshHand, FreshToken, AuthorityEnds, Grace, Reach
<1> QED
  BY <1>1, ElapseInv, SetRowInv, CommitInv, ServeInv, AbandonInv, LoadInv, FinishInv,
     DecodeInv, LoadUserInv, RegisterInv DEF AccessNext

----------------------------------------------------------------------------
(* The theorems                                                               *)

\* The strengthened invariant holds in every reachable state.
THEOREM AccessInvariance == AccessSpec => []IInv
  BY InitInv, NextInv, PTL DEF AccessSpec

\* Every variable keeps its type.
THEOREM AccessTypeCorrect == AccessSpec => []AccessTypeOK
<1>1. IInv => AccessTypeOK
  BY DEF IInv
<1> QED
  BY <1>1, AccessInvariance, PTL

\* For any lifetimes, drifts and handling times: an account that is deactivated is
\* served for Grace at most, one without a row or a role by requests in hand only.
THEOREM AuthorityTheorem == AccessSpec => []AuthorityEnds
<1>1. IInv => AuthorityEnds
  BY DEF IInv
<1> QED
  BY <1>1, AccessInvariance, PTL
=============================================================================
