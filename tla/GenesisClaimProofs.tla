-------------------------- MODULE GenesisClaimProofs --------------------------
(***************************************************************************)
(* Proofs about GenesisClaim, for any number of servers, wallets, units    *)
(* and vouchers, any history of transfers and any lifetime, grace and      *)
(* window, and about ReviewerAlert, which MCSettling runs beside it.       *)
(***************************************************************************)
EXTENDS MCSettling, MCGenesisUnits, SequenceTheorems, FiniteSetTheorems, WellFoundedInduction, TLAPS

\* The conjuncts of TypeOK about the sessions.
SessionTypes ==
  /\ sess \in [Servers -> Session]
  /\ \A s \in Servers : sess[s].op = "issue" => sess[s].wallet \in Wallets
  /\ \A s \in Servers : sess[s].step = "position" => sess[s].op = "issue"

(***************************************************************************)
(* NoRow and Idle have their types, and so has every finished session.     *)
(***************************************************************************)
LEMMA InitialTypes == NoRow \in Row /\ Idle \in Session
<1> USE ClaimAssumption
<1>1. NoRow \in Row
  BY DEF NoRow, Row
<1>2. Idle \in Session
  BY <1>1 DEF Idle, Session
<1> QED BY <1>1, <1>2

LEMMA FinishTypes ==
  ASSUME NEW s \in Servers, TypeOK, Finish(s)
  PROVE  lock' \in Servers \cup {NoServer} /\ SessionTypes'
<1>1. Idle.op = "reconcile" /\ Idle.step = "idle"
  BY DEF Idle
<1> QED BY InitialTypes, <1>1 DEF Finish, TypeOK, SessionTypes

\* SetStatus and Committed return tables of rows.
LEMMA TableTypes ==
  ASSUME TypeOK, NEW table \in [Keys -> Row]
  PROVE  /\ \A w \in Wallets, status \in {"REDEEMED", "EXPIRED"} :
              SetStatus(table, w, status) \in [Keys -> Row]
         /\ \A r \in Session : Committed(r, table) \in [Keys -> Row]
<1>1. ASSUME NEW w \in Wallets, NEW status \in {"REDEEMED", "EXPIRED"}
      PROVE  SetStatus(table, w, status) \in [Keys -> Row]
  <2> DEFINE key == <<live, w>>
  <2>1. CASE table[key].status = "NONE"
    BY <2>1 DEF SetStatus
  <2>2. CASE table[key].status # "NONE"
    <3>1. key \in Keys
      BY DEF TypeOK, Keys
    <3>2. table[key] \in Issued
      BY <2>2, <3>1 DEF Row, NoRow
    <3>3. [table[key] EXCEPT !.status = status] \in Row
      BY <3>2 DEF Issued, Row
    <3> QED BY <2>2, <3>1, <3>3 DEF SetStatus
  <2> QED BY <2>1, <2>2
<1>2. ASSUME NEW r \in Session
      PROVE  Committed(r, table) \in [Keys -> Row]
  BY <1>2 DEF Committed, TypeOK
<1> QED BY <1>1, <1>2

(***************************************************************************)
(* Type correctness of the claim service, contract and collection.         *)
(***************************************************************************)
THEOREM TypeCorrect == Spec => []TypeOK
<1> USE LedgerAssumption, ClaimAssumption
<1>1. Init => TypeOK
  <2> SUFFICES ASSUME Init PROVE TypeOK
    OBVIOUS
  <2>1. 1 \in Contracts
    BY DEF Contracts
  <2>2. history \in Seq(Transfers(Amounts)) /\ HeadBlock <= MaxBlocks
    BY DEF Init, HeadBlock
  <2>3. Idle.op = "reconcile" /\ Idle.step = "idle"
    BY DEF Idle
  <2>4. rows \in [Keys -> Row] /\ vouchers \subseteq Voucher /\ usedNonces \subseteq Nonces
    BY InitialTypes DEF Init
  <2>5. claimedAt \in [Contracts -> [Wallets -> Times \cup {Never}]]
    BY DEF Init
  <2> QED BY <2>1, <2>2, <2>3, <2>4, <2>5, InitialTypes DEF Init, TypeOK, Times
<1>2. TypeOK /\ [Next]_vars => TypeOK'
  <2> SUFFICES ASSUME TypeOK, [Next]_vars PROVE TypeOK'
    OBVIOUS
  <2>1. ASSUME NEW s \in Servers, NEW op \in {"issue", "reconcile"},
               NEW w \in Wallets \cup {Zero},
               op = "issue" => w \in Wallets, Begin(s, op, w)
        PROVE  TypeOK'
    <3>1. [Idle EXCEPT !.step = "listed", !.op = op, !.wallet = w,
                       !.records = rows, !.staged = rows] \in Session
      BY <2>1, InitialTypes DEF Session, TypeOK
    <3>2. SessionTypes'
      BY <2>1, <3>1 DEF Begin, TypeOK, SessionTypes, Session
    <3> QED BY <2>1, <3>2 DEF Begin, TypeOK, SessionTypes, chain, HeadBlock
  <2>2. ASSUME NEW s \in Servers, ReadClock(s) PROVE TypeOK'
    <3>1. PICK t \in Views : sess' = [sess EXCEPT ![s] = Clocked(sess[s], t)]
      BY <2>2 DEF ReadClock
    <3>2. Clocked(sess[s], t) \in Session
      <4>1. sess[s] \in Session /\ t \in Nat
        BY DEF TypeOK, Views, Times
      <4> QED BY <4>1 DEF Clocked, Session
    <3>3. LET q == Clocked(sess[s], t)
          IN  q.op = sess[s].op /\ q.wallet = sess[s].wallet /\ q.step = "settling"
      BY DEF Clocked, TypeOK, Session
    <3>4. SessionTypes'
      BY <3>1, <3>2, <3>3 DEF TypeOK, SessionTypes
    <3> QED BY <2>2, <3>4 DEF ReadClock, TypeOK, SessionTypes, chain, HeadBlock
  <2>3. ASSUME NEW s \in Servers, NEW k \in Keys, Settle(s, k) PROVE TypeOK'
    <3>1. PICK t \in Views : sess' = [sess EXCEPT ![s] = Settled(sess[s], k, t)]
      BY <2>3 DEF Settle
    <3>2. Settled(sess[s], k, t) \in Session
      <4> DEFINE r == sess[s]
      <4>1. r \in Session /\ k[2] \in Wallets
        BY DEF TypeOK, Keys
      <4>2. /\ SetStatus(r.staged, k[2], "REDEEMED") \in [Keys -> Row]
            /\ SetStatus(r.staged, k[2], "EXPIRED") \in [Keys -> Row]
        BY <4>1, TableTypes DEF Session
      <4> QED BY <4>1, <4>2 DEF Settled, Session
    <3>3. LET q == Settled(sess[s], k, t)
          IN  q.op = sess[s].op /\ q.wallet = sess[s].wallet /\ q.step = sess[s].step
      BY DEF Settled, TypeOK, Session
    <3>4. SessionTypes'
      BY <3>1, <3>2, <3>3 DEF TypeOK, SessionTypes
    <3> QED BY <2>3, <3>4 DEF Settle, TypeOK, SessionTypes, chain, HeadBlock
  <2>4. ASSUME NEW s \in Servers, FinishReconcile(s) PROVE TypeOK'
    <3>1. rows' \in [Keys -> Row]
      BY <2>4, TableTypes DEF FinishReconcile, TypeOK, Session
    <3> QED BY <2>4, <3>1, FinishTypes
            DEF FinishReconcile, TypeOK, SessionTypes, chain, HeadBlock
  <2>5. ASSUME NEW s \in Servers, ReturnOwn(s) PROVE TypeOK'
    <3> DEFINE r == sess[s]
    <3>1. r \in Session
      BY DEF TypeOK
    <3>2. rows' \in [Keys -> Row]
      BY <2>5, <3>1, TableTypes DEF ReturnOwn, Session
    <3>3. Finish(s) /\ UNCHANGED <<chain, signed>>
      BY <2>5 DEF ReturnOwn
    <3>4. PICK k \in OwnActive(r) :
            /\ r.records[k].status = "PENDING"
            /\ vouchers' = vouchers \cup
                 {[contract |-> k[1], wallet |-> k[2], unit |-> r.records[k].unit,
                   deadline |-> r.records[k].deadline, nonce |-> r.records[k].nonce]}
      BY <2>5 DEF ReturnOwn
    <3>5. k[1] \in Contracts /\ k[2] \in Wallets /\ r.records[k] \in Issued
      BY <3>1, <3>4 DEF OwnActive, Active, Keys, Session, Row, NoRow
    <3>6. vouchers' \subseteq Voucher
      BY <3>4, <3>5 DEF TypeOK, Voucher, Issued
    <3> QED BY <3>2, <3>3, <3>6, FinishTypes DEF TypeOK, SessionTypes, chain, HeadBlock
  <2>6. ASSUME NEW s \in Servers, ReadClaimState(s) PROVE TypeOK'
    <3> DEFINE r == sess[s]
    <3>1. r \in Session /\ r.op = "issue" /\ r.wallet \in Wallets
      BY <2>6 DEF ReadClaimState, TypeOK
    <3>2. [r EXCEPT !.step = "position"] \in Session
      BY <3>1 DEF Session
    <3>3. SessionTypes'
      BY <2>6, <3>1, <3>2 DEF ReadClaimState, TypeOK, SessionTypes
    <3> QED BY <2>6, <3>3 DEF ReadClaimState, TypeOK, SessionTypes, chain, HeadBlock
  <2>7. ASSUME NEW s \in Servers, Issue(s) PROVE TypeOK'
    <3> DEFINE r == sess[s]
               key == <<live, r.wallet>>
    <3>1. PICK through \in 0..HeadBlock, clock \in ServerClocks, unit \in TokenIds :
            LET deadline == Lesser(clock + Life, Closes[live] - 1)
                nonce == signed + 1
            IN  /\ nonce \in Nonces
                /\ signed' = nonce
                /\ rows' = Committed(r, [r.staged EXCEPT ![key] =
                       [status |-> "PENDING", block |-> through, unit |-> unit,
                        deadline |-> deadline, nonce |-> nonce]])
                /\ \/ vouchers' = vouchers \cup
                        {[contract |-> live, wallet |-> r.wallet, unit |-> unit,
                          deadline |-> deadline, nonce |-> nonce]}
                   \/ UNCHANGED vouchers
      BY <2>7 DEF Issue, Eligible
    <3> DEFINE deadline == Lesser(clock + Life, Closes[live] - 1)
               nonce == signed + 1
               row == [status |-> "PENDING", block |-> through, unit |-> unit,
                       deadline |-> deadline, nonce |-> nonce]
    <3>2. r \in Session /\ r.wallet \in Wallets /\ key \in Keys
      BY <2>7 DEF Issue, TypeOK, Keys
    <3>3. deadline \in Nat
      BY DEF ServerClocks, Lesser, TypeOK, Times
    <3>4. through \in 0..MaxBlocks
      BY DEF TypeOK, HeadBlock
    <3>5. row \in Row
      BY <3>1, <3>3, <3>4 DEF Row, Issued
    <3>6. rows' \in [Keys -> Row]
      <4>1. [r.staged EXCEPT ![key] = row] \in [Keys -> Row]
        BY <3>2, <3>5 DEF Session
      <4> QED BY <3>1, <3>2, <4>1, TableTypes
    <3>7. vouchers' \subseteq Voucher
      BY <3>1, <3>2, <3>3 DEF Voucher, TypeOK
    <3>8. Finish(s) /\ UNCHANGED chain
      BY <2>7 DEF Issue
    <3>9. signed' \in 0..MaxVouchers
      BY <3>1 DEF Nonces
    <3> QED BY <3>6, <3>7, <3>8, <3>9, FinishTypes DEF TypeOK, SessionTypes, chain, HeadBlock
  <2>8. ASSUME NEW s \in Servers, Abort(s) PROVE TypeOK'
    BY <2>8, FinishTypes DEF Abort, TypeOK, SessionTypes, chain, HeadBlock
  <2>9. ASSUME NEW v \in vouchers, Claim(v) PROVE TypeOK'
    <3>1. v \in Voucher
      BY DEF TypeOK
    <3>2. claimedAt' \in [Contracts -> [Wallets -> Times \cup {Never}]]
      BY <2>9, <3>1 DEF Claim, TypeOK, Voucher
    <3>3. usedNonces' \subseteq Nonces /\ minted' \in Nat
      BY <2>9, <3>1 DEF Claim, TypeOK, Voucher
    <3> QED BY <2>9, <3>2, <3>3 DEF Claim, TypeOK, service, HeadBlock
  <2>10. ASSUME NEW t \in Transfers(Amounts), Transfer(t) PROVE TypeOK'
    BY <2>10 DEF Transfer, TypeOK, service, HeadBlock
  <2>11. CASE Tick
    BY <2>11 DEF Tick, TypeOK, Times, Never, service, HeadBlock
  <2>12. CASE DeployRecovery
    <3>1. live' \in Contracts
      BY <2>12 DEF DeployRecovery, TypeOK, Contracts
    <3>2. claimedAt' \in [Contracts -> [Wallets -> Times \cup {Never}]]
      BY <2>12 DEF DeployRecovery, TypeOK, Times, Never
    <3>3. SessionTypes'
      <4>1. Idle.op = "reconcile" /\ Idle.step = "idle"
        BY DEF Idle
      <4> QED BY <2>12, <4>1, InitialTypes DEF DeployRecovery, SessionTypes
    <3> QED BY <2>12, <3>1, <3>2, <3>3 DEF DeployRecovery, TypeOK, SessionTypes, HeadBlock
  <2>13. CASE UNCHANGED vars
    BY <2>13 DEF vars, TypeOK, HeadBlock
  <2> QED BY <2>1, <2>2, <2>3, <2>4, <2>5, <2>6, <2>7, <2>8, <2>9, <2>10, <2>11, <2>12, <2>13
          DEF Next, Request, Proceed, BeginIssue, BeginReconcile
<1> QED BY <1>1, <1>2, PTL DEF Spec

-----------------------------------------------------------------------------
\* Every row is of the live contract, and so is every voucher.
VouchersHaveRows == \A v \in vouchers : rows[<<v.contract, v.wallet>>].status # "NONE"

Single == OneContract /\ VouchersHaveRows

LEMMA SingleContract ==
  ASSUME Single, TypeOK
  PROVE  /\ live \in Contracts
         /\ \A k \in Keys : k[2] \in Wallets /\ (rows[k].status # "NONE" => k = <<live, k[2]>>)
         /\ \A w \in Wallets : <<live, w>> \in Keys
         /\ \A v \in vouchers : v \in Voucher /\ v.contract = live /\ <<live, v.wallet>> \in Keys
<1>1. live \in Contracts /\ \A w \in Wallets : <<live, w>> \in Keys
  BY DEF TypeOK, Keys
<1>2. \A k \in Keys : k[2] \in Wallets /\ k = <<k[1], k[2]>>
  BY DEF Keys
<1>3. ASSUME NEW v \in vouchers PROVE v \in Voucher /\ v.contract = live /\ <<live, v.wallet>> \in Keys
  <2>1. v \in Voucher /\ v.contract \in Contracts /\ v.wallet \in Wallets
    BY DEF TypeOK, Voucher
  <2>2. PICK k : k = <<v.contract, v.wallet>>
    OBVIOUS
  <2>3. k \in Keys /\ k[1] = v.contract /\ rows[k].status # "NONE"
    BY <2>1, <2>2 DEF Keys, Single, VouchersHaveRows
  <2> QED BY <1>1, <2>1, <2>3 DEF Single, OneContract
<1> QED BY <1>1, <1>2, <1>3 DEF Single, OneContract

\* A finished request leaves no request open, since only the lock holder's was.
LEMMA FinishSound ==
  ASSUME NEW s \in Servers, TypeOK, SessionsSound, sess[s].step # "idle", Finish(s)
  PROVE  SessionsSound'
<1>1. Idle.step = "idle"
  BY DEF Idle
<1>2. ASSUME NEW q \in Servers PROVE sess'[q].step = "idle"
  <2>1. CASE q = s
    BY <1>1, <2>1 DEF Finish, TypeOK
  <2>2. CASE q # s
    <3>1. sess[q].step = "idle"
      BY <2>2 DEF SessionsSound
    <3> QED BY <2>2, <3>1 DEF Finish, TypeOK
  <2> QED BY <2>1, <2>2
<1> QED BY <1>2 DEF SessionsSound

\* The rows a sound request has settled, row by row.
LEMMA StagedRows ==
  ASSUME TypeOK, NEW r \in Session, r.records = rows, NEW k \in Keys, Staged(r, k)
  PROVE  /\ r.staged[k].nonce = rows[k].nonce
         /\ r.staged[k].unit = rows[k].unit /\ r.staged[k].block = rows[k].block
         /\ r.staged[k].deadline = rows[k].deadline
         /\ \/ r.staged[k].status = rows[k].status
            \/ r.staged[k].status = "REDEEMED" /\ rows[k].nonce \in usedNonces
            \/ r.staged[k].status = "EXPIRED" /\ Dead(rows[k])
<1>1. rows[k] \in Issued \/ rows[k] = NoRow
  BY DEF TypeOK, Row
<1>2. CASE rows[k] \in Issued
  BY <1>2 DEF Staged, Issued
<1>3. CASE rows[k] = NoRow
  BY <1>3 DEF Staged, NoRow
<1> QED BY <1>1, <1>2, <1>3

\* A commit of a sound request writes exactly its staged rows.
LEMMA CommitStaged ==
  ASSUME TypeOK, NEW r \in Session, r.records = rows, NEW table \in [Keys -> Row]
  PROVE  Committed(r, table) = table
BY DEF Committed, TypeOK

(***************************************************************************)
(* The one place the grace matters: a row whose deadline plus grace is     *)
(* behind the clock that was read, and whose wallet a node at most ReadLag *)
(* behind has not seen claiming, can never be redeemed.                    *)
(***************************************************************************)
LEMMA OverdueUnclaimedIsDead ==
  ASSUME Single, TypeOK, RowsSound,
         NEW k \in Keys, NEW clock \in Nat, clock <= now, Overdue(rows[k], clock),
         NEW t \in Views, ~HasClaimed(live, k[2], t)
  PROVE  Dead(rows[k])
<1> USE ClaimAssumption, SingleContract
<1>1. rows[k] \in Issued
  BY DEF Overdue, TypeOK, Row, NoRow
<1>2. rows[k].deadline \in Nat /\ rows[k].deadline + Grace < clock /\ now \in Nat /\ t \in Nat
  BY <1>1 DEF Overdue, Issued, TypeOK, Times, Views
<1>3. rows[k].deadline < now
  BY <1>2
<1>4. ASSUME rows[k].nonce \in usedNonces PROVE FALSE
  <2>1. PICK v \in vouchers : v.nonce = rows[k].nonce
    BY <1>4 DEF RowsSound, ClaimsInTime
  <2>2. k = <<live, v.wallet>> /\ rows[k].deadline = v.deadline
    BY <2>1 DEF RowsSound, NoncesUnique
  <2>3. k[2] = v.wallet
    BY <2>2
  <2>4. claimedAt[live][v.wallet] <= v.deadline
    BY <1>4, <2>1 DEF RowsSound, ClaimsInTime
  <2>5. now - ReadLag <= t
    BY DEF Views
  <2>6. claimedAt[live][v.wallet] \in Nat
    BY <2>3 DEF TypeOK, Times, Never, Contracts
  <2>7. ~(claimedAt[live][v.wallet] <= t)
    BY <2>3 DEF HasClaimed
  <2> QED BY <1>2, <2>2, <2>4, <2>5, <2>6, <2>7
<1> QED BY <1>3, <1>4 DEF Dead

-----------------------------------------------------------------------------
\* The facts about rows, vouchers and the chain that a session step keeps.
LedgerSound == NoncesUnique /\ ClaimsInTime /\ ReleasedAreDead

\* A step that only moves the request of one server keeps the other requests.
LEMMA SessionStep ==
  ASSUME NEW s \in Servers, TypeOK, RowsSound, NEW r \in Session,
         sess' = [sess EXCEPT ![s] = r], UNCHANGED <<chain, signed, rows, vouchers>>,
         r.step # "idle" => lock' = s /\ SessionSound(r),
         \A q \in Servers \ {s} : sess[q].step # "idle" => lock' = lock
  PROVE  RowsSound'
<1> USE DEF chain
<1>1. LedgerSound'
  BY DEF RowsSound, LedgerSound, NoncesUnique, ClaimsInTime, ReleasedAreDead, RowOf, Dead
<1>2. ASSUME NEW q \in Servers, sess'[q].step # "idle"
      PROVE  lock' = q /\ SessionSound(sess[q])'
  <2>1. CASE q = s
    <3>1. sess'[q] = r
      BY <2>1 DEF TypeOK
    <3>2. lock' = q /\ SessionSound(r)
      BY <1>2, <2>1, <3>1
    <3> QED BY <3>1, <3>2 DEF SessionSound, Staged, Dead, Overdue, Active
  <2>2. CASE q # s
    <3>1. sess'[q] = sess[q]
      BY <2>2 DEF TypeOK
    <3>2. lock' = q /\ SessionSound(sess[q])
      BY <1>2, <2>2, <3>1 DEF RowsSound, SessionsSound
    <3> QED BY <3>1, <3>2 DEF SessionSound, Staged, Dead, Overdue, Active
  <2> QED BY <2>1, <2>2
<1> QED BY <1>1, <1>2 DEF RowsSound, LedgerSound, SessionsSound

LEMMA BeginSound ==
  ASSUME NEW s \in Servers, NEW op \in {"issue", "reconcile"}, NEW w \in Wallets \cup {Zero},
         TypeOK, RowsSound, Begin(s, op, w)
  PROVE  RowsSound'
<1> DEFINE r == [Idle EXCEPT !.step = "listed", !.op = op, !.wallet = w,
                             !.records = rows, !.staged = rows]
<1>1. r \in Session
  BY InitialTypes DEF Session, TypeOK
<1>2. /\ r.step = "listed" /\ r.records = rows /\ r.staged = rows
      /\ r.clock = 0 /\ r.todo = {} /\ r.confirmed = {}
  BY DEF Idle
<1>3. SessionSound(r)
  BY <1>2 DEF SessionSound, TypeOK, Times
<1>4. ASSUME NEW q \in Servers PROVE sess[q].step = "idle"
  BY ClaimAssumption DEF Begin, RowsSound, SessionsSound
<1>5. sess' = [sess EXCEPT ![s] = r] /\ lock' = s /\ UNCHANGED <<chain, signed, rows, vouchers>>
  BY DEF Begin
<1> HIDE DEF r
<1> QED BY <1>1, <1>3, <1>4, <1>5, SessionStep

LEMMA ReadClockSound ==
  ASSUME NEW s \in Servers, TypeOK, RowsSound, ReadClock(s), TypeOK'
  PROVE  RowsSound'
<1> DEFINE r == sess[s]
<1>1. PICK t \in Views : sess' = [sess EXCEPT ![s] = Clocked(r, t)]
  BY DEF ReadClock
<1> DEFINE c == Clocked(r, t)
<1>2. r \in Session /\ c \in Session /\ t \in Nat /\ t <= now /\ now \in Nat
  BY <1>1 DEF TypeOK, Views, Times
<1>3. r.step = "listed" /\ lock = s /\ SessionSound(r)
  BY DEF ReadClock, RowsSound, SessionsSound
<1>4. /\ c.step = "settling" /\ c.records = rows /\ c.staged = rows /\ c.op = r.op
      /\ c.wallet = r.wallet /\ c.confirmed = {}
  BY ZenonT(60), <1>2, <1>3 DEF Clocked, SessionSound, Session
<1>5. \A k \in c.todo : rows[k].status = "PENDING"
  BY <1>2, <1>3 DEF Clocked, SessionSound, Session
<1>6. c.clock <= now
  <2>1. c.clock \in {0, t}
    BY <1>2 DEF Clocked, Session
  <2> HIDE DEF c
  <2> QED BY <1>2, <2>1
<1>7. ASSUME r.op = "issue", NEW k \in Keys, Overdue(rows[k], c.clock) PROVE k \in c.todo
  <2>1. rows[k].status = "PENDING"
    BY <1>7 DEF Overdue
  <2>2. c.clock = t
    BY <1>2, <1>3, <2>1 DEF Clocked, SessionSound, Session
  <2> QED BY <1>2, <1>3, <1>7, <2>1, <2>2 DEF Clocked, SessionSound, Session
<1>8. SessionSound(c)
  BY <1>4, <1>5, <1>6, <1>7 DEF SessionSound, Staged
<1>9. sess' = [sess EXCEPT ![s] = c] /\ UNCHANGED <<chain, signed, rows, vouchers, lock>>
  BY <1>1 DEF ReadClock
<1> HIDE DEF c
<1> QED BY <1>2, <1>3, <1>8, <1>9, SessionStep

LEMMA SettleSound ==
  ASSUME Single, NEW s \in Servers, NEW k \in Keys,
         TypeOK, RowsSound, Settle(s, k), TypeOK'
  PROVE  RowsSound'
<1> USE SingleContract
<1> DEFINE r == sess[s]
           w == k[2]
<1>1. PICK t \in Views : sess' = [sess EXCEPT ![s] = Settled(r, k, t)]
  BY DEF Settle
<1> DEFINE c == Settled(r, k, t)
           claimed == HasClaimed(live, w, t)
<1>2. r \in Session /\ c \in Session
  BY <1>1 DEF TypeOK
<1>3. r.step = "settling" /\ k \in r.todo /\ lock = s /\ SessionSound(r)
  BY DEF Settle, RowsSound, SessionsSound
<1>4. /\ c.step = "settling" /\ c.records = rows /\ c.op = r.op /\ c.wallet = r.wallet
      /\ c.clock = r.clock /\ c.todo = r.todo \ {k}
      /\ c.confirmed = IF claimed THEN r.confirmed \cup {k} ELSE r.confirmed
      /\ c.staged = IF claimed THEN SetStatus(r.staged, w, "REDEEMED")
                    ELSE IF Overdue(rows[k], r.clock) THEN SetStatus(r.staged, w, "EXPIRED")
                    ELSE r.staged
  BY <1>2, <1>3 DEF Settled, SessionSound, Session
<1>5. rows[k].status = "PENDING" /\ rows[k] \in Issued /\ k = <<live, w>>
  <2>1. rows[k].status = "PENDING"
    BY <1>3 DEF SessionSound
  <2>2. rows[k] \in Issued
    BY <2>1 DEF TypeOK, Row, NoRow
  <2> QED BY <2>1, <2>2
<1>6. Staged(r, k) /\ r.records = rows /\ r.staged \in [Keys -> Row]
  BY <1>2, <1>3 DEF SessionSound, Session
<1>7. ASSUME NEW status \in {"REDEEMED", "EXPIRED"}
      PROVE  SetStatus(r.staged, w, status)
               = [r.staged EXCEPT ![k] = [rows[k] EXCEPT !.status = status]]
  <2>1. r.staged[k].status # "NONE"
    BY <1>5, <1>6 DEF Staged, Issued
  <2>2. [r.staged[k] EXCEPT !.status = status] = [rows[k] EXCEPT !.status = status]
    BY <1>5, <1>6 DEF Staged, Issued
  <2> QED BY <1>5, <1>6, <2>1, <2>2 DEF SetStatus
<1>8. claimed => rows[k].nonce \in usedNonces
  <2> SUFFICES ASSUME claimed PROVE rows[k].nonce \in usedNonces
    OBVIOUS
  <2>1. claimedAt[live][w] # Never
    BY SMTT(40), ClaimAssumption DEF HasClaimed, Views, Times, Never, TypeOK
  <2> QED BY <1>5, <2>1 DEF RowsSound, ClaimsInTime, RowOf
<1>9. ~claimed /\ Overdue(rows[k], r.clock) => Dead(rows[k])
  <2>1. r.clock \in Nat /\ r.clock <= now
    BY <1>2, <1>3 DEF SessionSound, Session
  <2> QED BY <2>1, OverdueUnclaimedIsDead
<1>10. ASSUME NEW j \in Keys PROVE Staged(c, j)
  <2>1. CASE j # k
    <3>1. c.staged[j] = r.staged[j]
      BY <1>4, <1>6, <1>7, <2>1
    <3> QED BY <1>3, <1>4, <1>6, <3>1 DEF SessionSound, Staged
  <2>2. CASE j = k
    <3>1. CASE claimed
      BY <1>4, <1>6, <1>7, <1>8, <2>2, <3>1 DEF Staged
    <3>2. CASE ~claimed /\ Overdue(rows[k], r.clock)
      BY <1>4, <1>6, <1>7, <1>9, <2>2, <3>2 DEF Staged
    <3>3. CASE ~claimed /\ ~Overdue(rows[k], r.clock)
      BY <1>4, <1>6, <2>2, <3>3 DEF Staged
    <3> QED BY <3>1, <3>2, <3>3
  <2> QED BY <2>1, <2>2
<1>11. \A j \in c.confirmed : rows[j].nonce \in usedNonces
  BY <1>3, <1>4, <1>8 DEF SessionSound
<1>12. ASSUME r.op = "issue", NEW j \in Keys, Overdue(rows[j], r.clock),
              j \notin c.todo \cup c.confirmed
       PROVE  Dead(rows[j])
  <2>1. CASE j = k
    BY <1>4, <1>9, <1>12, <2>1
  <2>2. CASE j # k
    <3>1. j \notin r.todo \cup r.confirmed
      BY <1>4, <1>12, <2>2
    <3> QED BY <1>3, <1>12, <3>1 DEF SessionSound
  <2> QED BY <2>1, <2>2
<1>13. SessionSound(c)
  BY <1>3, <1>4, <1>10, <1>11, <1>12 DEF SessionSound
<1>14. sess' = [sess EXCEPT ![s] = c] /\ UNCHANGED <<chain, signed, rows, vouchers, lock>>
  BY <1>1 DEF Settle
<1> HIDE DEF c
<1> QED BY <1>2, <1>3, <1>13, <1>14, SessionStep

LEMMA ReadClaimStateSound ==
  ASSUME Single, NEW s \in Servers, TypeOK, RowsSound, ReadClaimState(s), TypeOK'
  PROVE  RowsSound'
<1> DEFINE r == sess[s]
           c == [r EXCEPT !.step = "position"]
<1>1. sess' = [sess EXCEPT ![s] = c] /\ UNCHANGED <<chain, signed, rows, vouchers, lock>>
  BY DEF ReadClaimState
<1>2. r \in Session /\ c \in Session /\ r.wallet \in Wallets /\ lock = s /\ SessionSound(r)
  BY <1>1 DEF TypeOK, ReadClaimState, RowsSound, SessionsSound
<1>3. r.step = "settling" /\ r.op = "issue" /\ r.todo = {} /\ OwnActive(r) = {}
  BY DEF ReadClaimState
<1>4. <<live, r.wallet>> \notin Active(r)
  BY <1>3 DEF OwnActive
<1>5. /\ c.step = "position" /\ c.op = r.op /\ c.records = r.records /\ c.staged = r.staged
      /\ c.clock = r.clock /\ c.todo = r.todo /\ c.confirmed = r.confirmed
      /\ c.wallet = r.wallet
  BY <1>2 DEF Session
<1>6. Active(c) = Active(r)
  BY <1>5 DEF Active
<1>7. SessionSound(c)
  BY <1>2, <1>3, <1>4, <1>5, <1>6 DEF SessionSound, Staged
<1> HIDE DEF c
<1> QED BY <1>1, <1>2, <1>7, SessionStep

-----------------------------------------------------------------------------
\* What the commit of a sound request's staged rows does to the table.
LEMMA CommitRows ==
  ASSUME NEW s \in Servers, TypeOK, RowsSound, sess[s].step \in {"settling", "position"}
  PROVE  /\ sess[s] \in Session /\ sess[s].records = rows
         /\ \A table \in [Keys -> Row] : Committed(sess[s], table) = table
         /\ sess[s].staged \in [Keys -> Row]
         /\ \A k \in Keys :
              /\ sess[s].staged[k].nonce = rows[k].nonce
              /\ sess[s].staged[k].unit = rows[k].unit /\ sess[s].staged[k].block = rows[k].block
              /\ sess[s].staged[k].deadline = rows[k].deadline
              /\ \/ sess[s].staged[k].status = rows[k].status
                 \/ sess[s].staged[k].status = "REDEEMED" /\ rows[k].nonce \in usedNonces
                 \/ sess[s].staged[k].status = "EXPIRED" /\ Dead(rows[k])
<1>1. sess[s] \in Session /\ SessionSound(sess[s])
  BY DEF TypeOK, RowsSound, SessionsSound
<1>2. sess[s].records = rows /\ \A k \in Keys : Staged(sess[s], k)
  BY <1>1 DEF SessionSound
<1> QED BY <1>1, <1>2, CommitStaged, StagedRows DEF Session

(***************************************************************************)
(* A commit of settlements only: nonces and deadlines stay, a row turns    *)
(* REDEEMED or EXPIRED for the right reason, and a voucher handed out      *)
(* again is the one its row names.                                         *)
(***************************************************************************)
LEMMA SettlementCommitSound ==
  ASSUME Single, TypeOK, RowsSound, NEW s \in Servers, sess[s].step = "settling",
         rows' = Committed(sess[s], sess[s].staged), Finish(s), UNCHANGED <<chain, signed>>,
         \/ UNCHANGED vouchers
         \/ \E k \in Keys :
              /\ rows[k] \in Issued
              /\ vouchers' = vouchers \cup
                   {[contract |-> k[1], wallet |-> k[2], unit |-> rows[k].unit,
                     deadline |-> rows[k].deadline, nonce |-> rows[k].nonce]}
  PROVE  RowsSound'
<1> USE SingleContract DEF chain
<1> DEFINE r == sess[s]
<1>1. /\ rows' = r.staged
      /\ \A k \in Keys :
           /\ rows'[k].nonce = rows[k].nonce
           /\ rows'[k].unit = rows[k].unit
           /\ rows'[k].deadline = rows[k].deadline
           /\ \/ rows'[k].status = rows[k].status
              \/ rows'[k].status = "REDEEMED" /\ rows[k].nonce \in usedNonces
              \/ rows'[k].status = "EXPIRED" /\ Dead(rows[k])
  BY CommitRows
<1>2. ASSUME NEW k \in Keys, Dead(rows[k]) PROVE Dead(rows[k])'
  BY <1>1, <1>2 DEF Dead
<1>3. ASSUME NEW v \in vouchers', v \notin vouchers
      PROVE  LET k == <<v.contract, v.wallet>>
             IN  /\ k \in Keys /\ k = <<live, v.wallet>> /\ rows[k].nonce = v.nonce
                 /\ rows[k].deadline = v.deadline /\ v.nonce <= signed /\ v.nonce # 0
                 /\ rows[k] \in Issued
                 /\ v = [contract |-> k[1], wallet |-> k[2], unit |-> rows[k].unit,
                         deadline |-> rows[k].deadline, nonce |-> rows[k].nonce]
  <2>1. PICK k \in Keys :
          /\ rows[k] \in Issued
          /\ v = [contract |-> k[1], wallet |-> k[2], unit |-> rows[k].unit,
                  deadline |-> rows[k].deadline, nonce |-> rows[k].nonce]
    BY <1>3
  <2>2. k = <<live, k[2]>> /\ v.wallet = k[2] /\ v.contract = k[1] /\ k = <<k[1], k[2]>>
    <3>1. rows[k].status # "NONE"
      BY <2>1 DEF Issued
    <3>2. k = <<live, k[2]>>
      BY <3>1
    <3> QED BY <2>1, <3>2 DEF Keys
  <2>3. rows[k].nonce <= signed /\ rows[k].nonce # 0
    BY <2>1 DEF RowsSound, NoncesUnique, Issued, Nonces
  <2> QED BY <2>1, <2>2, <2>3
<1>same. ASSUME NEW u \in vouchers, NEW v \in vouchers', v \notin vouchers, u.nonce = v.nonce
      PROVE  u = v
  <2> DEFINE k == <<v.contract, v.wallet>>
  <2>1. k \in Keys /\ rows[k].nonce = u.nonce
    BY <1>3, <1>same
  <2>2. k = <<u.contract, u.wallet>> /\ rows[k].deadline = u.deadline /\ rows[k].unit = u.unit
    BY <2>1 DEF RowsSound, NoncesUnique
  <2>3. u = [contract |-> k[1], wallet |-> k[2], unit |-> rows[k].unit,
             deadline |-> rows[k].deadline, nonce |-> rows[k].nonce]
    BY <2>1, <2>2 DEF Voucher
  <2> QED BY <1>3, <1>same, <2>3
<1>4. NoncesUnique'
  <2>1. ASSUME NEW u \in vouchers', NEW v \in vouchers', u.nonce = v.nonce PROVE u = v
    <3>1. CASE u \in vouchers /\ v \in vouchers
      BY <2>1, <3>1 DEF RowsSound, NoncesUnique
    <3>2. CASE u \notin vouchers /\ v \notin vouchers
      BY <1>3, <2>1, <3>2 DEF RowsSound, NoncesUnique
    <3>3. CASE u \in vouchers /\ v \notin vouchers
      BY <1>3, <1>same, <2>1, <3>3
    <3>4. CASE u \notin vouchers /\ v \in vouchers
      BY <1>3, <1>same, <2>1, <3>4
    <3> QED BY <3>1, <3>2, <3>3, <3>4
  <2>2. ASSUME NEW v \in vouchers', NEW k \in Keys, rows[k].nonce = v.nonce
        PROVE  /\ k = <<v.contract, v.wallet>>
               /\ rows[k].deadline = v.deadline /\ rows[k].unit = v.unit
    <3>1. CASE v \in vouchers
      BY <2>2, <3>1 DEF RowsSound, NoncesUnique
    <3>2. CASE v \notin vouchers
      <4>1. PICK j : j = <<v.contract, v.wallet>>
        OBVIOUS
      <4>2. j \in Keys /\ rows[j].nonce = v.nonce /\ v.nonce # 0
        BY <1>3, <3>2, <4>1
      <4>3. j = k
        BY <2>2, <4>2 DEF RowsSound, NoncesUnique
      <4>4. rows[j].deadline = v.deadline /\ rows[j].unit = v.unit
        BY <1>3, <3>2, <4>1
      <4> QED BY <4>1, <4>3, <4>4
    <3> QED BY <3>1, <3>2
  <2>3. \A v \in vouchers' : v.nonce <= signed
    BY <1>3 DEF RowsSound, NoncesUnique
  <2>4. ASSUME NEW k \in Keys, rows'[k].status = "NONE" PROVE rows'[k].nonce = 0
    BY <1>1, <2>4 DEF RowsSound, NoncesUnique
  <2> QED BY <1>1, <2>1, <2>2, <2>3, <2>4 DEF RowsSound, NoncesUnique
<1>5. ClaimsInTime'
  <2>1. vouchers \subseteq vouchers'
    OBVIOUS
  <2>2. ASSUME NEW v \in vouchers', v.nonce \in usedNonces
        PROVE  claimedAt[live][v.wallet] <= v.deadline
    <3>1. PICK u \in vouchers : u.nonce = v.nonce
      BY <2>2 DEF RowsSound, ClaimsInTime
    <3>2. u = v
      BY <1>4, <2>1, <3>1 DEF NoncesUnique
    <3> QED BY <2>2, <3>2 DEF RowsSound, ClaimsInTime
  <2>3. \A w \in Wallets : rows'[<<live, w>>].nonce = rows[<<live, w>>].nonce
    BY <1>1
  <2>4. ASSUME NEW w \in Wallets, claimedAt[live][w] # Never
        PROVE  claimedAt[live][w] <= now /\ rows'[<<live, w>>].nonce \in usedNonces
    BY <2>3, <2>4 DEF RowsSound, ClaimsInTime, RowOf
  <2>5. \A n \in usedNonces : \E v \in vouchers' : v.nonce = n
    BY <2>1 DEF RowsSound, ClaimsInTime
  <2> QED BY <2>2, <2>4, <2>5 DEF ClaimsInTime, RowOf, Never
<1>6. ReleasedAreDead'
  <2>1. ASSUME NEW v \in vouchers', rows'[<<live, v.wallet>>].nonce # v.nonce
        PROVE  v.deadline < now /\ v.nonce \notin usedNonces
    <3>1. v \in vouchers
      <4> SUFFICES ASSUME v \notin vouchers PROVE FALSE
        OBVIOUS
      <4>1. PICK j : j = <<live, v.wallet>>
        OBVIOUS
      <4>2. j \in Keys /\ rows[j].nonce = v.nonce
        BY <1>3, <4>1
      <4> QED BY <1>1, <2>1, <4>1, <4>2
    <3> QED BY <1>1, <2>1, <3>1 DEF RowsSound, ReleasedAreDead, RowOf
  <2>2. ASSUME NEW k \in Keys, rows'[k].status = "EXPIRED" PROVE Dead(rows[k])'
    BY <1>1, <1>2, <2>2 DEF RowsSound, ReleasedAreDead
  <2>3. ASSUME NEW k \in Keys, rows'[k].status = "REDEEMED" PROVE rows'[k].nonce \in usedNonces
    BY <1>1, <2>3 DEF RowsSound, ReleasedAreDead
  <2> QED BY <2>1, <2>2, <2>3 DEF ReleasedAreDead, RowOf
<1>7. SessionsSound'
  BY FinishSound DEF RowsSound
<1> QED BY <1>4, <1>5, <1>6, <1>7 DEF RowsSound

(***************************************************************************)
(* A new voucher replaces only a row that can never be redeemed: none, an  *)
(* EXPIRED one, or an overdue one this request found unclaimed.            *)
(***************************************************************************)
LEMMA IssueSound ==
  ASSUME Single, NEW s \in Servers, TypeOK, RowsSound, Issue(s), TypeOK'
  PROVE  RowsSound'
<1> USE ClaimAssumption, SingleContract
<1> DEFINE r == sess[s]
           w == r.wallet
           key == <<live, w>>
           n == signed + 1
<1>1. PICK through \in 0..HeadBlock, unit \in TokenIds, deadline \in Nat :
        /\ signed' = n
        /\ rows' = Committed(r, [r.staged EXCEPT ![key] =
               [status |-> "PENDING", block |-> through, unit |-> unit,
                deadline |-> deadline, nonce |-> n]])
        /\ \/ vouchers' = vouchers \cup
                {[contract |-> live, wallet |-> w, unit |-> unit,
                  deadline |-> deadline, nonce |-> n]}
           \/ UNCHANGED vouchers
  <2>1. ASSUME NEW clock \in ServerClocks PROVE Lesser(clock + Life, Closes[live] - 1) \in Nat
    BY DEF ServerClocks, Lesser, TypeOK, Times, Contracts
  <2> QED BY <2>1 DEF Issue, Eligible
<1>2. Finish(s) /\ UNCHANGED chain /\ r.step = "position"
  BY DEF Issue
<1> DEFINE row == [status |-> "PENDING", block |-> through, unit |-> unit,
                   deadline |-> deadline, nonce |-> n]
           voucher == [contract |-> live, wallet |-> w, unit |-> unit,
                       deadline |-> deadline, nonce |-> n]
<1>3. r \in Session /\ w \in Wallets /\ key \in Keys /\ lock = s /\ SessionSound(r)
  BY <1>2 DEF TypeOK, RowsSound, SessionsSound
<1>4. signed \in Nat /\ signed' = signed + 1
  BY <1>1 DEF TypeOK
<1>5. row \in Row
  <2>1. through \in 0..MaxBlocks
    BY DEF TypeOK, HeadBlock
  <2>2. n \in Nonces
    BY DEF Issue
  <2> QED BY <2>1, <2>2 DEF Row, Issued
<1>6. rows' = [r.staged EXCEPT ![key] = row] /\ r.staged \in [Keys -> Row]
  <2> DEFINE table == [r.staged EXCEPT ![key] = row]
  <2>1. r.staged \in [Keys -> Row] /\ table \in [Keys -> Row]
    BY <1>3, <1>5 DEF Session
  <2>2. rows' = Committed(r, table)
    BY <1>1
  <2> HIDE DEF table
  <2>3. Committed(r, table) = table
    BY <1>2, <2>1, CommitRows
  <2> QED BY <2>1, <2>2, <2>3 DEF table
<1>7. \A k \in Keys \ {key} :
        /\ rows'[k].nonce = rows[k].nonce
        /\ rows'[k].unit = rows[k].unit
        /\ rows'[k].deadline = rows[k].deadline
        /\ \/ rows'[k].status = rows[k].status
           \/ rows'[k].status = "REDEEMED" /\ rows[k].nonce \in usedNonces
           \/ rows'[k].status = "EXPIRED" /\ Dead(rows[k])
  BY <1>2, <1>6, CommitRows
<1>8. rows'[key] = row /\ row.nonce = n /\ row.deadline = deadline /\ row.unit = unit
      /\ row.status = "PENDING"
  BY <1>3, <1>6
<1>9. rows[key].nonce = 0 \/ Dead(rows[key])
  <2>1. key \notin Active(r) /\ r.records = rows /\ r.todo = {} /\ r.op = "issue"
    BY <1>2, <1>3 DEF SessionSound, TypeOK
  <2>2. CASE rows[key].status = "NONE"
    BY <1>3, <2>2 DEF RowsSound, NoncesUnique
  <2>3. CASE rows[key].status = "EXPIRED"
    BY <1>3, <2>3 DEF RowsSound, ReleasedAreDead
  <2>4. CASE rows[key].status = "PENDING"
    <3>1. Overdue(rows[key], r.clock) /\ key \notin r.confirmed
      BY <1>3, <2>1, <2>4 DEF Active
    <3> QED BY <1>2, <1>3, <2>1, <3>1 DEF SessionSound
  <2>5. rows[key].status # "REDEEMED"
    BY <1>3, <2>1 DEF Active
  <2> QED BY <1>3, <2>2, <2>3, <2>4, <2>5 DEF TypeOK, Row, Issued, NoRow
<1>10. rows[key].nonce \notin usedNonces /\ n \notin usedNonces
  <2>1. 0 \notin usedNonces
    BY DEF TypeOK, Nonces
  <2>2. n \notin usedNonces
    BY <1>4 DEF RowsSound, ClaimsInTime, NoncesUnique, TypeOK, Voucher, Nonces
  <2> QED BY <1>9, <2>1, <2>2 DEF Dead
<1>11. \A v \in vouchers : v.nonce <= signed /\ v.nonce \in Nat /\ v.nonce # 0
  BY DEF RowsSound, NoncesUnique, TypeOK, Voucher, Nonces
<1>12. \A k \in Keys : rows[k].nonce <= signed /\ rows[k].nonce \in Nat
  BY DEF RowsSound, NoncesUnique, TypeOK, Row, Issued, NoRow, Nonces
<1>13. \A v \in vouchers' : v \in vouchers \/ v = voucher
  BY <1>1
<1>14. voucher.nonce = n /\ voucher.deadline = deadline /\ voucher.wallet = w
       /\ voucher.contract = live /\ voucher.unit = unit
  OBVIOUS
<1> HIDE DEF row, voucher
<1>15. NoncesUnique'
  <2>1. \A k \in Keys : rows'[k].nonce <= signed'
    BY <1>4, <1>7, <1>8, <1>12
  <2>2. \A v \in vouchers' : v.nonce <= signed'
    BY <1>4, <1>11, <1>13, <1>14
  <2>3. ASSUME NEW u \in vouchers', NEW v \in vouchers', u.nonce = v.nonce PROVE u = v
    BY <1>4, <1>11, <1>13, <1>14, <2>3 DEF RowsSound, NoncesUnique
  <2>4. ASSUME NEW v \in vouchers', NEW k \in Keys, rows'[k].nonce = v.nonce
        PROVE  /\ k = <<v.contract, v.wallet>>
               /\ rows'[k].deadline = v.deadline /\ rows'[k].unit = v.unit
    <3>1. CASE k = key
      BY <1>4, <1>8, <1>11, <1>13, <1>14, <2>4, <3>1
    <3>2. CASE k # key
      <4>1. v \in vouchers
        BY <1>4, <1>7, <1>12, <1>13, <1>14, <2>4, <3>2
      <4> QED BY <1>7, <2>4, <3>2, <4>1 DEF RowsSound, NoncesUnique
    <3> QED BY <3>1, <3>2
  <2>5. ASSUME NEW k \in Keys, NEW j \in Keys,
               rows'[k].nonce = rows'[j].nonce, rows'[k].nonce # 0
        PROVE  k = j
    <3>1. CASE k # key /\ j # key
      BY <1>7, <2>5, <3>1 DEF RowsSound, NoncesUnique
    <3>2. CASE k = key \/ j = key
      BY <1>4, <1>7, <1>8, <1>12, <2>5, <3>2
    <3> QED BY <3>1, <3>2
  <2>6. ASSUME NEW k \in Keys, rows'[k].status = "NONE" PROVE rows'[k].nonce = 0
    BY <1>7, <1>8, <2>6 DEF RowsSound, NoncesUnique
  <2> QED BY <2>1, <2>2, <2>3, <2>4, <2>5, <2>6 DEF NoncesUnique
<1>16. ClaimsInTime'
  <2>1. UNCHANGED <<live, claimedAt, usedNonces, now>>
    BY <1>2 DEF chain
  <2>2. \A m \in usedNonces : \E v \in vouchers' : v.nonce = m
    BY <1>1 DEF RowsSound, ClaimsInTime
  <2>3. \A v \in vouchers' : v.nonce \in usedNonces => claimedAt[live][v.wallet] <= v.deadline
    BY <1>10, <1>13, <1>14 DEF RowsSound, ClaimsInTime
  <2>4. ASSUME NEW x \in Wallets, claimedAt[live][x] # Never
        PROVE  claimedAt[live][x] <= now /\ rows'[<<live, x>>].nonce \in usedNonces
    <3>1. x # w
      BY <1>10, <2>4 DEF RowsSound, ClaimsInTime, RowOf
    <3>2. <<live, x>> # key
      BY <3>1
    <3> QED BY <1>7, <2>4, <3>2 DEF RowsSound, ClaimsInTime, RowOf
  <2> QED BY <2>1, <2>2, <2>3, <2>4 DEF ClaimsInTime, RowOf, Never
<1>17. ReleasedAreDead'
  <2>1. UNCHANGED <<live, usedNonces, now>>
    BY <1>2 DEF chain
  <2>2. ASSUME NEW v \in vouchers', rows'[<<live, v.wallet>>].nonce # v.nonce
        PROVE  v.deadline < now /\ v.nonce \notin usedNonces
    <3>1. v \in vouchers
      BY <1>8, <1>13, <1>14, <2>2
    <3>2. CASE v.wallet = w
      <4>1. CASE rows[key].nonce = v.nonce
        <5>1. Dead(rows[key]) /\ rows[key].deadline = v.deadline
          BY <1>3, <1>9, <1>11, <3>1, <4>1 DEF RowsSound, NoncesUnique
        <5> QED BY <4>1, <5>1 DEF Dead
      <4>2. CASE rows[key].nonce # v.nonce
        BY <3>1, <3>2, <4>2 DEF RowsSound, ReleasedAreDead, RowOf
      <4> QED BY <4>1, <4>2
    <3>3. CASE v.wallet # w
      <4>1. <<live, v.wallet>> # key /\ <<live, v.wallet>> \in Keys
        BY <3>1, <3>3
      <4> QED BY <1>7, <2>2, <3>1, <4>1 DEF RowsSound, ReleasedAreDead, RowOf
    <3> QED BY <3>2, <3>3
  <2>3. ASSUME NEW k \in Keys, rows'[k].status = "EXPIRED" PROVE Dead(rows[k])'
    BY <1>7, <1>8, <2>1, <2>3 DEF RowsSound, ReleasedAreDead, Dead
  <2>4. ASSUME NEW k \in Keys, rows'[k].status = "REDEEMED" PROVE rows'[k].nonce \in usedNonces
    BY <1>7, <1>8, <2>4 DEF RowsSound, ReleasedAreDead
  <2> QED BY <2>1, <2>2, <2>3, <2>4 DEF ReleasedAreDead, RowOf
<1>18. SessionsSound'
  BY <1>2, FinishSound DEF RowsSound
<1> QED BY <1>15, <1>16, <1>17, <1>18 DEF RowsSound

\* The chain's own steps: claims, transfers and time.
LEMMA ClaimSound ==
  ASSUME Single, NEW v \in vouchers, TypeOK, RowsSound, Claim(v), TypeOK'
  PROVE  RowsSound'
<1> USE SingleContract
<1> DEFINE w == v.wallet
<1>1. /\ v \in Voucher /\ w \in Wallets /\ v.contract = live /\ <<live, w>> \in Keys
      /\ now <= v.deadline /\ now \in Times /\ v.deadline \in Nat /\ now \in Nat
  BY DEF Claim, Voucher, TypeOK, Times
<1>2. /\ claimedAt' = [claimedAt EXCEPT ![live][w] = now]
      /\ usedNonces' = usedNonces \cup {v.nonce}
      /\ UNCHANGED <<now, live, signed, rows, vouchers, lock, sess>>
  BY <1>1 DEF Claim, service
<1>3. rows[<<live, w>>].nonce = v.nonce
  BY <1>1 DEF RowsSound, ReleasedAreDead, RowOf
<1>4. ASSUME NEW k \in Keys, Dead(rows[k]) PROVE Dead(rows[k])'
  <2>1. rows[k].nonce # v.nonce
    BY <1>1, <1>4 DEF Dead, RowsSound, NoncesUnique
  <2> QED BY <1>2, <1>4, <2>1 DEF Dead
<1>5. NoncesUnique'
  BY <1>2 DEF RowsSound, NoncesUnique
<1>6. ClaimsInTime'
  <2>1. \A n \in usedNonces' : \E u \in vouchers' : u.nonce = n
    BY <1>2 DEF RowsSound, ClaimsInTime
  <2>2. ASSUME NEW u \in vouchers, u.nonce \in usedNonces'
        PROVE  claimedAt'[live][u.wallet] <= u.deadline
    <3>1. CASE u.nonce = v.nonce
      <4>1. u = v
        BY <3>1 DEF RowsSound, NoncesUnique
      <4> QED BY <1>1, <1>2, <4>1 DEF TypeOK, Contracts
    <3>2. CASE u.nonce # v.nonce
      <4>1. u.nonce \in usedNonces
        BY <1>2, <2>2, <3>2
      <4>2. u.wallet # w
        <5> SUFFICES ASSUME u.wallet = w PROVE FALSE
          OBVIOUS
        <5> QED BY <1>3, <3>2, <4>1 DEF RowsSound, ReleasedAreDead, RowOf
      <4> QED BY <1>1, <1>2, <4>1, <4>2 DEF RowsSound, ClaimsInTime, TypeOK, Contracts
    <3> QED BY <3>1, <3>2
  <2>3. ASSUME NEW x \in Wallets, claimedAt'[live][x] # Never
        PROVE  claimedAt'[live][x] <= now /\ RowOf(x).nonce \in usedNonces'
    <3>1. CASE x = w
      BY <1>1, <1>2, <1>3, <3>1 DEF TypeOK, Contracts, RowOf
    <3>2. CASE x # w
      <4>1. claimedAt'[live][x] = claimedAt[live][x]
        BY <1>1, <1>2, <3>2 DEF TypeOK, Contracts
      <4> QED BY <1>2, <2>3, <4>1 DEF RowsSound, ClaimsInTime
    <3> QED BY <3>1, <3>2
  <2> QED BY <1>2, <2>1, <2>2, <2>3 DEF ClaimsInTime, RowOf, Never
<1>7. ReleasedAreDead'
  <2>1. ASSUME NEW u \in vouchers, RowOf(u.wallet).nonce # u.nonce
        PROVE  u.deadline < now /\ u.nonce \notin usedNonces'
    <3>1. u # v
      BY <1>3, <2>1 DEF RowOf
    <3>2. u.nonce # v.nonce
      BY <3>1 DEF RowsSound, NoncesUnique
    <3> QED BY <1>2, <2>1, <3>2 DEF RowsSound, ReleasedAreDead
  <2>2. \A k \in Keys : rows[k].status = "EXPIRED" => Dead(rows[k])'
    BY <1>4 DEF RowsSound, ReleasedAreDead
  <2>3. \A k \in Keys : rows[k].status = "REDEEMED" => rows[k].nonce \in usedNonces'
    BY <1>2 DEF RowsSound, ReleasedAreDead
  <2> QED BY <1>2, <2>1, <2>2, <2>3 DEF ReleasedAreDead, RowOf, Dead
<1>8. ASSUME NEW q \in Servers, sess[q].step # "idle"
      PROVE  lock' = q /\ SessionSound(sess[q])'
  <2>1. lock = q /\ SessionSound(sess[q]) /\ sess[q] \in Session
    BY <1>8 DEF RowsSound, SessionsSound, TypeOK
  <2>2. sess[q].records = rows
    BY <2>1 DEF SessionSound
  <2>3. ASSUME NEW k \in Keys, Staged(sess[q], k) PROVE Staged(sess[q], k)'
    BY <1>2, <1>4, <2>2, <2>3 DEF Staged
  <2> QED BY <1>2, <1>4, <2>1, <2>2, <2>3 DEF SessionSound, Active, Overdue
<1> QED BY <1>2, <1>5, <1>6, <1>7, <1>8 DEF RowsSound, SessionsSound

LEMMA TickSound ==
  ASSUME TypeOK, RowsSound, Tick
  PROVE  RowsSound'
<1>1. now' = now + 1 /\ now \in Nat
      /\ UNCHANGED <<live, claimedAt, usedNonces, signed, rows, vouchers, lock, sess>>
  BY DEF Tick, TypeOK, Times, service
<1>2. ASSUME NEW k \in Keys, Dead(rows[k]) PROVE Dead(rows[k])'
  <2>1. rows[k].deadline \in Nat
    BY DEF TypeOK, Row, Issued, NoRow
  <2> QED BY <1>1, <1>2, <2>1 DEF Dead
<1>3. NoncesUnique'
  BY <1>1 DEF RowsSound, NoncesUnique
<1>4. ClaimsInTime'
  <2>1. ASSUME NEW w \in Wallets, claimedAt[live][w] # Never
        PROVE  claimedAt[live][w] <= now' /\ RowOf(w).nonce \in usedNonces
    <3>1. claimedAt[live][w] \in Nat /\ claimedAt[live][w] <= now /\ RowOf(w).nonce \in usedNonces
      BY <2>1, ClaimAssumption DEF RowsSound, ClaimsInTime, TypeOK, Times, Never, Contracts
    <3> QED BY <1>1, <3>1
  <2> QED BY <1>1, <2>1 DEF RowsSound, ClaimsInTime, RowOf, Never
<1>5. ReleasedAreDead'
  <2>1. ASSUME NEW v \in vouchers, RowOf(v.wallet).nonce # v.nonce
        PROVE  v.deadline < now' /\ v.nonce \notin usedNonces
    <3>1. v.deadline \in Nat
      BY DEF TypeOK, Voucher
    <3> QED BY <1>1, <2>1, <3>1 DEF RowsSound, ReleasedAreDead
  <2>2. \A k \in Keys : rows[k].status = "EXPIRED" => Dead(rows[k])'
    BY <1>2 DEF RowsSound, ReleasedAreDead
  <2> QED BY <1>1, <2>1, <2>2 DEF RowsSound, ReleasedAreDead, RowOf, Dead
<1>6. ASSUME NEW q \in Servers, sess[q].step # "idle"
      PROVE  lock' = q /\ SessionSound(sess[q])'
  <2>1. lock = q /\ SessionSound(sess[q]) /\ sess[q] \in Session
    BY <1>6 DEF RowsSound, SessionsSound, TypeOK
  <2>2. sess[q].records = rows /\ sess[q].clock <= now'
    <3>1. sess[q].clock \in Nat /\ sess[q].clock <= now /\ sess[q].records = rows
      BY <2>1 DEF SessionSound, Session
    <3> QED BY <1>1, <3>1
  <2>3. ASSUME NEW k \in Keys, Staged(sess[q], k) PROVE Staged(sess[q], k)'
    BY <1>1, <1>2, <2>2, <2>3 DEF Staged
  <2> QED BY <1>1, <1>2, <2>1, <2>2, <2>3 DEF SessionSound, Active, Overdue
<1> QED BY <1>1, <1>3, <1>4, <1>5, <1>6 DEF RowsSound, SessionsSound

\* Nothing the invariant speaks of changes.
LEMMA UntouchedSound ==
  ASSUME RowsSound, UNCHANGED <<now, live, claimedAt, usedNonces, signed, rows, vouchers, lock, sess>>
  PROVE  RowsSound'
<1>1. NoncesUnique' /\ ClaimsInTime' /\ ReleasedAreDead'
  BY DEF RowsSound, NoncesUnique, ClaimsInTime, ReleasedAreDead, RowOf, Dead
<1>2. SessionsSound'
  BY DEF RowsSound, SessionsSound, SessionSound, Staged, Dead, Active, Overdue
<1> QED BY <1>1, <1>2 DEF RowsSound

(***************************************************************************)
(* While every row is of the live contract, each step but a recovery keeps *)
(* rows, vouchers, claims and open requests together as RowsSound says.    *)
(***************************************************************************)
LEMMA RowsStep ==
  ASSUME Single, TypeOK, TypeOK', RowsSound, [Next]_vars, ~DeployRecovery
  PROVE  RowsSound'
<1>1. ASSUME NEW s \in Servers, Request(s) PROVE RowsSound'
  BY <1>1, BeginSound DEF Request, BeginIssue, BeginReconcile
<1>2. ASSUME NEW s \in Servers, Proceed(s) PROVE RowsSound'
  <2>1. CASE ReadClock(s)
    BY <2>1, ReadClockSound
  <2>2. CASE \E k \in Keys : Settle(s, k)
    BY <2>2, SettleSound
  <2>3. CASE FinishReconcile(s)
    BY <2>3, SettlementCommitSound DEF FinishReconcile
  <2>4. CASE ReturnOwn(s)
    <3> DEFINE r == sess[s]
    <3>1. PICK k \in OwnActive(r) :
            /\ r.records[k].status = "PENDING"
            /\ vouchers' = vouchers \cup
                 {[contract |-> k[1], wallet |-> k[2], unit |-> r.records[k].unit,
                   deadline |-> r.records[k].deadline, nonce |-> r.records[k].nonce]}
      BY <2>4 DEF ReturnOwn
    <3>2. r.step = "settling" /\ r.records = rows
      BY <2>4, CommitRows DEF ReturnOwn
    <3>3. k \in Keys /\ rows[k] \in Issued
      BY <3>1, <3>2 DEF OwnActive, Active, TypeOK, Row, NoRow
    <3> QED BY <2>4, <3>1, <3>2, <3>3, SettlementCommitSound DEF ReturnOwn
  <2>5. CASE ReadClaimState(s)
    BY <2>5, ReadClaimStateSound
  <2>6. CASE Issue(s)
    BY <2>6, IssueSound
  <2>7. CASE Abort(s)
    <3>1. SessionsSound'
      BY <2>7, FinishSound DEF Abort, RowsSound
    <3>2. NoncesUnique' /\ ClaimsInTime' /\ ReleasedAreDead'
      BY <2>7 DEF Abort, chain, RowsSound, NoncesUnique, ClaimsInTime, ReleasedAreDead, RowOf, Dead
    <3> QED BY <3>1, <3>2 DEF RowsSound
  <2> QED BY <1>2, <2>1, <2>2, <2>3, <2>4, <2>5, <2>6, <2>7 DEF Proceed
<1>3. ASSUME NEW v \in vouchers, Claim(v) PROVE RowsSound'
  BY <1>3, ClaimSound
<1>4. ASSUME NEW t \in Transfers(Amounts), Transfer(t) PROVE RowsSound'
  BY <1>4, UntouchedSound DEF Transfer, service
<1>5. CASE Tick
  BY <1>5, TickSound
<1>6. CASE UNCHANGED vars
  BY <1>6, UntouchedSound DEF vars
<1> QED BY <1>1, <1>2, <1>3, <1>4, <1>5, <1>6 DEF Next

\* No row has been written for the live contract or an earlier one.
Fresh ==
  /\ rows = [k \in Keys |-> NoRow] /\ vouchers = {} /\ usedNonces = {}
  /\ \A w \in Wallets : claimedAt[live][w] = Never
  /\ \A s \in Servers : sess[s].step = "idle"

LEMMA FreshSound ==
  ASSUME TypeOK, Fresh
  PROVE  RowsSound
<1>1. \A k \in Keys : rows[k].nonce = 0 /\ rows[k].status = "NONE"
  BY DEF Fresh, NoRow
<1>2. NoncesUnique
  <2>1. \A k, j \in Keys : rows[k].nonce # 0 => FALSE
    BY <1>1
  <2> QED BY <1>1, <2>1 DEF Fresh, NoncesUnique, TypeOK
<1>3. ClaimsInTime /\ ReleasedAreDead
  BY <1>1 DEF Fresh, ClaimsInTime, ReleasedAreDead
<1>4. SessionsSound
  BY DEF Fresh, SessionsSound
<1> QED BY <1>2, <1>3, <1>4 DEF RowsSound

LEMMA StandingReserved ==
  ASSUME Single, TypeOK, RowsSound
  PROVE  StandingVoucherReserved
<1> SUFFICES ASSUME NEW v \in vouchers, Standing(v)
             PROVE  LET row == rows[<<v.contract, v.wallet>>]
                    IN  row.nonce = v.nonce /\ row.status \in {"PENDING", "REDEEMED"}
  BY DEF StandingVoucherReserved
<1> DEFINE k == <<live, v.wallet>>
<1>1. v.contract = live /\ k \in Keys /\ v.deadline \in Nat /\ v.nonce # 0 /\ now \in Nat
  BY SingleContract DEF Voucher, Nonces, TypeOK, Times
<1>2. v.nonce \in usedNonces \/ now <= v.deadline
  BY DEF Standing, Redeemable
<1>3. rows[k].nonce = v.nonce /\ rows[k].deadline = v.deadline
  BY <1>1, <1>2 DEF RowsSound, ReleasedAreDead, RowOf, NoncesUnique
<1>4. rows[k].status # "NONE"
  BY <1>1, <1>3 DEF RowsSound, NoncesUnique
<1>5. rows[k].status # "EXPIRED"
  BY <1>1, <1>2, <1>3 DEF RowsSound, ReleasedAreDead, Dead
<1> QED BY <1>1, <1>3, <1>4, <1>5 DEF TypeOK, Row, Issued, NoRow

LEMMA SoundIsTruthful == RowsSound => SettledTruthfully
BY DEF RowsSound, ReleasedAreDead, SettledTruthfully, Dead

LEMMA LeastOfNaturals ==
  ASSUME NEW T, T \subseteq Nat, T # {} PROVE \E x \in T : \A y \in T : x <= y
<1> DEFINE R == StrictSubsetOrdering(Nat)
           U == {1..n : n \in T}
<1>1. U \subseteq FiniteSubsetsOf(Nat)
  <2> SUFFICES ASSUME NEW n \in T PROVE 1..n \in FiniteSubsetsOf(Nat)
    OBVIOUS
  <2>1. 1 \in Int /\ n \in Int
    OBVIOUS
  <2>2. IsFiniteSet(1..n)
    BY <2>1, FS_Interval
  <2>3. 1..n \in SUBSET Nat
    OBVIOUS
  <2> QED BY <2>2, <2>3 DEF FiniteSubsetsOf
<1>2. U # {}
  OBVIOUS
<1>3. IsWellFoundedOn(R, FiniteSubsetsOf(Nat))
  BY FS_StrictSubsetOrderingWellFounded
<1> HIDE DEF R
<1>4. PICK u \in U : \A v \in U : ~ (<<v, u>> \in R)
  BY <1>1, <1>2, <1>3, WFMin
<1>5. PICK x \in T : u = 1..x
  OBVIOUS
<1>6. ASSUME NEW y \in T, ~(x <= y) PROVE FALSE
  <2>1. 1..y \in U /\ x \in Nat /\ y \in Nat /\ y < x
    BY <1>6
  <2>2. 1..y \subseteq 1..x /\ x \in 1..x /\ x \notin 1..y
    BY <2>1
  <2>3. <<1..y, 1..x>> \in R
    <3>1. 1..y \in SUBSET Nat /\ 1..x \in SUBSET Nat /\ 1..y # 1..x
      BY <2>2
    <3>2. <<1..y, 1..x>> \in (SUBSET Nat) \X (SUBSET Nat)
      BY <3>1
    <3> QED BY <2>2, <3>1, <3>2 DEF R, StrictSubsetOrdering
  <2> QED BY <1>4, <1>5, <2>1, <2>3
<1> QED BY <1>6

\* What holds at 0 and at each next number holds up to a bound.
LEMMA Climb ==
  ASSUME NEW L \in Nat, NEW P, 0 \in P, \A n \in 0..(L - 1) : n \in P => n + 1 \in P
  PROVE  \A n \in 0..L : n \in P
<1> DEFINE T == {n \in 0..L : n \notin P}
<1>1. ASSUME T # {} PROVE FALSE
  <2>1. T \subseteq Nat
    OBVIOUS
  <2>2. PICK x \in T : \A y \in T : x <= y
    BY <1>1, <2>1, LeastOfNaturals
  <2>3. x \in 0..L /\ x \notin P /\ x # 0
    BY <2>2
  <2>4. x - 1 \in 0..(L - 1) /\ x - 1 \in 0..L /\ ~(x <= x - 1)
    BY <2>3
  <2>5. x - 1 \in P
    BY <2>2, <2>4
  <2>6. (x - 1) + 1 \in P /\ (x - 1) + 1 = x
    BY <2>3, <2>4, <2>5
  <2> QED BY <2>3, <2>6
<1> QED BY <1>1

-----------------------------------------------------------------------------
(***************************************************************************)
(* The two replays, step by step.                                          *)
(***************************************************************************)
LEMMA BalanceSteps ==
  ASSUME NEW T, NEW h \in Seq(T)
  PROVE  /\ BalancesAt(h, 0) = InitialUnits
         /\ \A n \in 1..Len(h) : BalancesAt(h, n) = Shift(BalancesAt(h, n - 1), h[n], h[n].amount)
<1> DEFINE Upto(m, f) ==
             f = [n \in 0..m |-> IF n = 0 THEN InitialUnits ELSE Shift(f[n - 1], h[n], h[n].amount)]
           P == {m \in 0..Len(h) : \E f : Upto(m, f)}
<1>0. Len(h) \in Nat
  BY LenProperties
<1>p. \A m \in 0..Len(h) : \A f : Upto(m, f) => m \in P
  <2> HIDE DEF Upto
  <2> QED OBVIOUS
<1>1. 0 \in P
  <2> DEFINE f == [n \in 0..0 |-> InitialUnits]
  <2>1. Upto(0, f)
    OBVIOUS
  <2> HIDE DEF P, Upto, f
  <2> QED BY <1>0, <1>p, <2>1
<1>2. ASSUME NEW m \in 0..(Len(h) - 1), m \in P PROVE m + 1 \in P
  <2>1. PICK f : Upto(m, f)
    BY <1>2
  <2> DEFINE g == [n \in 0..(m + 1) |-> IF n = m + 1 THEN Shift(f[m], h[m + 1], h[m + 1].amount) ELSE f[n]]
  <2>2. \A n \in 0..m : g[n] = f[n]
    BY <1>0
  <2>3. \A n \in 0..(m + 1) : g[n] = IF n = 0 THEN InitialUnits ELSE Shift(g[n - 1], h[n], h[n].amount)
    <3> SUFFICES ASSUME NEW n \in 0..(m + 1)
                 PROVE  g[n] = IF n = 0 THEN InitialUnits ELSE Shift(g[n - 1], h[n], h[n].amount)
      OBVIOUS
    <3>1. CASE n = m + 1
      <4>1. n # 0 /\ n - 1 = m /\ g[n] = Shift(f[m], h[n], h[n].amount) /\ g[m] = f[m]
        BY <1>0, <2>2, <3>1
      <4> HIDE DEF g
      <4> QED BY ONLY <4>1
    <3>2. CASE n # m + 1 /\ n # 0
      <4>1. n \in 0..m /\ n - 1 \in 0..m /\ g[n] = f[n] /\ g[n - 1] = f[n - 1]
        BY <1>0, <2>2, <3>2
      <4>2. f[n] = Shift(f[n - 1], h[n], h[n].amount)
        BY <2>1, <3>2, <4>1
      <4> HIDE DEF g
      <4> QED BY <3>2, <4>1, <4>2
    <3>3. CASE n = 0
      <4>1. g[0] = f[0] /\ f[0] = InitialUnits
        BY <1>0, <2>1, <2>2
      <4> HIDE DEF g
      <4> QED BY <3>3, <4>1
    <3> QED BY <3>1, <3>2, <3>3
  <2>4. g = [n \in 0..(m + 1) |-> g[n]]
    OBVIOUS
  <2>5. Upto(m + 1, g)
    <3> HIDE DEF g
    <3> QED BY <2>3, <2>4
  <2> HIDE DEF P, Upto, g
  <2> QED BY <1>0, <1>p, <2>5
<1>3. Len(h) \in P
  <2> HIDE DEF P
  <2>1. \A n \in 0..Len(h) : n \in P
    BY <1>0, <1>1, <1>2, Climb
  <2> QED BY <1>0, <2>1
<1>4. PICK f : Upto(Len(h), f)
  BY <1>3
<1> DEFINE held == CHOOSE e : Upto(Len(h), e)
<1>5. Upto(Len(h), held)
  BY <1>4
<1>6. \A b : BalancesAt(h, b) = held[b]
  BY DEF BalancesAt
<1>7. /\ held[0] = InitialUnits
      /\ \A n \in 1..Len(h) : held[n] = Shift(held[n - 1], h[n], h[n].amount)
  <2> HIDE DEF held
  <2> QED BY <1>0, <1>5
<1> HIDE DEF held
<1> QED BY <1>6, <1>7


NoneUsed == [w \in Wallets |-> [i \in TokenIds |-> 0]]

LEMMA UsedSteps ==
  ASSUME NEW T, NEW h \in Seq(T), NEW R
  PROVE  /\ ReplayUsedUnits(R, h, 0) = Reserve(NoneUsed, R, 0)
         /\ \A n \in 1..Len(h) :
              ReplayUsedUnits(R, h, n) = Reserve(MoveUsed(ReplayUsedUnits(R, h, n - 1), h[n]), R, n)
<1> DEFINE first == Reserve(NoneUsed, R, 0)
           Upto(m, f) ==
             f = [n \in 0..m |-> IF n = 0 THEN first ELSE Reserve(MoveUsed(f[n - 1], h[n]), R, n)]
           P == {m \in 0..Len(h) : \E f : Upto(m, f)}
<1>0. Len(h) \in Nat
  BY LenProperties
<1>p. \A m \in 0..Len(h) : \A f : Upto(m, f) => m \in P
  <2> HIDE DEF Upto
  <2> QED OBVIOUS
<1>1. 0 \in P
  <2> DEFINE f == [n \in 0..0 |-> first]
  <2>1. Upto(0, f)
    OBVIOUS
  <2> HIDE DEF P, Upto, f
  <2> QED BY <1>0, <1>p, <2>1
<1>2. ASSUME NEW m \in 0..(Len(h) - 1), m \in P PROVE m + 1 \in P
  <2>1. PICK f : Upto(m, f)
    BY <1>2
  <2> DEFINE g == [n \in 0..(m + 1) |-> IF n = m + 1 THEN Reserve(MoveUsed(f[m], h[m + 1]), R, m + 1) ELSE f[n]]
  <2>2. \A n \in 0..m : g[n] = f[n]
    BY <1>0
  <2>3. \A n \in 0..(m + 1) : g[n] = IF n = 0 THEN first ELSE Reserve(MoveUsed(g[n - 1], h[n]), R, n)
    <3> SUFFICES ASSUME NEW n \in 0..(m + 1)
                 PROVE  g[n] = IF n = 0 THEN first ELSE Reserve(MoveUsed(g[n - 1], h[n]), R, n)
      OBVIOUS
    <3>1. CASE n = m + 1
      <4>1. n # 0 /\ n - 1 = m /\ g[n] = Reserve(MoveUsed(f[m], h[n]), R, n) /\ g[m] = f[m]
        BY <1>0, <2>2, <3>1
      <4> HIDE DEF g
      <4> QED BY ONLY <4>1
    <3>2. CASE n # m + 1 /\ n # 0
      <4>1. n \in 0..m /\ n - 1 \in 0..m /\ g[n] = f[n] /\ g[n - 1] = f[n - 1]
        BY <1>0, <2>2, <3>2
      <4>2. f[n] = Reserve(MoveUsed(f[n - 1], h[n]), R, n)
        BY <2>1, <3>2, <4>1
      <4> HIDE DEF g
      <4> QED BY <3>2, <4>1, <4>2
    <3>3. CASE n = 0
      <4>1. g[0] = f[0] /\ f[0] = first
        BY <1>0, <2>1, <2>2
      <4> HIDE DEF g
      <4> QED BY <3>3, <4>1
    <3> QED BY <3>1, <3>2, <3>3
  <2>4. g = [n \in 0..(m + 1) |-> g[n]]
    OBVIOUS
  <2>5. Upto(m + 1, g)
    <3> HIDE DEF g
    <3> QED BY <2>3, <2>4
  <2> HIDE DEF P, Upto, g
  <2> QED BY <1>0, <1>p, <2>5
<1>3. Len(h) \in P
  <2> HIDE DEF P
  <2>1. \A n \in 0..Len(h) : n \in P
    BY <1>0, <1>1, <1>2, Climb
  <2> QED BY <1>0, <2>1
<1>4. PICK f : Upto(Len(h), f)
  BY <1>3
<1> DEFINE used == CHOOSE e : Upto(Len(h), e)
<1>5. Upto(Len(h), used)
  BY <1>4
<1>6. \A b : ReplayUsedUnits(R, h, b) = used[b]
  BY DEF ReplayUsedUnits, NoneUsed
<1>7. /\ used[0] = first
      /\ \A n \in 1..Len(h) : used[n] = Reserve(MoveUsed(used[n - 1], h[n]), R, n)
  <2> HIDE DEF used
  <2> QED BY <1>0, <1>5
<1> HIDE DEF used
<1> QED BY <1>6, <1>7


-----------------------------------------------------------------------------
(***************************************************************************)
(* One step of each replay, wallet by wallet and ID by ID.                 *)
(***************************************************************************)
Counts == [Wallets -> [TokenIds -> Nat]]
Below(few, many) == \A w \in Wallets, i \in TokenIds : few[w][i] <= many[w][i]

LEMMA ShiftUnits ==
  ASSUME NEW units \in Counts, NEW t \in Transfers(Nat), NEW a \in Nat, t.from # t.to,
         t.from # Zero => a <= units[t.from][t.id]
  PROVE  /\ Shift(units, t, a) \in Counts
         /\ \A w \in Wallets, i \in TokenIds :
              Shift(units, t, a)[w][i] = IF i # t.id \/ w \notin {t.from, t.to} THEN units[w][i]
                                         ELSE IF w = t.from THEN units[w][i] - a
                                         ELSE units[w][i] + a
<1> USE LedgerAssumption
<1>0. /\ t.from \in Wallets \cup {Zero} /\ t.to \in Wallets \cup {Zero} /\ t.id \in TokenIds
      /\ Zero \notin Wallets
  BY DEF Transfers
<1> DEFINE sent == IF t.from = Zero THEN units
                   ELSE [units EXCEPT ![t.from] = [units[t.from] EXCEPT ![t.id] = units[t.from][t.id] - a]]
<1>1. sent \in Counts /\ \A w \in Wallets, i \in TokenIds :
        sent[w][i] = IF i = t.id /\ w = t.from THEN units[w][i] - a ELSE units[w][i]
  <2>1. CASE t.from = Zero
    BY <1>0, <2>1 DEF Counts
  <2>2. CASE t.from # Zero
    <3>1. t.from \in Wallets /\ units[t.from] \in [TokenIds -> Nat] /\ units[t.from][t.id] - a \in Nat
      <4>1. t.from \in Wallets
        BY <1>0, <2>2
      <4>2. units[t.from] \in [TokenIds -> Nat]
        BY <4>1 DEF Counts
      <4>3. units[t.from][t.id] \in Nat /\ a <= units[t.from][t.id]
        BY <1>0, <2>2, <4>2
      <4>4. units[t.from][t.id] - a \in Nat
        BY ONLY <4>3, a \in Nat
      <4> QED BY <4>1, <4>2, <4>4
    <3> DEFINE row == [units[t.from] EXCEPT ![t.id] = units[t.from][t.id] - a]
    <3>2. row \in [TokenIds -> Nat] /\ row[t.id] = units[t.from][t.id] - a
          /\ \A i \in TokenIds \ {t.id} : row[i] = units[t.from][i]
      BY <1>0, <3>1
    <3>3. sent = [units EXCEPT ![t.from] = row]
      BY <2>2
    <3> HIDE DEF row, sent
    <3> QED BY <1>0, <3>1, <3>2, <3>3 DEF Counts
  <2> QED BY <2>1, <2>2
<1>2. Shift(units, t, a) = IF t.to = Zero THEN sent
                           ELSE [sent EXCEPT ![t.to] = [sent[t.to] EXCEPT ![t.id] = sent[t.to][t.id] + a]]
  BY DEF Shift
<1> HIDE DEF sent
<1>3. CASE t.to = Zero
  BY <1>0, <1>1, <1>2, <1>3
<1>4. CASE t.to # Zero
  <2>1. t.to \in Wallets /\ sent[t.to] \in [TokenIds -> Nat] /\ sent[t.to][t.id] + a \in Nat
    <3>1. t.to \in Wallets
      BY <1>0, <1>4
    <3>2. sent[t.to] \in [TokenIds -> Nat]
      BY <1>1, <3>1 DEF Counts
    <3>3. sent[t.to][t.id] \in Nat
      BY <1>0, <3>2
    <3> QED BY <3>1, <3>2, <3>3
  <2> DEFINE row == [sent[t.to] EXCEPT ![t.id] = sent[t.to][t.id] + a]
  <2>2. row \in [TokenIds -> Nat] /\ row[t.id] = sent[t.to][t.id] + a
        /\ \A i \in TokenIds \ {t.id} : row[i] = sent[t.to][i]
    BY <1>0, <2>1
  <2>3. Shift(units, t, a) = [sent EXCEPT ![t.to] = row]
    BY <1>2, <1>4
  <2> HIDE DEF row
  <2>4. /\ Shift(units, t, a) \in Counts
        /\ Shift(units, t, a)[t.to] = row
        /\ \A w \in Wallets \ {t.to} : Shift(units, t, a)[w] = sent[w]
    BY <1>1, <2>1, <2>2, <2>3 DEF Counts
  <2> QED BY <1>0, <1>1, <2>1, <2>2, <2>4
<1> QED BY <1>3, <1>4

LEMMA MoveUnits ==
  ASSUME NEW used \in Counts, NEW t \in Transfers(Nat), t.from # t.to
  PROVE  /\ MoveUsed(used, t) \in Counts
         /\ \A w \in Wallets, i \in TokenIds :
              MoveUsed(used, t)[w][i] =
                IF i # t.id \/ w \notin {t.from, t.to} \/ t.from = Zero THEN used[w][i]
                ELSE IF w = t.from THEN used[w][i] - Lesser(used[t.from][t.id], t.amount)
                ELSE used[w][i] + Lesser(used[t.from][t.id], t.amount)
<1>1. CASE t.from = Zero
  BY <1>1 DEF MoveUsed
<1>2. CASE t.from # Zero
  <2> DEFINE a == Lesser(used[t.from][t.id], t.amount)
  <2>1. t.from \in Wallets /\ t.id \in TokenIds /\ t.amount \in Nat
    BY <1>2 DEF Transfers
  <2>2. used[t.from][t.id] \in Nat
    BY <2>1 DEF Counts
  <2>3. a \in Nat /\ a <= used[t.from][t.id]
    BY <2>1, <2>2 DEF Lesser
  <2>4. MoveUsed(used, t) = Shift(used, t, a)
    BY <1>2 DEF MoveUsed
  <2> HIDE DEF a
  <2> QED BY <1>2, <2>3, <2>4, ShiftUnits DEF a
<1> QED BY <1>1, <1>2

\* The reservations of a wallet and an ID that count from a block on.
Counted(R, b, w, i) == {r \in R : r.block = b /\ r.wallet = w /\ r.unit = i}

LEMMA ReserveUnits ==
  ASSUME NEW used \in Counts, NEW R, IsFiniteSet(R), NEW b
  PROVE  /\ Reserve(used, R, b) \in Counts
         /\ \A w \in Wallets, i \in TokenIds :
              /\ Cardinality(Counted(R, b, w, i)) \in Nat
              /\ Reserve(used, R, b)[w][i] = used[w][i] + Cardinality(Counted(R, b, w, i))
<1>1. \A w \in Wallets, i \in TokenIds : Cardinality(Counted(R, b, w, i)) \in Nat
  <2> TAKE w \in Wallets, i \in TokenIds
  <2>1. Counted(R, b, w, i) \subseteq R
    BY DEF Counted
  <2> QED BY <2>1, FS_Subset, FS_CardinalityType
<1>2. Reserve(used, R, b) = [w \in Wallets |-> [i \in TokenIds |-> used[w][i] + Cardinality(Counted(R, b, w, i))]]
  BY DEF Reserve, Counted
<1> QED BY <1>1, <1>2 DEF Counts

\* A transfer moves used units on with the units they are counted on.
LEMMA MoveBelow ==
  ASSUME NEW few \in Counts, NEW many \in Counts, Below(few, many), NEW t \in Transfers(Nat), t.from # t.to
  PROVE  Below(MoveUsed(few, t), MoveUsed(many, t))
<1> SUFFICES ASSUME NEW w \in Wallets, NEW i \in TokenIds
             PROVE  MoveUsed(few, t)[w][i] <= MoveUsed(many, t)[w][i]
  BY DEF Below
<1>1. few[w][i] \in Nat /\ many[w][i] \in Nat /\ few[w][i] <= many[w][i]
  BY DEF Counts, Below
<1>2. t.from # Zero => few[t.from][t.id] \in Nat /\ many[t.from][t.id] \in Nat /\ few[t.from][t.id] <= many[t.from][t.id]
  BY DEF Counts, Below, Transfers
<1>3. t.amount \in Nat
  BY DEF Transfers
<1> QED BY SMTT(40), <1>1, <1>2, <1>3, MoveUnits DEF Lesser

LEMMA MoveWithin ==
  ASSUME NEW used \in Counts, NEW units \in Counts, Below(used, units), NEW t \in Transfers(Nat), t.from # t.to,
         t.from # Zero => t.amount <= units[t.from][t.id]
  PROVE  Below(MoveUsed(used, t), Shift(units, t, t.amount))
<1> SUFFICES ASSUME NEW w \in Wallets, NEW i \in TokenIds
             PROVE  MoveUsed(used, t)[w][i] <= Shift(units, t, t.amount)[w][i]
  BY DEF Below
<1>1. used[w][i] \in Nat /\ units[w][i] \in Nat /\ used[w][i] <= units[w][i]
  BY DEF Counts, Below
<1>2. t.from # Zero => used[t.from][t.id] \in Nat /\ units[t.from][t.id] \in Nat /\ used[t.from][t.id] <= units[t.from][t.id]
  BY DEF Counts, Below, Transfers
<1>3. t.amount \in Nat
  BY DEF Transfers
<1> DEFINE m == MoveUsed(used, t)[w][i]
           s == Shift(units, t, t.amount)[w][i]
           l == Lesser(used[t.from][t.id], t.amount)
<1>4. m = IF i # t.id \/ w \notin {t.from, t.to} \/ t.from = Zero THEN used[w][i]
          ELSE IF w = t.from THEN used[w][i] - l ELSE used[w][i] + l
  BY MoveUnits
<1>5. s = IF i # t.id \/ w \notin {t.from, t.to} THEN units[w][i]
          ELSE IF w = t.from THEN units[w][i] - t.amount ELSE units[w][i] + t.amount
  BY <1>3, ShiftUnits
<1>6. t.from # Zero => l \in Nat /\ l <= t.amount /\ l <= used[t.from][t.id]
                       /\ (l = t.amount \/ l = used[t.from][t.id])
  BY <1>2, <1>3 DEF Lesser
<1> HIDE DEF m, s, l
<1>7. CASE i # t.id \/ w \notin {t.from, t.to} \/ t.from = Zero
  <2>1. m = used[w][i] /\ (s = units[w][i] \/ (t.from = Zero /\ w \in Wallets /\ s \in {units[w][i] - t.amount, units[w][i] + t.amount}))
    BY <1>4, <1>5, <1>7
  <2>2. t.from = Zero => w # t.from
    BY LedgerAssumption
  <2>3. s = units[w][i] \/ s = units[w][i] + t.amount
    BY <1>5, <1>7, <2>2
  <2> QED BY <1>1, <1>3, <2>1, <2>3 DEF m, s
<1>8. CASE i = t.id /\ w = t.from /\ t.from # Zero
  <2>1. m = used[w][i] - l /\ s = units[w][i] - t.amount
    BY <1>4, <1>5, <1>8
  <2>2. units[w][i] >= t.amount
    BY <1>8
  <2> QED BY <1>1, <1>3, <1>6, <1>8, <2>1, <2>2 DEF m, s
<1>9. CASE i = t.id /\ w = t.to /\ t.from # Zero
  <2>1. m = used[w][i] + l /\ s = units[w][i] + t.amount
    BY <1>4, <1>5, <1>9
  <2> QED BY <1>1, <1>3, <1>6, <1>9, <2>1 DEF m, s
<1> QED BY <1>7, <1>8, <1>9


-----------------------------------------------------------------------------
(***************************************************************************)
(* Legal histories: a transfer has two ends and takes what its sender has. *)
(***************************************************************************)
Legal(h) ==
  /\ h \in Seq(Transfers(Nat))
  /\ \A n \in 1..Len(h) :
       /\ h[n].from # h[n].to
       /\ h[n].from # Zero => h[n].amount <= BalancesAt(h, n - 1)[h[n].from][h[n].id]

LEMMA BalanceTypes ==
  ASSUME NEW h, Legal(h)
  PROVE  \A n \in 0..Len(h) : BalancesAt(h, n) \in Counts
<1>0. Len(h) \in Nat /\ h \in Seq(Transfers(Nat)) /\ \A n \in 1..Len(h) : h[n] \in Transfers(Nat)
  BY LenProperties, ElementOfSeq DEF Legal
<1> DEFINE P == {n \in 0..Len(h) : BalancesAt(h, n) \in Counts}
<1>1. 0 \in P
  BY <1>0, BalanceSteps, LedgerAssumption DEF Counts
<1>2. ASSUME NEW n \in 0..(Len(h) - 1), n \in P PROVE n + 1 \in P
  <2>1. n + 1 \in 1..Len(h) /\ (n + 1) - 1 = n
    BY <1>0
  <2>2. BalancesAt(h, n + 1) = Shift(BalancesAt(h, n), h[n + 1], h[n + 1].amount)
    BY <1>0, <2>1, BalanceSteps
  <2>3. /\ h[n + 1] \in Transfers(Nat) /\ h[n + 1].amount \in Nat /\ h[n + 1].from # h[n + 1].to
        /\ h[n + 1].from # Zero => h[n + 1].amount <= BalancesAt(h, n)[h[n + 1].from][h[n + 1].id]
    BY <1>0, <2>1 DEF Legal, Transfers
  <2>4. BalancesAt(h, n + 1) \in Counts
    BY <1>2, <2>2, <2>3, ShiftUnits
  <2> QED BY <1>0, <2>1, <2>4
<1>3. \A n \in 0..Len(h) : n \in P
  <2> HIDE DEF P
  <2> QED BY <1>0, <1>1, <1>2, Climb
<1> QED BY <1>3

LEMMA UsedTypes ==
  ASSUME NEW h, Legal(h), NEW R, IsFiniteSet(R)
  PROVE  \A n \in 0..Len(h) : ReplayUsedUnits(R, h, n) \in Counts
<1>0. Len(h) \in Nat /\ h \in Seq(Transfers(Nat)) /\ \A n \in 1..Len(h) : h[n] \in Transfers(Nat)
  BY LenProperties, ElementOfSeq DEF Legal
<1> DEFINE P == {n \in 0..Len(h) : ReplayUsedUnits(R, h, n) \in Counts}
<1>1. 0 \in P
  <2>1. NoneUsed \in Counts
    BY DEF NoneUsed, Counts
  <2> QED BY <1>0, <2>1, UsedSteps, ReserveUnits
<1>2. ASSUME NEW n \in 0..(Len(h) - 1), n \in P PROVE n + 1 \in P
  <2>1. n + 1 \in 1..Len(h) /\ (n + 1) - 1 = n
    BY <1>0
  <2>2. ReplayUsedUnits(R, h, n + 1) = Reserve(MoveUsed(ReplayUsedUnits(R, h, n), h[n + 1]), R, n + 1)
    BY <1>0, <2>1, UsedSteps
  <2>3. h[n + 1] \in Transfers(Nat) /\ h[n + 1].from # h[n + 1].to
    BY <1>0, <2>1 DEF Legal
  <2>4. ReplayUsedUnits(R, h, n + 1) \in Counts
    BY <1>2, <2>2, <2>3, MoveUnits, ReserveUnits
  <2> QED BY <1>0, <2>1, <2>4
<1>3. \A n \in 0..Len(h) : n \in P
  <2> HIDE DEF P
  <2> QED BY <1>0, <1>1, <1>2, Climb
<1> QED BY <1>3

\* One step of a legal history.
LEMMA LegalStep ==
  ASSUME NEW h, Legal(h), NEW R, IsFiniteSet(R), NEW n \in 0..(Len(h) - 1)
  PROVE  /\ n + 1 \in 0..Len(h) /\ n \in 0..Len(h)
         /\ h[n + 1] \in Transfers(Nat) /\ h[n + 1].amount \in Nat /\ h[n + 1].from # h[n + 1].to
         /\ h[n + 1].from # Zero => h[n + 1].amount <= BalancesAt(h, n)[h[n + 1].from][h[n + 1].id]
         /\ BalancesAt(h, n) \in Counts /\ BalancesAt(h, n + 1) \in Counts
         /\ ReplayUsedUnits(R, h, n) \in Counts /\ ReplayUsedUnits(R, h, n + 1) \in Counts
         /\ MoveUsed(ReplayUsedUnits(R, h, n), h[n + 1]) \in Counts
         /\ BalancesAt(h, n + 1) = Shift(BalancesAt(h, n), h[n + 1], h[n + 1].amount)
         /\ ReplayUsedUnits(R, h, n + 1) = Reserve(MoveUsed(ReplayUsedUnits(R, h, n), h[n + 1]), R, n + 1)
<1>0. Len(h) \in Nat /\ h \in Seq(Transfers(Nat)) /\ \A m \in 1..Len(h) : h[m] \in Transfers(Nat)
  BY LenProperties, ElementOfSeq DEF Legal
<1>1. n + 1 \in 1..Len(h) /\ (n + 1) - 1 = n /\ n + 1 \in 0..Len(h) /\ n \in 0..Len(h)
  BY <1>0
<1>2. BalancesAt(h, n + 1) = Shift(BalancesAt(h, n), h[n + 1], h[n + 1].amount)
  BY <1>0, <1>1, BalanceSteps
<1>3. ReplayUsedUnits(R, h, n + 1) = Reserve(MoveUsed(ReplayUsedUnits(R, h, n), h[n + 1]), R, n + 1)
  BY <1>0, <1>1, UsedSteps
<1>4. /\ h[n + 1] \in Transfers(Nat) /\ h[n + 1].amount \in Nat /\ h[n + 1].from # h[n + 1].to
      /\ h[n + 1].from # Zero => h[n + 1].amount <= BalancesAt(h, n)[h[n + 1].from][h[n + 1].id]
  BY <1>0, <1>1 DEF Legal, Transfers
<1>5. /\ BalancesAt(h, n) \in Counts /\ BalancesAt(h, n + 1) \in Counts
      /\ ReplayUsedUnits(R, h, n) \in Counts /\ ReplayUsedUnits(R, h, n + 1) \in Counts
  BY <1>1, BalanceTypes, UsedTypes
<1>6. MoveUsed(ReplayUsedUnits(R, h, n), h[n + 1]) \in Counts
  BY <1>4, <1>5, MoveUnits
<1> QED BY <1>1, <1>2, <1>3, <1>4, <1>5, <1>6


-----------------------------------------------------------------------------
(***************************************************************************)
(* A transfer more, a reservation less, a reservation more.                *)
(***************************************************************************)
Within(R, h, n) == Below(ReplayUsedUnits(R, h, n), BalancesAt(h, n))

\* The blocks that are there already read as before.
LEMMA EarlierBlocksSame ==
  ASSUME NEW T, NEW h \in Seq(T), NEW t \in T, NEW R
  PROVE  \A n \in 0..Len(h) : /\ BalancesAt(Append(h, t), n) = BalancesAt(h, n)
                              /\ ReplayUsedUnits(R, Append(h, t), n) = ReplayUsedUnits(R, h, n)
<1> DEFINE g == Append(h, t)
           P == {n \in 0..Len(h) : BalancesAt(g, n) = BalancesAt(h, n)
                                   /\ ReplayUsedUnits(R, g, n) = ReplayUsedUnits(R, h, n)}
<1>0. /\ Len(h) \in Nat /\ g \in Seq(T) /\ Len(g) = Len(h) + 1
      /\ \A n \in 1..Len(h) : g[n] = h[n]
  BY LenProperties, AppendProperties
<1> HIDE DEF g
<1>1. 0 \in P
  BY <1>0, BalanceSteps, UsedSteps
<1>2. ASSUME NEW n \in 0..(Len(h) - 1), n \in P PROVE n + 1 \in P
  <2>1. n + 1 \in 1..Len(h) /\ n + 1 \in 1..Len(g) /\ (n + 1) - 1 = n
    BY <1>0
  <2>2. g[n + 1] = h[n + 1]
    BY <1>0, <2>1
  <2>3. BalancesAt(g, n + 1) = BalancesAt(h, n + 1)
    BY <1>0, <1>2, <2>1, <2>2, BalanceSteps
  <2>4. ReplayUsedUnits(R, g, n + 1) = ReplayUsedUnits(R, h, n + 1)
    <3>1. ReplayUsedUnits(R, g, n + 1) = Reserve(MoveUsed(ReplayUsedUnits(R, g, n), g[n + 1]), R, n + 1)
      BY <1>0, <2>1, UsedSteps
    <3>2. ReplayUsedUnits(R, h, n + 1) = Reserve(MoveUsed(ReplayUsedUnits(R, h, n), h[n + 1]), R, n + 1)
      BY <1>0, <2>1, UsedSteps
    <3>3. ReplayUsedUnits(R, g, n) = ReplayUsedUnits(R, h, n)
      BY <1>2
    <3> QED BY ONLY <2>2, <3>1, <3>2, <3>3
  <2> QED BY <1>0, <2>1, <2>3, <2>4
<1>3. \A n \in 0..Len(h) : n \in P
  <2> HIDE DEF P
  <2> QED BY <1>0, <1>1, <1>2, Climb
<1> QED BY <1>3 DEF g

LEMMA LegalAppend ==
  ASSUME NEW h, Legal(h), NEW t \in Transfers(Nat), t.from # t.to,
         t.from # Zero => t.amount <= BalancesAt(h, Len(h))[t.from][t.id]
  PROVE  Legal(Append(h, t)) /\ Len(Append(h, t)) = Len(h) + 1
<1> DEFINE g == Append(h, t)
<1>0. /\ Len(h) \in Nat /\ g \in Seq(Transfers(Nat)) /\ Len(g) = Len(h) + 1
      /\ \A n \in 1..Len(h) : g[n] = h[n]
      /\ g[Len(h) + 1] = t
  BY LenProperties, AppendProperties DEF Legal
<1>1. \A n \in 0..Len(h) : BalancesAt(g, n) = BalancesAt(h, n)
  BY EarlierBlocksSame DEF Legal
<1> HIDE DEF g
<1>2. ASSUME NEW n \in 1..Len(g)
      PROVE  /\ g[n].from # g[n].to
             /\ g[n].from # Zero => g[n].amount <= BalancesAt(g, n - 1)[g[n].from][g[n].id]
  <2>1. CASE n = Len(h) + 1
    <3>1. g[n] = t /\ BalancesAt(g, n - 1) = BalancesAt(h, Len(h))
      BY <1>0, <1>1, <2>1
    <3> QED BY <3>1
  <2>2. CASE n # Len(h) + 1
    <3>1. n \in 1..Len(h) /\ n - 1 \in 0..Len(h)
      BY <1>0, <2>2
    <3>2. g[n] = h[n] /\ BalancesAt(g, n - 1) = BalancesAt(h, n - 1)
      BY <1>0, <1>1, <3>1
    <3> QED BY <3>1, <3>2 DEF Legal
  <2> QED BY <2>1, <2>2
<1> QED BY <1>0, <1>2 DEF Legal, g

LEMMA ReserveBelow ==
  ASSUME NEW few \in Counts, NEW many \in Counts, Below(few, many),
         NEW R, IsFiniteSet(R), NEW Q \in SUBSET R, NEW b
  PROVE  Below(Reserve(few, Q, b), Reserve(many, R, b))
<1>0. IsFiniteSet(Q)
  BY FS_Subset
<1> SUFFICES ASSUME NEW w \in Wallets, NEW i \in TokenIds
             PROVE  Reserve(few, Q, b)[w][i] <= Reserve(many, R, b)[w][i]
  BY DEF Below
<1>1. few[w][i] \in Nat /\ many[w][i] \in Nat /\ few[w][i] <= many[w][i]
  BY DEF Counts, Below
<1>2. Cardinality(Counted(Q, b, w, i)) <= Cardinality(Counted(R, b, w, i))
  <2>1. Counted(Q, b, w, i) \subseteq Counted(R, b, w, i) /\ Counted(R, b, w, i) \subseteq R
    BY DEF Counted
  <2> QED BY <2>1, FS_Subset
<1>3. /\ Cardinality(Counted(Q, b, w, i)) \in Nat /\ Cardinality(Counted(R, b, w, i)) \in Nat
      /\ Reserve(few, Q, b)[w][i] = few[w][i] + Cardinality(Counted(Q, b, w, i))
      /\ Reserve(many, R, b)[w][i] = many[w][i] + Cardinality(Counted(R, b, w, i))
  BY <1>0, ReserveUnits
<1> QED BY ONLY <1>1, <1>2, <1>3

\* Fewer reservations use fewer units, at every block.
LEMMA FewerUsed ==
  ASSUME NEW h, Legal(h), NEW R, IsFiniteSet(R), NEW Q \in SUBSET R
  PROVE  \A n \in 0..Len(h) : Below(ReplayUsedUnits(Q, h, n), ReplayUsedUnits(R, h, n))
<1> DEFINE P == {n \in 0..Len(h) : Below(ReplayUsedUnits(Q, h, n), ReplayUsedUnits(R, h, n))}
<1>0. Len(h) \in Nat /\ h \in Seq(Transfers(Nat)) /\ IsFiniteSet(Q)
  BY LenProperties, FS_Subset DEF Legal
<1>1. 0 \in P
  <2>1. NoneUsed \in Counts /\ Below(NoneUsed, NoneUsed)
    BY DEF NoneUsed, Counts, Below
  <2>2. Below(Reserve(NoneUsed, Q, 0), Reserve(NoneUsed, R, 0))
    BY <2>1, ReserveBelow
  <2> QED BY <1>0, <2>2, UsedSteps
<1>2. ASSUME NEW n \in 0..(Len(h) - 1), n \in P PROVE n + 1 \in P
  <2>1. PICK few : few = MoveUsed(ReplayUsedUnits(Q, h, n), h[n + 1])
    OBVIOUS
  <2>2. PICK many : many = MoveUsed(ReplayUsedUnits(R, h, n), h[n + 1])
    OBVIOUS
  <2>3. few \in Counts /\ ReplayUsedUnits(Q, h, n) \in Counts /\ ReplayUsedUnits(Q, h, n + 1) = Reserve(few, Q, n + 1)
    BY <1>0, <2>1, LegalStep
  <2>4. /\ many \in Counts /\ ReplayUsedUnits(R, h, n) \in Counts /\ ReplayUsedUnits(R, h, n + 1) = Reserve(many, R, n + 1)
        /\ h[n + 1] \in Transfers(Nat) /\ h[n + 1].from # h[n + 1].to /\ n + 1 \in 0..Len(h)
    BY <2>2, LegalStep
  <2>5. Below(few, many)
    BY <1>2, <2>1, <2>2, <2>3, <2>4, MoveBelow
  <2>6. Below(Reserve(few, Q, n + 1), Reserve(many, R, n + 1))
    BY <2>3, <2>4, <2>5, ReserveBelow
  <2> QED BY <2>3, <2>4, <2>6
<1>3. \A n \in 0..Len(h) : n \in P
  <2> HIDE DEF P
  <2> QED BY <1>0, <1>1, <1>2, Climb
<1> QED BY <1>3

LEMMA FewerWithin ==
  ASSUME NEW h, Legal(h), NEW R, IsFiniteSet(R), NEW Q \in SUBSET R, NEW n \in 0..Len(h), Within(R, h, n)
  PROVE  Within(Q, h, n)
<1>1. IsFiniteSet(Q)
  BY FS_Subset
<1>2. Below(ReplayUsedUnits(Q, h, n), ReplayUsedUnits(R, h, n))
  BY FewerUsed
<1>3. ReplayUsedUnits(Q, h, n) \in Counts /\ ReplayUsedUnits(R, h, n) \in Counts /\ BalancesAt(h, n) \in Counts
  BY <1>1, UsedTypes, BalanceTypes
<1>4. ASSUME NEW w \in Wallets, NEW i \in TokenIds
      PROVE  ReplayUsedUnits(Q, h, n)[w][i] <= BalancesAt(h, n)[w][i]
  <2>1. /\ ReplayUsedUnits(Q, h, n)[w][i] \in Nat /\ ReplayUsedUnits(R, h, n)[w][i] \in Nat
        /\ BalancesAt(h, n)[w][i] \in Nat
    BY <1>3 DEF Counts
  <2>2. ReplayUsedUnits(Q, h, n)[w][i] <= ReplayUsedUnits(R, h, n)[w][i]
        /\ ReplayUsedUnits(R, h, n)[w][i] <= BalancesAt(h, n)[w][i]
    BY <1>2 DEF Within, Below
  <2> QED BY ONLY <2>1, <2>2
<1> QED BY <1>4 DEF Within, Below

\* After the last reservation transfers alone keep the ledger within the balances.
LEMMA StaysWithin ==
  ASSUME NEW h, Legal(h), NEW R, IsFiniteSet(R), NEW m \in 0..Len(h), Within(R, h, m),
         \A r \in R : r.block \in Nat /\ r.block <= m
  PROVE  \A n \in m..Len(h) : Within(R, h, n)
<1> DEFINE P == {n \in 0..Len(h) : n >= m => Within(R, h, n)}
<1>0. Len(h) \in Nat /\ h \in Seq(Transfers(Nat)) /\ m \in Nat
  BY LenProperties DEF Legal
<1>1. 0 \in P
  BY <1>0
<1>2. ASSUME NEW n \in 0..(Len(h) - 1), n \in P PROVE n + 1 \in P
  <2>0. n \in Nat /\ n + 1 \in 0..Len(h)
    BY <1>0
  <2>1. CASE n >= m
    <3>1. PICK used : used = ReplayUsedUnits(R, h, n)
      OBVIOUS
    <3>2. PICK units : units = BalancesAt(h, n)
      OBVIOUS
    <3>3. /\ used \in Counts /\ units \in Counts
          /\ h[n + 1] \in Transfers(Nat) /\ h[n + 1].from # h[n + 1].to
          /\ h[n + 1].from # Zero => h[n + 1].amount <= units[h[n + 1].from][h[n + 1].id]
          /\ BalancesAt(h, n + 1) = Shift(units, h[n + 1], h[n + 1].amount)
          /\ ReplayUsedUnits(R, h, n + 1) = Reserve(MoveUsed(used, h[n + 1]), R, n + 1)
          /\ MoveUsed(used, h[n + 1]) \in Counts
      BY <3>1, <3>2, LegalStep
    <3>4. Below(used, units)
      BY <1>2, <2>0, <2>1, <3>1, <3>2 DEF Within
    <3>5. Below(MoveUsed(used, h[n + 1]), Shift(units, h[n + 1], h[n + 1].amount))
      BY <3>3, <3>4, MoveWithin
    <3>6. \A w \in Wallets, i \in TokenIds : Counted(R, n + 1, w, i) = {}
      BY <1>0, <2>0, <2>1 DEF Counted
    <3>7. \A w \in Wallets, i \in TokenIds :
            Reserve(MoveUsed(used, h[n + 1]), R, n + 1)[w][i] = MoveUsed(used, h[n + 1])[w][i]
      <4>1. Cardinality({}) = 0
        BY FS_EmptySet
      <4> TAKE w \in Wallets, i \in TokenIds
      <4>2. MoveUsed(used, h[n + 1])[w][i] \in Nat
        BY <3>3 DEF Counts
      <4>3. Reserve(MoveUsed(used, h[n + 1]), R, n + 1)[w][i] = MoveUsed(used, h[n + 1])[w][i] + Cardinality(Counted(R, n + 1, w, i))
        BY <3>3, ReserveUnits
      <4>4. Cardinality(Counted(R, n + 1, w, i)) = 0
        BY <3>6, <4>1
      <4> HIDE DEF Counted
      <4> QED BY ONLY <4>2, <4>3, <4>4
    <3>8. Within(R, h, n + 1)
      BY <3>3, <3>5, <3>7 DEF Within, Below
    <3> QED BY <2>0, <3>8
  <2>2. CASE n < m
    <3>1. n + 1 >= m => n + 1 = m
      BY <1>0, <2>0, <2>2
    <3> QED BY <2>0, <3>1
  <2> QED BY <1>0, <2>0, <2>1, <2>2
<1>3. \A n \in 0..Len(h) : n \in P
  <2> HIDE DEF P
  <2> QED BY <1>0, <1>1, <1>2, Climb
<1>4. \A n \in m..Len(h) : n \in 0..Len(h) /\ n >= m
  BY <1>0
<1> QED BY <1>3, <1>4

\* The unit the ledger finds unused at a block no reservation is after can be reserved there.
LEMMA OneMoreWithin ==
  ASSUME NEW h, Legal(h), NEW Q, IsFiniteSet(Q), NEW m \in 0..Len(h), NEW new, new.block = m,
         new.wallet \in Wallets, new.unit \in TokenIds,
         \A r \in Q : r.block \in Nat /\ r.block <= m,
         \A n \in 0..Len(h) : Within(Q, h, n),
         ReplayUsedUnits(Q, h, m)[new.wallet][new.unit] < BalancesAt(h, m)[new.wallet][new.unit]
  PROVE  \A n \in 0..Len(h) : Within(Q \cup {new}, h, n)
<1> DEFINE R == Q \cup {new}
<1>0. Len(h) \in Nat /\ h \in Seq(Transfers(Nat)) /\ m \in Nat /\ IsFiniteSet(R)
      /\ \A r \in R : r.block \in Nat /\ r.block <= m
  BY LenProperties, FS_AddElement DEF Legal
<1>1. \A used : \A n \in Nat \ {m} : Reserve(used, R, n) = Reserve(used, Q, n)
  <2> TAKE used
  <2> TAKE n \in Nat \ {m}
  <2>1. \A w \in Wallets, i \in TokenIds :
          {r \in R : r.block = n /\ r.wallet = w /\ r.unit = i} = {r \in Q : r.block = n /\ r.wallet = w /\ r.unit = i}
    OBVIOUS
  <2> HIDE DEF R
  <2> QED BY <2>1 DEF Reserve
<1>q. Q \subseteq R /\ R = Q \cup {new}
  OBVIOUS
<1> HIDE DEF R
<1>2. \A n \in 0..Len(h) : n < m => ReplayUsedUnits(R, h, n) = ReplayUsedUnits(Q, h, n)
  <2> DEFINE P == {n \in 0..Len(h) : n < m => ReplayUsedUnits(R, h, n) = ReplayUsedUnits(Q, h, n)}
  <2>1. 0 \in P
    <3>1. ASSUME 0 < m PROVE ReplayUsedUnits(R, h, 0) = ReplayUsedUnits(Q, h, 0)
      <4>1. Reserve(NoneUsed, R, 0) = Reserve(NoneUsed, Q, 0)
        BY <1>1, <3>1
      <4>2. ReplayUsedUnits(R, h, 0) = Reserve(NoneUsed, R, 0) /\ ReplayUsedUnits(Q, h, 0) = Reserve(NoneUsed, Q, 0)
        BY <1>0, UsedSteps
      <4> QED BY <4>1, <4>2
    <3> QED BY <1>0, <3>1
  <2>2. ASSUME NEW n \in 0..(Len(h) - 1), n \in P PROVE n + 1 \in P
    <3>0. n \in Nat /\ n + 1 \in 0..Len(h)
      BY <1>0
    <3>1. ASSUME n + 1 < m PROVE ReplayUsedUnits(R, h, n + 1) = ReplayUsedUnits(Q, h, n + 1)
      <4>1. n < m /\ n + 1 \in Nat \ {m}
        BY <1>0, <3>0, <3>1
      <4>2. ReplayUsedUnits(R, h, n) = ReplayUsedUnits(Q, h, n)
        BY <2>2, <4>1
      <4>3. ReplayUsedUnits(R, h, n + 1) = Reserve(MoveUsed(ReplayUsedUnits(R, h, n), h[n + 1]), R, n + 1)
        BY <1>0, LegalStep
      <4>4. ReplayUsedUnits(Q, h, n + 1) = Reserve(MoveUsed(ReplayUsedUnits(Q, h, n), h[n + 1]), Q, n + 1)
        BY LegalStep
      <4>5. Reserve(MoveUsed(ReplayUsedUnits(R, h, n), h[n + 1]), R, n + 1)
              = Reserve(MoveUsed(ReplayUsedUnits(R, h, n), h[n + 1]), Q, n + 1)
        BY <1>1, <4>1
      <4> QED BY ONLY <4>2, <4>3, <4>4, <4>5
    <3> QED BY <3>0, <3>1
  <2>3. \A n \in 0..Len(h) : n \in P
    <3> HIDE DEF P
    <3> QED BY <1>0, <2>1, <2>2, Climb
  <2> QED BY <2>3
<1>3. \E base \in Counts : /\ ReplayUsedUnits(Q, h, m) = Reserve(base, Q, m)
                           /\ ReplayUsedUnits(R, h, m) = Reserve(base, R, m)
  <2>1. CASE m = 0
    <3>1. NoneUsed \in Counts
      BY DEF NoneUsed, Counts
    <3> QED BY <1>0, <2>1, <3>1, UsedSteps
  <2>2. CASE m # 0
    <3>1. m - 1 \in 0..(Len(h) - 1) /\ m - 1 \in 0..Len(h) /\ m - 1 < m /\ (m - 1) + 1 = m
      BY <1>0, <2>2
    <3>2. /\ MoveUsed(ReplayUsedUnits(Q, h, m - 1), h[m]) \in Counts
          /\ ReplayUsedUnits(Q, h, m) = Reserve(MoveUsed(ReplayUsedUnits(Q, h, m - 1), h[m]), Q, m)
      BY <3>1, LegalStep
    <3>3. ReplayUsedUnits(R, h, m) = Reserve(MoveUsed(ReplayUsedUnits(R, h, m - 1), h[m]), R, m)
      BY <1>0, <3>1, LegalStep
    <3>4. ReplayUsedUnits(R, h, m - 1) = ReplayUsedUnits(Q, h, m - 1)
      BY <1>2, <3>1
    <3> QED BY <3>2, <3>3, <3>4
  <2> QED BY <2>1, <2>2
<1>4. Within(R, h, m)
  <2>1. PICK base \in Counts : /\ ReplayUsedUnits(Q, h, m) = Reserve(base, Q, m)
                               /\ ReplayUsedUnits(R, h, m) = Reserve(base, R, m)
    BY <1>3
  <2>2. ASSUME NEW w \in Wallets, NEW i \in TokenIds
        PROVE  ReplayUsedUnits(R, h, m)[w][i] <= BalancesAt(h, m)[w][i]
    <3>1. /\ Cardinality(Counted(Q, m, w, i)) \in Nat
          /\ ReplayUsedUnits(Q, h, m)[w][i] = base[w][i] + Cardinality(Counted(Q, m, w, i))
      BY <2>1, ReserveUnits
    <3>2. ReplayUsedUnits(R, h, m)[w][i] = base[w][i] + Cardinality(Counted(R, m, w, i))
      BY <1>0, <2>1, ReserveUnits
    <3>3. base[w][i] \in Nat /\ BalancesAt(h, m)[w][i] \in Nat
          /\ ReplayUsedUnits(Q, h, m)[w][i] <= BalancesAt(h, m)[w][i]
      BY BalanceTypes DEF Counts, Within, Below
    <3>4. CASE w = new.wallet /\ i = new.unit
      <4>1. Counted(R, m, w, i) = Counted(Q, m, w, i) \cup {new} /\ Counted(Q, m, w, i) \subseteq Q
        BY <1>q, <3>4 DEF Counted
      <4>2. IsFiniteSet(Counted(Q, m, w, i))
        BY <4>1, FS_Subset
      <4>3. Cardinality(Counted(R, m, w, i)) \in {Cardinality(Counted(Q, m, w, i)), Cardinality(Counted(Q, m, w, i)) + 1}
        <5>1. PICK old : old = Counted(Q, m, w, i)
          OBVIOUS
        <5>2. Cardinality(old \cup {new}) = IF new \in old THEN Cardinality(old) ELSE Cardinality(old) + 1
          BY ONLY <4>2, <5>1, FS_AddElement
        <5>3. CASE new \in old
          BY ONLY <4>1, <5>1, <5>2, <5>3
        <5>4. CASE new \notin old
          BY ONLY <4>1, <5>1, <5>2, <5>4
        <5> QED BY <5>3, <5>4
      <4>4. ReplayUsedUnits(Q, h, m)[w][i] < BalancesAt(h, m)[w][i]
        BY <3>4
      <4> QED BY ONLY <3>1, <3>2, <3>3, <4>3, <4>4
    <3>5. CASE ~(w = new.wallet /\ i = new.unit)
      <4>1. Counted(R, m, w, i) = Counted(Q, m, w, i)
        BY <1>q, <3>5 DEF Counted
      <4> QED BY <3>1, <3>2, <3>3, <4>1
    <3> QED BY <3>4, <3>5
  <2> QED BY <2>2 DEF Within, Below
<1>5. \A n \in m..Len(h) : Within(R, h, n)
  BY <1>0, <1>4, StaysWithin
<1>6. ASSUME NEW n \in 0..Len(h), n < m PROVE Within(R, h, n)
  BY <1>2, <1>6 DEF Within
<1>7. \A n \in 0..Len(h) : n < m \/ n \in m..Len(h)
  BY <1>0
<1> QED BY <1>5, <1>6, <1>7 DEF R

LEMMA UnitsFinite ==
  ASSUME NEW S, IsFiniteSet(S), NEW f \in [S -> Nat]
  PROVE  IsFiniteSet(Units(f)) /\ Total(f) \in Nat
<1> DEFINE some == [x \in S |-> {x} \X (1..f[x])]
           T == {some[x] : x \in S}
<1>1. some \in Surjection(S, T)
  BY DEF Surjection
<1>2. IsFiniteSet(T)
  BY <1>1, FS_Surjection
<1>3. \A x \in S : IsFiniteSet(some[x])
  <2> TAKE x \in S
  <2>0. 1 \in Int /\ f[x] \in Int
    OBVIOUS
  <2>1. IsFiniteSet({x}) /\ IsFiniteSet(1..f[x])
    BY <2>0, FS_Singleton, FS_Interval
  <2> QED BY <2>1, FS_Product
<1>4. Units(f) = UNION T
  BY DEF Units
<1>5. \A U \in T : IsFiniteSet(U)
  BY <1>3
<1> HIDE DEF some, T
<1>6. IsFiniteSet(Units(f))
  BY <1>2, <1>4, <1>5, FS_UNION
<1> QED BY <1>6, FS_CardinalityType DEF Total

LEMMA TotalGrows ==
  ASSUME NEW S, IsFiniteSet(S), NEW f \in [S -> Nat], NEW g \in [S -> Nat], NEW a \in S, NEW n \in Nat,
         g[a] = f[a] + n, \A x \in S \ {a} : g[x] = f[x]
  PROVE  Total(f) \in Nat /\ Total(g) = Total(f) + n
<1> DEFINE more == (f[a] + 1)..(f[a] + n)
           new == {a} \X more
<1>1. f[a] \in Nat /\ g[a] \in Nat
  OBVIOUS
<1>2. IsFiniteSet(more) /\ Cardinality(more) = n
  <2>1. f[a] + 1 \in Int /\ f[a] + n \in Int
    BY <1>1
  <2>2. IsFiniteSet(more) /\ Cardinality(more) = IF f[a] + 1 > f[a] + n THEN 0 ELSE (f[a] + n) - (f[a] + 1) + 1
    BY ONLY <2>1, FS_Interval
  <2>3. (IF f[a] + 1 > f[a] + n THEN 0 ELSE (f[a] + n) - (f[a] + 1) + 1) = n
    BY ONLY <1>1, n \in Nat
  <2> QED BY ONLY <2>2, <2>3
<1>3. IsFiniteSet(new) /\ Cardinality(new) = n
  <2>1. IsFiniteSet({a}) /\ Cardinality({a}) = 1
    BY FS_Singleton
  <2> HIDE DEF more
  <2> QED BY <1>2, <2>1, FS_Product
<1>4. 1..g[a] = (1..f[a]) \cup more /\ (1..f[a]) \cap more = {}
  BY <1>1
<1> HIDE DEF more
<1>5. Units(g) = Units(f) \cup new
  <2>1. DOMAIN f = S /\ DOMAIN g = S
    OBVIOUS
  <2>2. {a} \X (1..g[a]) = ({a} \X (1..f[a])) \cup new
    BY <1>4
  <2>3. Units(g) \subseteq Units(f) \cup new
    <3> SUFFICES ASSUME NEW x \in S, NEW u \in {x} \X (1..g[x]) PROVE u \in Units(f) \cup new
      BY <2>1 DEF Units
    <3>1. u \in {x} \X (1..f[x]) \/ u \in new
      BY <2>2
    <3> QED BY <2>1, <3>1 DEF Units
  <2>4. Units(f) \cup new \subseteq Units(g)
    <3>1. ASSUME NEW x \in S, NEW u \in {x} \X (1..f[x]) PROVE u \in {x} \X (1..g[x])
      BY <2>2
    <3>2. Units(f) \subseteq Units(g)
      BY <2>1, <3>1 DEF Units
    <3>3. new \subseteq {a} \X (1..g[a])
      BY <2>2
    <3> QED BY <2>1, <3>2, <3>3 DEF Units
  <2> QED BY <2>3, <2>4
<1>6. Units(f) \cap new = {}
  <2>1. \A x \in S : \A u \in {x} \X (1..f[x]) : u \notin new
    BY <1>4
  <2> QED BY <2>1 DEF Units
<1>7. IsFiniteSet(Units(f)) /\ Total(f) \in Nat
  BY UnitsFinite
<1> HIDE DEF new
<1>8. Cardinality(Units(f) \cup new) = Cardinality(Units(f)) + Cardinality(new) - Cardinality(Units(f) \cap new)
  BY <1>3, <1>7, FS_Union
<1>9. Cardinality({}) = 0
  BY FS_EmptySet
<1>10. Total(g) = Cardinality(Units(f) \cup new) /\ Total(f) = Cardinality(Units(f))
  BY <1>5 DEF Total
<1>11. Cardinality(Units(f) \cap new) = 0 /\ Cardinality(new) = n
  BY <1>3, <1>6, <1>9
<1> QED BY ONLY <1>7, <1>8, <1>10, <1>11, n \in Nat


\* A total that is lower by at least one at each place of a set.
LEMMA TotalLowers ==
  ASSUME NEW S, IsFiniteSet(S), NEW f \in [S -> Nat], NEW g \in [S -> Nat], NEW W \in SUBSET S,
         \A x \in S : g[x] <= f[x], \A x \in W : g[x] < f[x]
  PROVE  Total(f) \in Nat /\ Total(g) \in Nat /\ IsFiniteSet(W) /\ Cardinality(W) \in Nat
         /\ Total(g) + Cardinality(W) <= Total(f)
<1> DEFINE top == [x \in W |-> <<x, f[x]>>]
           T == {top[x] : x \in W}
<1>1. IsFiniteSet(W) /\ Cardinality(W) \in Nat
  BY FS_Subset, FS_CardinalityType
<1>2. IsFiniteSet(Units(f)) /\ IsFiniteSet(Units(g)) /\ Total(f) \in Nat /\ Total(g) \in Nat
  BY UnitsFinite
<1>3. IsFiniteSet(T) /\ Cardinality(T) = Cardinality(W)
  <2>1. top \in Surjection(W, T) /\ top \in Injection(W, T)
    BY DEF Surjection, Injection, IsInjective
  <2> HIDE DEF top, T
  <2> QED BY <1>1, <2>1, FS_Surjection
<1>4. T \subseteq Units(f)
  <2> SUFFICES ASSUME NEW x \in W PROVE <<x, f[x]>> \in Units(f)
    OBVIOUS
  <2>1. x \in DOMAIN f /\ f[x] \in Nat /\ g[x] \in Nat /\ g[x] < f[x]
    OBVIOUS
  <2>2. f[x] \in 1..f[x]
    BY <2>1
  <2>3. <<x, f[x]>> \in {x} \X (1..f[x])
    BY <2>2
  <2> QED BY <2>1, <2>3 DEF Units
<1>5. Units(g) \subseteq Units(f)
  <2> SUFFICES ASSUME NEW x \in S, NEW u \in {x} \X (1..g[x]) PROVE u \in Units(f)
    BY DEF Units
  <2>1. 1..g[x] \subseteq 1..f[x]
    BY g[x] \in Nat, f[x] \in Nat, g[x] <= f[x]
  <2>2. u \in {x} \X (1..f[x]) /\ x \in DOMAIN f
    BY <2>1
  <2> QED BY <2>2 DEF Units
<1>6. T \cap Units(g) = {}
  <2>1. ASSUME NEW x \in W, NEW y \in S, <<x, f[x]>> \in {y} \X (1..g[y]) PROVE FALSE
    <3>1. x = y /\ f[x] \in 1..g[x] /\ g[x] \in Nat /\ f[x] \in Nat /\ g[x] < f[x]
      BY <2>1
    <3> QED BY <3>1
  <2>2. \A u \in Units(g) : \E y \in S : u \in {y} \X (1..g[y])
    BY DEF Units
  <2> QED BY <2>1, <2>2
<1> HIDE DEF T, top
<1>7. Cardinality(T \cup Units(g)) <= Cardinality(Units(f))
  <2>1. T \cup Units(g) \in SUBSET Units(f)
    BY <1>4, <1>5
  <2> QED BY <1>2, <2>1, FS_Subset
<1>8. Cardinality(T \cup Units(g)) = Cardinality(T) + Cardinality(Units(g)) - Cardinality(T \cap Units(g))
  BY <1>2, <1>3, FS_Union
<1>9. Cardinality(T \cap Units(g)) = 0
  BY <1>6, FS_EmptySet
<1>10. Total(f) = Cardinality(Units(f)) /\ Total(g) = Cardinality(Units(g))
  BY DEF Total
<1>11. Total(g) + Cardinality(W) <= Total(f)
  BY ONLY <1>1, <1>2, <1>3, <1>7, <1>8, <1>9, <1>10
<1> QED BY <1>1, <1>2, <1>11

\* What one place has less and another more leaves the total as it is.
LEMMA TotalMovesOn ==
  ASSUME NEW S, IsFiniteSet(S), NEW f \in [S -> Nat], NEW g \in [S -> Nat],
         NEW a \in S, NEW b \in S \ {a}, NEW n \in Nat,
         f[a] = g[a] + n, g[b] = f[b] + n, \A x \in S \ {a, b} : g[x] = f[x]
  PROVE  Total(g) = Total(f)
<1> DEFINE low == [x \in S |-> IF x = a THEN g[a] ELSE f[x]]
<1>1. low \in [S -> Nat] /\ low[a] = g[a] /\ \A x \in S \ {a} : low[x] = f[x]
  OBVIOUS
<1> HIDE DEF low
<1>2. Total(low) \in Nat /\ Total(f) = Total(low) + n
  <2>1. f[a] = low[a] + n /\ \A x \in S \ {a} : f[x] = low[x]
    BY <1>1
  <2> QED BY <1>1, <2>1, TotalGrows
<1>3. Total(g) = Total(low) + n
  <2>1. g[b] = low[b] + n /\ \A x \in S \ {b} : g[x] = low[x]
    BY <1>1
  <2> QED BY <1>1, <2>1, TotalGrows
<1> QED BY <1>2, <1>3

\* A place more adds what is counted there.
LEMMA TotalExtends ==
  ASSUME NEW S, IsFiniteSet(S), NEW f \in [S -> Nat], NEW x, x \notin S, NEW g \in [S \cup {x} -> Nat],
         \A y \in S : g[y] = f[y]
  PROVE  Total(f) \in Nat /\ Total(g) = Total(f) + g[x]
<1> DEFINE e == [y \in S \cup {x} |-> IF y = x THEN 0 ELSE f[y]]
<1>1. e \in [S \cup {x} -> Nat] /\ e[x] = 0 /\ \A y \in S : e[y] = f[y]
  OBVIOUS
<1> HIDE DEF e
<1>2. Units(e) = Units(f)
  <2>1. \A u : u \in Units(e) <=> \E y \in S \cup {x} : u \in {y} \X (1..e[y])
    BY <1>1 DEF Units
  <2>2. \A u : u \in Units(f) <=> \E y \in S : u \in {y} \X (1..f[y])
    BY DEF Units
  <2>3. {x} \X (1..e[x]) = {}
    BY <1>1
  <2>4. \A y \in S : {y} \X (1..e[y]) = {y} \X (1..f[y])
    BY <1>1
  <2> QED BY <2>1, <2>2, <2>3, <2>4
<1>3. IsFiniteSet(S \cup {x})
  BY FS_AddElement
<1>4. g[x] \in Nat /\ g[x] = e[x] + g[x] /\ \A y \in (S \cup {x}) \ {x} : g[y] = e[y]
  BY <1>1
<1>5. Total(e) \in Nat /\ Total(g) = Total(e) + g[x]
  BY <1>1, <1>3, <1>4, TotalGrows
<1> QED BY <1>2, <1>5 DEF Total


-----------------------------------------------------------------------------
(***************************************************************************)
(* Counting.  Every wallet with a reservation has used a unit up: with     *)
(* what the wallets hold unused there are never more of them than units.   *)
(***************************************************************************)
Spare(units, used, i) == [w \in Wallets |-> units[w][i] - used[w][i]]
Minting(h, n, i) == {b \in 1..n : h[b].from = Zero /\ h[b].id = i}
EverAt(h, n, i) ==
  Total([w \in Wallets |-> InitialUnits[w][i]]) + Total([b \in Minting(h, n, i) |-> h[b].amount])
BackedAt(R, b, i) == {w \in Wallets : \E r \in R : r.wallet = w /\ r.unit = i /\ r.block = b}
BackedBy(R, n, i) == {w \in Wallets : \E r \in R : r.wallet = w /\ r.unit = i /\ r.block <= n}

LEMMA SpareTypes ==
  ASSUME NEW units \in Counts, NEW used \in Counts, Below(used, units), NEW i \in TokenIds
  PROVE  /\ Spare(units, used, i) \in [Wallets -> Nat] /\ Total(Spare(units, used, i)) \in Nat
         /\ \A w \in Wallets : Spare(units, used, i)[w] = units[w][i] - used[w][i]
<1>1. ASSUME NEW w \in Wallets PROVE units[w][i] - used[w][i] \in Nat
  <2>1. units[w][i] \in Nat /\ used[w][i] \in Nat
    BY DEF Counts
  <2>2. used[w][i] <= units[w][i]
    BY DEF Below
  <2> QED BY ONLY <2>1, <2>2
<1>2. Spare(units, used, i) \in [Wallets -> Nat]
  BY <1>1 DEF Spare
<1>3. Total(Spare(units, used, i)) \in Nat
  BY <1>2, UnitsFinite, LedgerAssumption
<1> QED BY <1>2, <1>3 DEF Spare

\* Reserving takes a spare unit of every wallet that has a reservation there.
LEMMA ReservedSpare ==
  ASSUME NEW units \in Counts, NEW before \in Counts, NEW used \in Counts, NEW R, IsFiniteSet(R), NEW b,
         used = Reserve(before, R, b), Below(before, units), Below(used, units), NEW i \in TokenIds
  PROVE  /\ IsFiniteSet(BackedAt(R, b, i)) /\ Cardinality(BackedAt(R, b, i)) \in Nat
         /\ Total(Spare(units, used, i)) + Cardinality(BackedAt(R, b, i)) <= Total(Spare(units, before, i))
<1>f. PICK f \in [Wallets -> Nat] : f = Spare(units, before, i) /\ \A w \in Wallets : f[w] = units[w][i] - before[w][i]
  BY SpareTypes
<1>g. PICK g \in [Wallets -> Nat] : g = Spare(units, used, i) /\ \A w \in Wallets : g[w] = units[w][i] - used[w][i]
  BY SpareTypes
<1>1. ASSUME NEW w \in Wallets
      PROVE  g[w] <= f[w] /\ (w \in BackedAt(R, b, i) => g[w] < f[w])
  <2>1. /\ Cardinality(Counted(R, b, w, i)) \in Nat
        /\ used[w][i] = before[w][i] + Cardinality(Counted(R, b, w, i))
    BY ReserveUnits
  <2>2. units[w][i] \in Nat /\ before[w][i] \in Nat /\ used[w][i] \in Nat
    BY DEF Counts
  <2>3. f[w] = units[w][i] - before[w][i] /\ g[w] = units[w][i] - used[w][i]
    BY <1>f, <1>g
  <2>4. ASSUME w \in BackedAt(R, b, i) PROVE Cardinality(Counted(R, b, w, i)) # 0
    <3>1. Counted(R, b, w, i) # {} /\ Counted(R, b, w, i) \subseteq R
      BY <2>4 DEF BackedAt, Counted
    <3>2. IsFiniteSet(Counted(R, b, w, i))
      BY <3>1, FS_Subset
    <3> QED BY <3>1, <3>2, FS_EmptySet
  <2>5. g[w] <= f[w]
    BY ONLY <2>1, <2>2, <2>3
  <2>6. Cardinality(Counted(R, b, w, i)) # 0 => g[w] < f[w]
    BY ONLY <2>1, <2>2, <2>3
  <2> QED BY <2>4, <2>5, <2>6
<1>2. BackedAt(R, b, i) \in SUBSET Wallets
  BY DEF BackedAt
<1>3. /\ IsFiniteSet(BackedAt(R, b, i)) /\ Cardinality(BackedAt(R, b, i)) \in Nat
      /\ Total(g) + Cardinality(BackedAt(R, b, i)) <= Total(f)
  BY <1>1, <1>2, TotalLowers, LedgerAssumption
<1> QED BY <1>f, <1>g, <1>3

\* A transfer makes no more units spare than it mints.
LEMMA MovedSpare ==
  ASSUME NEW units \in Counts, NEW used \in Counts, Below(used, units), NEW t \in Transfers(Nat), t.from # t.to,
         t.from # Zero => t.amount <= units[t.from][t.id], NEW i \in TokenIds,
         NEW next \in Counts, next = Shift(units, t, t.amount), NEW before \in Counts, before = MoveUsed(used, t)
  PROVE  /\ Below(before, next)
         /\ t.from = Zero /\ t.id = i =>
              Total(Spare(next, before, i)) <= Total(Spare(units, used, i)) + t.amount
         /\ ~(t.from = Zero /\ t.id = i) =>
              Total(Spare(next, before, i)) <= Total(Spare(units, used, i))
<1>w. Below(before, next)
  BY MoveWithin
<1>f. PICK f \in [Wallets -> Nat] : f = Spare(units, used, i) /\ \A w \in Wallets : f[w] = units[w][i] - used[w][i]
  BY SpareTypes
<1>g. PICK g \in [Wallets -> Nat] : g = Spare(next, before, i) /\ \A w \in Wallets : g[w] = next[w][i] - before[w][i]
  BY <1>w, SpareTypes
<1> SUFFICES /\ t.from = Zero /\ t.id = i => Total(g) <= Total(f) + t.amount
             /\ ~(t.from = Zero /\ t.id = i) => Total(g) <= Total(f)
  BY <1>w, <1>f, <1>g
<1>0. IsFiniteSet(Wallets) /\ Zero \notin Wallets
  BY LedgerAssumption
<1>1. Total(f) \in Nat /\ Total(g) \in Nat
  BY <1>0, UnitsFinite
<1>2. t.amount \in Nat /\ t.id \in TokenIds /\ t.from \in Wallets \cup {Zero} /\ t.to \in Wallets \cup {Zero}
  BY DEF Transfers
<1>3. \A w \in Wallets : units[w][i] \in Nat /\ used[w][i] \in Nat /\ used[w][i] <= units[w][i]
  BY DEF Counts, Below
<1> DEFINE l == Lesser(used[t.from][t.id], t.amount)
<1>4. \A w \in Wallets :
        before[w][i] = IF i # t.id \/ w \notin {t.from, t.to} \/ t.from = Zero THEN used[w][i]
                                  ELSE IF w = t.from THEN used[w][i] - l ELSE used[w][i] + l
  BY MoveUnits
<1>5. \A w \in Wallets :
        next[w][i] = IF i # t.id \/ w \notin {t.from, t.to} THEN units[w][i]
                                          ELSE IF w = t.from THEN units[w][i] - t.amount ELSE units[w][i] + t.amount
  <2>1. PICK a \in Nat : a = t.amount
    BY <1>2
  <2>2. t.from # Zero => a <= units[t.from][t.id]
    BY <2>1
  <2>3. \A w \in Wallets :
          next[w][i] = IF i # t.id \/ w \notin {t.from, t.to} THEN units[w][i]
                       ELSE IF w = t.from THEN units[w][i] - a ELSE units[w][i] + a
    <3>1. \A w \in Wallets :
            Shift(units, t, a)[w][i] = IF i # t.id \/ w \notin {t.from, t.to} THEN units[w][i]
                                       ELSE IF w = t.from THEN units[w][i] - a ELSE units[w][i] + a
      BY ONLY SMTT(40), <2>2, ShiftUnits, units \in Counts, t \in Transfers(Nat), t.from # t.to, a \in Nat, i \in TokenIds
    <3> QED BY <2>1, <3>1
  <2> QED BY ONLY <2>1, <2>3
<1>6. t.from # Zero /\ i = t.id => l \in Nat /\ l <= t.amount /\ l <= used[t.from][t.id]
  <2> SUFFICES ASSUME t.from # Zero, i = t.id PROVE l \in Nat /\ l <= t.amount /\ l <= used[t.from][t.id]
    OBVIOUS
  <2>1. used[t.from][t.id] \in Nat
    BY <1>2, <1>3
  <2> QED BY <1>2, <2>1 DEF Lesser
<1> HIDE DEF l
<1>7. \A w \in Wallets : i # t.id \/ w \notin {t.from, t.to} => g[w] = f[w]
  BY <1>4, <1>5, <1>f, <1>g
<1>8. CASE t.from = Zero /\ t.id = i
  <2>1. t.to \in Wallets
    BY <1>2, <1>8
  <2>2. before[t.to][i] = used[t.to][i] /\ next[t.to][i] = units[t.to][i] + t.amount
    BY <1>0, <1>4, <1>5, <1>8, <2>1
  <2>3. g[t.to] = f[t.to] + t.amount
    <3>1. g[t.to] = (units[t.to][i] + t.amount) - used[t.to][i] /\ f[t.to] = units[t.to][i] - used[t.to][i]
      BY <1>f, <1>g, <2>1, <2>2
    <3>2. units[t.to][i] \in Nat /\ used[t.to][i] \in Nat
      BY <1>3, <2>1
    <3> QED BY ONLY <1>2, <3>1, <3>2
  <2>4. \A w \in Wallets \ {t.to} : g[w] = f[w]
    BY <1>0, <1>7, <1>8
  <2>5. Total(g) = Total(f) + t.amount
    BY <1>0, <1>2, <2>1, <2>3, <2>4, TotalGrows
  <2> QED BY <1>1, <1>2, <1>8, <2>5
<1>9. CASE ~(t.from = Zero /\ t.id = i)
  <2>1. CASE t.id # i
    <3>1. \A w \in Wallets : g[w] = f[w]
      BY <1>7, <2>1
    <3>2. g = f
      BY <3>1
    <3> QED BY <1>1, <2>1, <3>2
  <2>2. CASE t.id = i /\ t.to = Zero
    <3>1. t.from \in Wallets /\ t.from # Zero
      BY <1>2, <1>9, <2>2
    <3>2. before[t.from][i] = used[t.from][i] - l /\ next[t.from][i] = units[t.from][i] - t.amount
      BY <1>4, <1>5, <2>2, <3>1
    <3>3. g[t.from] <= f[t.from]
      <4>1. g[t.from] = (units[t.from][i] - t.amount) - (used[t.from][i] - l) /\ f[t.from] = units[t.from][i] - used[t.from][i]
        BY <1>f, <1>g, <3>1, <3>2
      <4>2. units[t.from][i] \in Nat /\ used[t.from][i] \in Nat /\ l \in Nat /\ l <= t.amount
        BY <1>3, <1>6, <2>2, <3>1
      <4> QED BY ONLY <1>2, <4>1, <4>2
    <3>4. \A w \in Wallets : g[w] <= f[w]
      <4> TAKE w \in Wallets
      <4>1. w # t.from => g[w] = f[w]
        BY <1>0, <1>7, <2>2
      <4> QED BY <3>3, <4>1
    <3>5. Total(g) + Cardinality({}) <= Total(f)
      BY <1>0, <3>4, TotalLowers
    <3> QED BY <1>1, <2>2, <3>1, <3>5, FS_EmptySet
  <2>3. CASE t.id = i /\ t.to # Zero
    <3>1. t.from \in Wallets /\ t.to \in Wallets \ {t.from} /\ t.from # Zero
      BY <1>2, <1>9, <2>3
    <3>2. before[t.from][i] = used[t.from][i] - l /\ next[t.from][i] = units[t.from][i] - t.amount
      BY <1>4, <1>5, <2>3, <3>1
    <3>3. before[t.to][i] = used[t.to][i] + l /\ next[t.to][i] = units[t.to][i] + t.amount
      BY <1>4, <1>5, <2>3, <3>1
    <3>4. l \in Nat /\ l <= t.amount /\ t.amount - l \in Nat
      BY <1>2, <1>6, <2>3, <3>1
    <3>5. f[t.from] = g[t.from] + (t.amount - l)
      <4>1. g[t.from] = (units[t.from][i] - t.amount) - (used[t.from][i] - l) /\ f[t.from] = units[t.from][i] - used[t.from][i]
        BY <1>f, <1>g, <3>1, <3>2
      <4>2. units[t.from][i] \in Nat /\ used[t.from][i] \in Nat
        BY <1>3, <3>1
      <4> QED BY ONLY <1>2, <3>4, <4>1, <4>2
    <3>6. g[t.to] = f[t.to] + (t.amount - l)
      <4>1. g[t.to] = (units[t.to][i] + t.amount) - (used[t.to][i] + l) /\ f[t.to] = units[t.to][i] - used[t.to][i]
        BY <1>f, <1>g, <3>1, <3>3
      <4>2. units[t.to][i] \in Nat /\ used[t.to][i] \in Nat
        BY <1>3, <3>1
      <4> QED BY ONLY <1>2, <3>4, <4>1, <4>2
    <3>7. \A w \in Wallets \ {t.from, t.to} : g[w] = f[w]
      BY <1>7
    <3>8. Total(g) = Total(f)
      BY ONLY <1>0, <3>1, <3>4, <3>5, <3>6, <3>7, f \in [Wallets -> Nat], g \in [Wallets -> Nat], TotalMovesOn
    <3> QED BY <1>1, <3>1, <3>8
  <2> QED BY <2>1, <2>2, <2>3
<1> QED BY <1>8, <1>9


\* The units ever, one block further.
LEMMA EverSteps ==
  ASSUME NEW h, Legal(h), NEW i \in TokenIds, NEW n \in 0..(Len(h) - 1)
  PROVE  /\ EverAt(h, n, i) \in Nat /\ EverAt(h, n + 1, i) \in Nat
         /\ h[n + 1].from = Zero /\ h[n + 1].id = i => EverAt(h, n + 1, i) = EverAt(h, n, i) + h[n + 1].amount
         /\ ~(h[n + 1].from = Zero /\ h[n + 1].id = i) => EverAt(h, n + 1, i) = EverAt(h, n, i)
<1>0. Len(h) \in Nat /\ n \in Nat /\ \A m \in 1..Len(h) : h[m].amount \in Nat
  <2>1. Len(h) \in Nat /\ \A m \in 1..Len(h) : h[m] \in Transfers(Nat)
    BY LenProperties, ElementOfSeq DEF Legal
  <2>2. \A m \in 1..Len(h) : h[m].amount \in Nat
    BY <2>1 DEF Transfers
  <2> QED BY <2>1, <2>2
<1> DEFINE S == Minting(h, n, i)
           S2 == Minting(h, n + 1, i)
           f == [b \in S |-> h[b].amount]
           g == [b \in S2 |-> h[b].amount]
           initial == Total([w \in Wallets |-> InitialUnits[w][i]])
<1>1. initial \in Nat
  <2>1. [w \in Wallets |-> InitialUnits[w][i]] \in [Wallets -> Nat]
    BY LedgerAssumption
  <2> HIDE DEF initial
  <2> QED BY <2>1, LedgerAssumption, UnitsFinite DEF initial
<1>2. IsFiniteSet(S) /\ IsFiniteSet(S2)
  <2>1. 1 \in Int /\ n \in Int /\ n + 1 \in Int
    BY <1>0
  <2>2. IsFiniteSet(1..n) /\ IsFiniteSet(1..(n + 1))
    BY ONLY <2>1, FS_Interval
  <2>3. S \in SUBSET (1..n) /\ S2 \in SUBSET (1..(n + 1))
    BY DEF Minting
  <2> HIDE DEF S, S2
  <2> QED BY <2>2, <2>3, FS_Subset
<1>3. f \in [S -> Nat] /\ g \in [S2 -> Nat]
  <2>1. \A b \in S : b \in 1..Len(h)
    BY <1>0 DEF Minting
  <2>2. \A b \in S2 : b \in 1..Len(h)
    BY <1>0 DEF Minting
  <2> HIDE DEF S, S2
  <2> QED BY <1>0, <2>1, <2>2
<1>4. EverAt(h, n, i) = initial + Total(f) /\ EverAt(h, n + 1, i) = initial + Total(g)
  BY DEF EverAt
<1>5. \A b \in S : b # n + 1
  BY <1>0 DEF Minting
<1>6. CASE h[n + 1].from = Zero /\ h[n + 1].id = i
  <2>1. S2 = S \cup {n + 1}
    BY <1>0, <1>6 DEF Minting
  <2>2. (\A b \in S : g[b] = f[b]) /\ g[n + 1] = h[n + 1].amount
    BY <2>1
  <2> HIDE DEF f, g, S, S2, initial
  <2>3. Total(f) \in Nat /\ Total(g) = Total(f) + g[n + 1]
    <3>1. PICK x : x = n + 1
      OBVIOUS
    <3>2. x \notin S /\ g \in [S \cup {x} -> Nat]
      BY <1>3, <1>5, <2>1, <3>1
    <3>3. Total(f) \in Nat /\ Total(g) = Total(f) + g[x]
      <4>1. PICK A : A = S
        OBVIOUS
      <4>2. PICK c \in [A -> Nat] : c = f
        BY <1>3, <4>1
      <4>3. PICK d \in [A \cup {x} -> Nat] : d = g
        BY <3>2, <4>1
      <4>4. IsFiniteSet(A) /\ x \notin A /\ \A y \in A : d[y] = c[y]
        BY <1>2, <2>2, <3>2, <4>1, <4>2, <4>3
      <4>5. Total(c) \in Nat /\ Total(d) = Total(c) + d[x]
        BY ONLY <4>4, TotalExtends, c \in [A -> Nat], d \in [A \cup {x} -> Nat]
      <4> QED BY <4>2, <4>3, <4>5
    <3> QED BY ONLY <3>1, <3>3
  <2>4. h[n + 1].amount \in Nat
    BY <1>0
  <2>5. EverAt(h, n, i) \in Nat /\ EverAt(h, n + 1, i) \in Nat
    BY ONLY SMTT(40), <1>1, <1>4, <2>2, <2>3, <2>4
  <2>6. EverAt(h, n + 1, i) = EverAt(h, n, i) + h[n + 1].amount
    BY ONLY <1>1, <1>4, <2>2, <2>3, <2>4
  <2> QED BY <1>6, <2>5, <2>6
<1>7. CASE ~(h[n + 1].from = Zero /\ h[n + 1].id = i)
  <2>1. S2 = S
    BY <1>0, <1>7 DEF Minting
  <2>2. g = f
    BY <2>1
  <2> HIDE DEF f, g, S, S2, initial
  <2>3. Total(f) \in Nat
    BY <1>2, <1>3, UnitsFinite
  <2>4. EverAt(h, n, i) \in Nat /\ EverAt(h, n + 1, i) = EverAt(h, n, i)
    BY <1>1, <1>4, <2>2, <2>3
  <2> QED BY ONLY <1>7, <2>4
<1> QED BY <1>6, <1>7

LEMMA BackedGrows ==
  ASSUME NEW R, IsFiniteSet(R), NEW i, NEW n \in Nat, \A r \in R : r.block \in Nat
  PROVE  /\ IsFiniteSet(BackedBy(R, n, i)) /\ Cardinality(BackedBy(R, n, i)) \in Nat
         /\ BackedBy(R, 0, i) = BackedAt(R, 0, i)
         /\ Cardinality(BackedBy(R, n + 1, i)) <= Cardinality(BackedBy(R, n, i)) + Cardinality(BackedAt(R, n + 1, i))
<1>1. /\ BackedBy(R, n, i) \in SUBSET Wallets /\ BackedAt(R, n + 1, i) \in SUBSET Wallets
      /\ BackedBy(R, 0, i) \in SUBSET Wallets
  BY DEF BackedBy, BackedAt
<1>2. /\ IsFiniteSet(BackedBy(R, n, i)) /\ Cardinality(BackedBy(R, n, i)) \in Nat
      /\ IsFiniteSet(BackedAt(R, n + 1, i)) /\ Cardinality(BackedAt(R, n + 1, i)) \in Nat
  BY <1>1, LedgerAssumption, FS_Subset, FS_CardinalityType
<1>3. BackedBy(R, n + 1, i) = BackedBy(R, n, i) \cup BackedAt(R, n + 1, i)
  <2>1. \A r \in R : r.block <= n + 1 <=> r.block <= n \/ r.block = n + 1
    OBVIOUS
  <2> QED BY <2>1 DEF BackedBy, BackedAt
<1>4. BackedBy(R, 0, i) = BackedAt(R, 0, i)
  <2>1. \A r \in R : r.block <= 0 <=> r.block = 0
    OBVIOUS
  <2> QED BY <2>1 DEF BackedBy, BackedAt
<1>5. Cardinality(BackedBy(R, n, i) \cup BackedAt(R, n + 1, i))
        = Cardinality(BackedBy(R, n, i)) + Cardinality(BackedAt(R, n + 1, i))
          - Cardinality(BackedBy(R, n, i) \cap BackedAt(R, n + 1, i))
  BY <1>2, FS_Union
<1>6. Cardinality(BackedBy(R, n, i) \cap BackedAt(R, n + 1, i)) \in Nat
  <2>1. BackedBy(R, n, i) \cap BackedAt(R, n + 1, i) \in SUBSET Wallets
    BY <1>1
  <2> QED BY <2>1, LedgerAssumption, FS_Subset, FS_CardinalityType
<1>7. Cardinality(BackedBy(R, n + 1, i)) <= Cardinality(BackedBy(R, n, i)) + Cardinality(BackedAt(R, n + 1, i))
  <2>1. Cardinality(BackedBy(R, n + 1, i)) = Cardinality(BackedBy(R, n, i) \cup BackedAt(R, n + 1, i))
    BY <1>3
  <2>2. PICK a \in Nat : a = Cardinality(BackedBy(R, n, i))
    BY <1>2
  <2>3. PICK b \in Nat : b = Cardinality(BackedAt(R, n + 1, i))
    BY <1>2
  <2>4. PICK c \in Nat : c = Cardinality(BackedBy(R, n, i) \cap BackedAt(R, n + 1, i))
    BY <1>6
  <2>5. Cardinality(BackedBy(R, n + 1, i)) = a + b - c
    BY ONLY <1>5, <2>1, <2>2, <2>3, <2>4
  <2> QED BY ONLY <2>2, <2>3, <2>4, <2>5
<1> QED BY <1>2, <1>4, <1>7

LEMMA Margins ==
  ASSUME NEW a \in Nat, NEW b \in Nat, NEW x \in Nat, NEW y \in Nat, NEW z \in Nat, NEW more \in Nat,
         NEW ever \in Nat, NEW next \in Nat, NEW made \in Nat,
         b <= a + more, z + more <= y, a + x <= ever, y <= x + made, next = ever + made
  PROVE  b + z <= next
OBVIOUS

(***************************************************************************)
(* As long as the ledger stays within the balances, the wallets that have  *)
(* a reservation are no more than the units that ever existed.             *)
(***************************************************************************)
LEMMA BackedByUnits ==
  ASSUME NEW h, Legal(h), NEW R, IsFiniteSet(R), \A r \in R : r.block \in Nat, NEW i \in TokenIds,
         \A n \in 0..Len(h) : Within(R, h, n)
  PROVE  \A n \in 0..Len(h) : EverAt(h, n, i) \in Nat /\ Cardinality(BackedBy(R, n, i)) <= EverAt(h, n, i)
<1> DEFINE Left(n) == Total(Spare(BalancesAt(h, n), ReplayUsedUnits(R, h, n), i))
           P == {n \in 0..Len(h) : EverAt(h, n, i) \in Nat /\ Cardinality(BackedBy(R, n, i)) + Left(n) <= EverAt(h, n, i)}
<1>0. Len(h) \in Nat /\ h \in Seq(Transfers(Nat)) /\ IsFiniteSet(Wallets)
  BY LenProperties, LedgerAssumption DEF Legal
<1>b. \A n \in Nat : Cardinality(BackedBy(R, n, i)) \in Nat
  BY BackedGrows
<1>s. \A n \in 0..Len(h) : Left(n) \in Nat
  BY BalanceTypes, UsedTypes, SpareTypes DEF Within
<1>1. 0 \in P
  <2>1. PICK used : used = ReplayUsedUnits(R, h, 0)
    OBVIOUS
  <2>2. NoneUsed \in Counts /\ InitialUnits \in Counts /\ used \in Counts
    BY <1>0, <2>1, UsedTypes, LedgerAssumption DEF NoneUsed, Counts
  <2>3. used = Reserve(NoneUsed, R, 0) /\ BalancesAt(h, 0) = InitialUnits
    BY <1>0, <2>1, UsedSteps, BalanceSteps
  <2>4. Below(used, InitialUnits)
    BY <1>0, <2>1, <2>3 DEF Within
  <2>5. Below(NoneUsed, InitialUnits)
    <3>1. \A w \in Wallets, j \in TokenIds : NoneUsed[w][j] = 0 /\ InitialUnits[w][j] \in Nat
      BY LedgerAssumption DEF NoneUsed
    <3> QED BY <3>1 DEF Below
  <2>6. Spare(InitialUnits, NoneUsed, i) = [w \in Wallets |-> InitialUnits[w][i]]
    <3>1. \A w \in Wallets : InitialUnits[w][i] - NoneUsed[w][i] = InitialUnits[w][i]
      <4>1. \A w \in Wallets : NoneUsed[w][i] = 0 /\ InitialUnits[w][i] \in Nat
        BY LedgerAssumption DEF NoneUsed
      <4> QED BY <4>1
    <3> QED BY <3>1 DEF Spare
  <2>7. PICK initial \in Nat : initial = Total(Spare(InitialUnits, NoneUsed, i))
    BY <2>2, <2>5, SpareTypes
  <2>8. /\ Cardinality(BackedAt(R, 0, i)) \in Nat
        /\ Total(Spare(InitialUnits, used, i)) + Cardinality(BackedAt(R, 0, i)) <= initial
    BY ONLY <2>2, <2>3, <2>4, <2>5, <2>7, ReservedSpare, IsFiniteSet(R), i \in TokenIds
  <2>9. BackedBy(R, 0, i) = BackedAt(R, 0, i)
    BY BackedGrows
  <2>10. EverAt(h, 0, i) = initial
    <3>1. Minting(h, 0, i) = {}
      BY DEF Minting
    <3> DEFINE e == [b \in Minting(h, 0, i) |-> h[b].amount]
    <3>2. Units(e) = {}
      BY <3>1 DEF Units
    <3>3. Total(e) = 0
      BY <3>2, FS_EmptySet DEF Total
    <3>4. EverAt(h, 0, i) = initial + Total(e)
      BY <2>6, <2>7 DEF EverAt
    <3> HIDE DEF e
    <3> QED BY <3>3, <3>4
  <2>11. Left(0) \in Nat /\ Left(0) = Total(Spare(InitialUnits, used, i))
    BY <1>0, <1>s, <2>1, <2>3
  <2>12. EverAt(h, 0, i) \in Nat /\ Cardinality(BackedBy(R, 0, i)) + Left(0) <= EverAt(h, 0, i)
    BY <2>8, <2>9, <2>10, <2>11
  <2> QED BY <1>0, <2>12
<1>2. ASSUME NEW n \in 0..(Len(h) - 1), n \in P PROVE n + 1 \in P
  <2>0. n \in Nat /\ n + 1 \in 0..Len(h) /\ n \in 0..Len(h) /\ n + 1 \in Nat
    BY <1>0
  <2>1. PICK units : units = BalancesAt(h, n)
    OBVIOUS
  <2>2. PICK used : used = ReplayUsedUnits(R, h, n)
    OBVIOUS
  <2>3. PICK t : t = h[n + 1]
    OBVIOUS
  <2>4. PICK next : next = BalancesAt(h, n + 1)
    OBVIOUS
  <2>5. PICK after : after = ReplayUsedUnits(R, h, n + 1)
    OBVIOUS
  <2>6. PICK before : before = MoveUsed(used, t)
    OBVIOUS
  <2>7. /\ units \in Counts /\ used \in Counts /\ next \in Counts /\ after \in Counts /\ before \in Counts
        /\ t \in Transfers(Nat) /\ t.amount \in Nat /\ t.from # t.to
        /\ t.from # Zero => t.amount <= units[t.from][t.id]
        /\ next = Shift(units, t, t.amount) /\ after = Reserve(before, R, n + 1)
    BY <2>1, <2>2, <2>3, <2>4, <2>5, <2>6, LegalStep
  <2>8. Below(used, units) /\ Below(after, next)
    BY <2>0, <2>1, <2>2, <2>4, <2>5 DEF Within
  <2>9. /\ Below(before, next)
        /\ t.from = Zero /\ t.id = i => Total(Spare(next, before, i)) <= Total(Spare(units, used, i)) + t.amount
        /\ ~(t.from = Zero /\ t.id = i) => Total(Spare(next, before, i)) <= Total(Spare(units, used, i))
    BY ONLY <2>6, <2>7, <2>8, i \in TokenIds, MovedSpare
  <2>10. PICK x \in Nat : x = Total(Spare(units, used, i))
    BY <2>7, <2>8, SpareTypes
  <2>11. PICK y \in Nat : y = Total(Spare(next, before, i))
    BY <2>7, <2>9, SpareTypes
  <2>12. PICK z \in Nat : z = Total(Spare(next, after, i))
    BY <2>7, <2>8, SpareTypes
  <2>13. PICK new \in Nat : new = Cardinality(BackedAt(R, n + 1, i)) /\ z + new <= y
    BY ONLY <2>7, <2>8, <2>9, <2>11, <2>12, i \in TokenIds, IsFiniteSet(R), ReservedSpare
  <2>14. PICK a \in Nat : a = Cardinality(BackedBy(R, n, i))
    BY <1>b, <2>0
  <2>15. PICK b \in Nat : b = Cardinality(BackedBy(R, n + 1, i)) /\ b <= a + new
    BY <1>b, <2>0, <2>13, <2>14, BackedGrows
  <2>16. /\ EverAt(h, n, i) \in Nat /\ EverAt(h, n + 1, i) \in Nat
         /\ t.from = Zero /\ t.id = i => EverAt(h, n + 1, i) = EverAt(h, n, i) + t.amount
         /\ ~(t.from = Zero /\ t.id = i) => EverAt(h, n + 1, i) = EverAt(h, n, i)
    BY <2>3, EverSteps
  <2>17. a + x <= EverAt(h, n, i)
    BY <1>2, <2>1, <2>2, <2>10, <2>14
  <2>18. b + z <= EverAt(h, n + 1, i)
    <3>1. CASE t.from = Zero /\ t.id = i
      <4>1. y <= x + t.amount /\ EverAt(h, n + 1, i) = EverAt(h, n, i) + t.amount
        BY <2>9, <2>10, <2>11, <2>16, <3>1
      <4>2. PICK k \in Nat : k = t.amount
        BY ONLY <2>7
      <4>3. PICK e \in Nat : e = EverAt(h, n, i)
        BY ONLY <2>16
      <4>4. PICK f \in Nat : f = EverAt(h, n + 1, i)
        BY ONLY <2>16
      <4>5. b <= a + new /\ z + new <= y
        BY ONLY <2>13, <2>15
      <4>6. a + x <= e /\ y <= x + k /\ f = e + k
        BY ONLY <2>17, <4>1, <4>2, <4>3, <4>4
      <4>7. b + z <= f
        BY ONLY <4>5, <4>6, Margins, k \in Nat, e \in Nat, f \in Nat,
                x \in Nat, y \in Nat, z \in Nat, a \in Nat, b \in Nat, new \in Nat
      <4> QED BY ONLY <4>4, <4>7
    <3>2. CASE ~(t.from = Zero /\ t.id = i)
      <4>1. y <= x /\ EverAt(h, n + 1, i) = EverAt(h, n, i)
        BY <2>9, <2>10, <2>11, <2>16, <3>2
      <4> QED BY ONLY <2>13, <2>15, <2>16, <2>17, <4>1, x \in Nat, y \in Nat, z \in Nat, a \in Nat, b \in Nat, new \in Nat
    <3> QED BY <3>1, <3>2
  <2> QED BY <2>0, <2>4, <2>5, <2>12, <2>15, <2>16, <2>18
<1>3. \A n \in 0..Len(h) : n \in P
  <2> HIDE DEF P
  <2> QED BY <1>0, <1>1, <1>2, Climb
<1> SUFFICES ASSUME NEW n \in 0..Len(h)
             PROVE  EverAt(h, n, i) \in Nat /\ Cardinality(BackedBy(R, n, i)) <= EverAt(h, n, i)
  OBVIOUS
<1>4. n \in Nat /\ Left(n) \in Nat /\ Cardinality(BackedBy(R, n, i)) \in Nat
  BY <1>0, <1>b, <1>s
<1>5. EverAt(h, n, i) \in Nat /\ Cardinality(BackedBy(R, n, i)) + Left(n) <= EverAt(h, n, i)
  BY <1>3
<1> HIDE DEF Left
<1> QED BY ONLY <1>4, <1>5

-----------------------------------------------------------------------------
(***************************************************************************)
(* What the rows of the service reserve, over the history of the chain.    *)
(***************************************************************************)
LEMMA ReservationsFinite == \A keys \in SUBSET Keys : IsFiniteSet(RowReservations(keys))
<1> TAKE keys \in SUBSET Keys
<1>1. IsFiniteSet(Keys)
  <2>1. IsFiniteSet(Contracts) /\ IsFiniteSet(Wallets)
    BY ClaimAssumption, LedgerAssumption, FS_Interval DEF Contracts
  <2> QED BY <2>1, FS_Product DEF Keys
<1>2. IsFiniteSet(keys)
  BY <1>1, FS_Subset
<1> DEFINE f == [k \in keys |-> [wallet |-> k[2], block |-> rows[k].block, unit |-> rows[k].unit, contract |-> k[1]]]
<1>3. f \in Surjection(keys, RowReservations(keys))
  BY DEF RowReservations, Surjection
<1> HIDE DEF f
<1> QED BY <1>2, <1>3, FS_Surjection

\* The reservation of a key, and what it says.
Reservation(k) == [wallet |-> k[2], block |-> rows[k].block, unit |-> rows[k].unit, contract |-> k[1]]

LEMMA ReservedRows ==
  ASSUME TypeOK
  PROVE  /\ IsFiniteSet(Reserved)
         /\ \A r \in Reserved : \E k \in Keys : rows[k].status \in {"PENDING", "REDEEMED"} /\ r = Reservation(k)
         /\ \A k \in Keys : rows[k].status \in {"PENDING", "REDEEMED"} => Reservation(k) \in Reserved
         /\ \A r \in Reserved : r.block \in Nat
<1>1. IsFiniteSet(Reserved)
  BY ReservationsFinite DEF Reserved
<1>2. \A r \in Reserved : \E k \in Keys : rows[k].status \in {"PENDING", "REDEEMED"} /\ r = Reservation(k)
  BY DEF Reserved, RowReservations, Reservation
<1>3. \A k \in Keys : rows[k].status \in {"PENDING", "REDEEMED"} => Reservation(k) \in Reserved
  BY DEF Reserved, RowReservations, Reservation
<1>4. \A k \in Keys : rows[k].block \in Nat
  BY DEF TypeOK, Row, Issued, NoRow
<1>5. \A r \in Reserved : r.block \in Nat
  BY <1>2, <1>4 DEF Reservation
<1> QED BY <1>1, <1>2, <1>3, <1>5

\* The parts of UnitsKept in the words of the ledger.
LEMMA LedgerKept ==
  ASSUME TypeOK, UnitsKept
  PROVE  /\ Legal(history) /\ history \in Seq(Transfers(Nat))
         /\ Len(history) \in Nat /\ HeadBlock = Len(history)
         /\ \A n \in 0..Len(history) : Within(Reserved, history, n)
         /\ \A r \in Reserved : r.block <= Len(history)
<1>1. Transfers(Amounts) \subseteq Transfers(Nat)
  BY ClaimAssumption DEF Transfers
<1>2. history \in Seq(Transfers(Nat)) /\ Len(history) \in Nat
  <2>1. history \in Seq(Transfers(Amounts))
    BY DEF TypeOK
  <2> QED BY <1>1, <2>1, SeqDef, LenProperties
<1>3. Legal(history)
  BY <1>2 DEF UnitsKept, HistoryLegal, Legal, HeadBlock
<1>4. \A n \in 0..Len(history) : Within(Reserved, history, n)
  BY DEF UnitsKept, LedgerReplays, LedgerConsistent, Within, Below, HeadBlock
<1>5. \A r \in Reserved : r.block <= Len(history)
  BY ReservedRows DEF UnitsKept, RowsBehindHead, Reservation, HeadBlock
<1> QED BY <1>2, <1>3, <1>4, <1>5 DEF HeadBlock

\* The unit a claim uses is one of the unused.
LEMMA UnitUnused ==
  ASSUME NEW balance, NEW used, UnitToUse(balance, used) \in TokenIds
  PROVE  used[UnitToUse(balance, used)] < balance[UnitToUse(balance, used)]
<1> DEFINE unused == {i \in TokenIds : used[i] < balance[i]}
<1>1. unused # {}
  BY LedgerAssumption DEF UnitToUse
<1>2. unused \in SUBSET Nat
  BY LedgerAssumption
<1>3. PICK i \in unused : \A j \in unused : i <= j
  <2> HIDE DEF unused
  <2> QED BY <1>1, <1>2, LeastOfNaturals
<1>4. UnitToUse(balance, used) \in unused
  BY <1>1, <1>3 DEF UnitToUse
<1> QED BY <1>4

LEMMA ReservedSame ==
  ASSUME UNCHANGED rows
  PROVE  Reserved' = Reserved
BY DEF Reserved, RowReservations

\* A step of the requests alone.
LEMMA UnitsUntouched ==
  ASSUME UnitsKept, UNCHANGED <<history, rows>>, \A s \in Servers : StillCounted(sess'[s])
  PROVE  UnitsKept'
<1>1. Reserved' = Reserved
  BY ReservedSame
<1>2. \A s \in Servers : StillCounted(sess[s])'
  BY DEF StillCounted, Active, Overdue
<1> QED BY <1>1, <1>2 DEF UnitsKept, RowsBehindHead, HistoryLegal, LedgerReplays, HeadBlock

\* A step of one request, the others as they were.
LEMMA CountedStep ==
  ASSUME TypeOK, UnitsKept, NEW s \in Servers, NEW r, sess' = [sess EXCEPT ![s] = r], StillCounted(r)
  PROVE  \A q \in Servers : StillCounted(sess'[q])
BY DEF UnitsKept, TypeOK

LEMMA FinishCounted ==
  ASSUME TypeOK, UnitsKept, NEW s \in Servers, Finish(s)
  PROVE  \A q \in Servers : StillCounted(sess'[q])
<1>1. StillCounted(Idle)
  BY DEF StillCounted, Idle
<1> QED BY <1>1, CountedStep DEF Finish

LEMMA ReadClockCounted ==
  ASSUME NEW s \in Servers, TypeOK, RowsSound, UnitsKept, ReadClock(s)
  PROVE  UnitsKept'
<1> DEFINE r == sess[s]
<1>1. PICK t \in Views : sess' = [sess EXCEPT ![s] = Clocked(r, t)]
  BY DEF ReadClock
<1>2. r \in Session /\ r.step = "listed" /\ SessionSound(r)
  BY DEF ReadClock, TypeOK, RowsSound, SessionsSound
<1>3. PICK c : c = Clocked(r, t)
  OBVIOUS
<1>4. /\ c.staged = rows /\ c.records = rows /\ c.op = r.op
      /\ r.op = "issue" => c.todo = {k \in Keys : rows[k].status = "PENDING" /\ Overdue(rows[k], t)}
      /\ {k \in Keys : rows[k].status = "PENDING"} # {} => c.clock = t
  BY <1>2, <1>3 DEF Clocked, SessionSound, Session
<1>5. ASSUME c.op = "issue", NEW k \in Keys \ c.todo, c.staged[k].status \in {"PENDING", "REDEEMED"}
      PROVE  k \in Active(c)
  <2>1. CASE rows[k].status = "REDEEMED"
    BY <1>4, <2>1 DEF Active
  <2>2. CASE rows[k].status = "PENDING"
    <3>1. ~Overdue(rows[k], t) /\ c.clock = t
      BY <1>4, <1>5, <2>2
    <3> QED BY <1>4, <2>2, <3>1 DEF Active
  <2> QED BY <1>4, <1>5, <2>1, <2>2
<1>6. StillCounted(c)
  BY <1>5 DEF StillCounted
<1>7. \A q \in Servers : StillCounted(sess'[q])
  BY <1>1, <1>3, <1>6, CountedStep
<1> QED BY <1>7, UnitsUntouched DEF ReadClock, chain

LEMMA SettleCounted ==
  ASSUME Single, NEW s \in Servers, NEW k \in Keys, TypeOK, RowsSound, UnitsKept, Settle(s, k)
  PROVE  UnitsKept'
<1> DEFINE r == sess[s]
           w == k[2]
<1>1. PICK t \in Views : sess' = [sess EXCEPT ![s] = Settled(r, k, t)]
  BY DEF Settle
<1>2. r \in Session /\ r.step = "settling" /\ k \in r.todo /\ SessionSound(r) /\ StillCounted(r)
  BY DEF Settle, TypeOK, RowsSound, SessionsSound, UnitsKept
<1>3. rows[k].status = "PENDING" /\ k = <<live, w>> /\ r.records = rows /\ r.staged \in [Keys -> Row] /\ Staged(r, k)
  BY <1>2, SingleContract DEF SessionSound, Session
<1>4. PICK c : c = Settled(r, k, t)
  OBVIOUS
<1> DEFINE claimed == HasClaimed(live, w, t)
<1>5. /\ c.records = rows /\ c.op = r.op /\ c.step = "settling" /\ c.clock = r.clock /\ c.todo = r.todo \ {k}
      /\ c.confirmed = IF claimed THEN r.confirmed \cup {k} ELSE r.confirmed
      /\ c.staged = IF claimed THEN SetStatus(r.staged, w, "REDEEMED")
                    ELSE IF Overdue(rows[k], r.clock) THEN SetStatus(r.staged, w, "EXPIRED")
                    ELSE r.staged
  BY <1>2, <1>3, <1>4 DEF Settled, Session
<1>6. \A j \in Keys \ {k} : c.staged[j] = r.staged[j]
  BY <1>3, <1>5 DEF SetStatus
<1>7. Active(r) \subseteq Active(c)
  BY <1>3, <1>5 DEF Active
<1>8. ASSUME c.op = "issue", NEW j \in Keys \ c.todo, c.staged[j].status \in {"PENDING", "REDEEMED"}
      PROVE  j \in Active(c)
  <2>1. CASE j # k
    BY <1>2, <1>5, <1>6, <1>7, <1>8, <2>1 DEF StillCounted
  <2>2. CASE j = k
    <3>1. CASE claimed
      BY <1>5, <2>2, <3>1 DEF Active
    <3>2. CASE ~claimed /\ Overdue(rows[k], r.clock)
      <4>1. rows[k] \in Issued
        BY <1>3 DEF TypeOK, Row, NoRow
      <4>2. r.staged[k].status # "NONE" /\ r.staged[k] \in Issued
        BY <1>3, <4>1 DEF Staged, Issued
      <4>3. c.staged[k].status = "EXPIRED"
        BY <1>3, <1>5, <3>2, <4>2 DEF SetStatus, Issued
      <4> QED BY <1>8, <2>2, <4>3
    <3>3. CASE ~Overdue(rows[k], r.clock)
      BY <1>3, <1>5, <2>2, <3>3 DEF Active
    <3> QED BY <3>1, <3>2, <3>3
  <2> QED BY <2>1, <2>2
<1>9. StillCounted(c)
  BY <1>8 DEF StillCounted
<1>10. \A q \in Servers : StillCounted(sess'[q])
  BY <1>1, <1>4, <1>9, CountedStep
<1> QED BY <1>10, UnitsUntouched DEF Settle, chain

LEMMA ReadClaimStateCounted ==
  ASSUME NEW s \in Servers, TypeOK, UnitsKept, ReadClaimState(s)
  PROVE  UnitsKept'
<1> DEFINE r == sess[s]
<1>1. r \in Session /\ r.step = "settling" /\ r.op = "issue" /\ StillCounted(r)
  BY DEF ReadClaimState, TypeOK, UnitsKept
<1>2. PICK c : c = [r EXCEPT !.step = "position"]
  OBVIOUS
<1>3. /\ c.op = r.op /\ c.todo = r.todo /\ c.staged = r.staged /\ c.records = r.records
      /\ c.clock = r.clock /\ c.confirmed = r.confirmed
  BY <1>1, <1>2 DEF Session
<1>4. StillCounted(c)
  BY <1>1, <1>3 DEF StillCounted, Active
<1>5. \A q \in Servers : StillCounted(sess'[q])
  BY <1>2, <1>4, CountedStep DEF ReadClaimState
<1> QED BY <1>5, UnitsUntouched DEF ReadClaimState, chain

\* A transfer adds a block; what was reserved moves on with the units.
LEMMA TransferUnits ==
  ASSUME TypeOK, UnitsKept, NEW t \in Transfers(Amounts), Transfer(t)
  PROVE  UnitsKept'
<1>1. /\ history' = Append(history, t) /\ UNCHANGED <<rows, sess>> /\ t.from # t.to
      /\ t.from # Zero => t.amount <= BalancesAt(history, Len(history))[t.from][t.id]
  BY DEF Transfer, service, HeadBlock
<1>2. t \in Transfers(Nat)
  BY ClaimAssumption DEF Transfers
<1>3. PICK g : g = Append(history, t)
  OBVIOUS
<1>4. Legal(g) /\ Len(g) = Len(history) + 1
  BY <1>1, <1>2, <1>3, LedgerKept, LegalAppend
<1>5. \A n \in 0..Len(history) : Within(Reserved, g, n)
  BY <1>2, <1>3, LedgerKept, EarlierBlocksSame DEF Within
<1>6. \A n \in Len(history)..Len(g) : Within(Reserved, g, n)
  <2>1. Len(history) \in 0..Len(g) /\ Within(Reserved, g, Len(history))
    BY <1>4, <1>5, LedgerKept
  <2> QED BY <1>4, <2>1, LedgerKept, ReservedRows, StaysWithin
<1>7. \A n \in 0..Len(g) : Within(Reserved, g, n)
  BY <1>4, <1>5, <1>6, LedgerKept
<1>8. Reserved' = Reserved /\ history' = g
  BY <1>1, <1>3, ReservedSame
<1>9. RowsBehindHead'
  <2>1. \A k \in Keys : rows[k].block \in Nat /\ rows[k].block <= Len(history)
    BY DEF UnitsKept, RowsBehindHead, HeadBlock, TypeOK, Row, Issued, NoRow
  <2> QED BY <1>1, <1>4, <1>8, <2>1, LedgerKept DEF RowsBehindHead, HeadBlock
<1>10. HistoryLegal'
  BY <1>4, <1>8 DEF Legal, HistoryLegal, HeadBlock
<1>11. LedgerReplays'
  BY <1>7, <1>8 DEF Within, Below, LedgerReplays, LedgerConsistent, HeadBlock
<1>12. \A s \in Servers : StillCounted(sess[s])'
  BY <1>1 DEF UnitsKept, StillCounted, Active, Overdue
<1> QED BY <1>9, <1>10, <1>11, <1>12 DEF UnitsKept

\* What a sound request commits reserves nothing that was not reserved.
LEMMA StagedReserved ==
  ASSUME NEW s \in Servers, TypeOK, RowsSound, sess[s].step \in {"settling", "position"}, NEW k \in Keys,
         sess[s].staged[k].status \in {"PENDING", "REDEEMED"}
  PROVE  rows[k].status \in {"PENDING", "REDEEMED"}
<1>1. \/ sess[s].staged[k].status = rows[k].status
      \/ sess[s].staged[k].status = "REDEEMED" /\ rows[k].nonce \in usedNonces
      \/ sess[s].staged[k].status = "EXPIRED" /\ Dead(rows[k])
  BY CommitRows
<1>2. CASE rows[k].nonce \in usedNonces
  <2>1. rows[k].status # "EXPIRED"
    BY <1>2 DEF RowsSound, ReleasedAreDead, Dead
  <2>2. rows[k] # NoRow
    BY <1>2 DEF NoRow, TypeOK, Nonces
  <2> QED BY <2>1, <2>2 DEF TypeOK, Row, Issued
<1> QED BY <1>1, <1>2

LEMMA SettlementUnits ==
  ASSUME NEW s \in Servers, TypeOK, RowsSound, UnitsKept, sess[s].step = "settling",
         rows' = Committed(sess[s], sess[s].staged), Finish(s), UNCHANGED chain
  PROVE  UnitsKept'
<1>1. /\ rows' = sess[s].staged /\ UNCHANGED history
      /\ \A k \in Keys : rows'[k].unit = rows[k].unit /\ rows'[k].block = rows[k].block
  BY CommitRows DEF chain
<1>2. \A k \in Keys : rows'[k].status \in {"PENDING", "REDEEMED"} => rows[k].status \in {"PENDING", "REDEEMED"}
  BY <1>1, StagedReserved
<1>3. Reserved' \in SUBSET Reserved
  <2> SUFFICES ASSUME NEW r \in Reserved' PROVE r \in Reserved
    OBVIOUS
  <2>1. PICK k \in Keys : /\ rows'[k].status \in {"PENDING", "REDEEMED"}
                          /\ r = [wallet |-> k[2], block |-> rows'[k].block, unit |-> rows'[k].unit, contract |-> k[1]]
    BY DEF Reserved, RowReservations
  <2>2. r = Reservation(k)
    BY <1>1, <2>1 DEF Reservation
  <2> QED BY <1>2, <2>1, <2>2, ReservedRows
<1>4. \A n \in 0..Len(history) : Within(Reserved', history, n)
  <2> PICK Q \in SUBSET Reserved : Q = Reserved'
    BY <1>3
  <2>1. \A n \in 0..Len(history) : Within(Q, history, n)
    BY LedgerKept, ReservedRows, FewerWithin
  <2> QED BY <2>1
<1>5. LedgerReplays'
  BY <1>1, <1>4 DEF Within, Below, LedgerReplays, LedgerConsistent, HeadBlock
<1>6. RowsBehindHead' /\ HistoryLegal'
  BY <1>1 DEF UnitsKept, RowsBehindHead, HistoryLegal, HeadBlock
<1>7. \A q \in Servers : StillCounted(sess[q])'
  <2>1. \A q \in Servers : StillCounted(sess'[q])
    BY FinishCounted
  <2> QED BY <2>1 DEF StillCounted, Active, Overdue
<1> QED BY <1>5, <1>6, <1>7 DEF UnitsKept

(***************************************************************************)
(* A new voucher's unit is one the ledger found unused at a block that no  *)
(* reservation is after, so no block has one too many.                     *)
(***************************************************************************)
LEMMA IssueUnits ==
  ASSUME NEW s \in Servers, TypeOK, TypeOK', RowsSound, UnitsKept, Issue(s)
  PROVE  UnitsKept'
<1> DEFINE r == sess[s]
           w == r.wallet
           key == <<live, w>>
<1>0. /\ r \in Session /\ r.step = "position" /\ r.op = "issue" /\ w \in Wallets /\ key \in Keys
      /\ r.records = rows /\ r.todo = {} /\ StillCounted(r) /\ SessionSound(r)
  BY DEF Issue, TypeOK, RowsSound, SessionsSound, SessionSound, UnitsKept, Keys
<1>1. PICK Q : Q = Reservations(r)
  OBVIOUS
<1>2. PICK through, unit, row :
        /\ through \in 0..HeadBlock /\ unit \in TokenIds
        /\ row.block = through /\ row.unit = unit
        /\ ReplayUsedUnits(Q, history, through)[w][unit] < BalancesAt(history, through)[w][unit]
        /\ \A res \in Q : res.block <= through
        /\ rows' = Committed(r, [r.staged EXCEPT ![key] = row])
  <2>1. PICK through, unit, deadline, nonce :
          /\ through \in 0..HeadBlock
          /\ unit = UnitToUse(BalancesAt(history, through)[w], ReplayUsedUnits(Q, history, through)[w])
          /\ unit \in TokenIds
          /\ \A res \in Q : res.block <= through
          /\ rows' = Committed(r, [r.staged EXCEPT ![key] =
                 [status |-> "PENDING", block |-> through, unit |-> unit, deadline |-> deadline, nonce |-> nonce]])
    BY <1>1 DEF Issue, Eligible
  <2>2. ReplayUsedUnits(Q, history, through)[w][unit] < BalancesAt(history, through)[w][unit]
    BY <2>1, UnitUnused
  <2>3. PICK row : row = [status |-> "PENDING", block |-> through, unit |-> unit, deadline |-> deadline, nonce |-> nonce]
    OBVIOUS
  <2>4. row.block = through /\ row.unit = unit
    BY <2>3
  <2> QED BY <2>1, <2>2, <2>3, <2>4
<1>4. rows' = [r.staged EXCEPT ![key] = row]
  <2>1. \A k \in Keys : Committed(r, [r.staged EXCEPT ![key] = row])[k] = [r.staged EXCEPT ![key] = row][k]
    BY <1>0 DEF Committed
  <2>2. DOMAIN r.staged = Keys
    BY <1>0 DEF Session
  <2> QED BY <1>0, <1>2, <2>1, <2>2 DEF Committed
<1>5. /\ rows'[key] = row /\ \A k \in Keys \ {key} : rows'[k] = r.staged[k]
      /\ \A k \in Keys : r.staged[k].unit = rows[k].unit /\ r.staged[k].block = rows[k].block
  BY <1>0, <1>4, CommitRows DEF Session
<1>6. Q \in SUBSET Reserved
  <2> SUFFICES ASSUME NEW k \in Active(r) PROVE Reservation(k) \in Reserved
    BY <1>0, <1>1 DEF Reservations, Reservation
  <2>1. k \in Keys /\ (k \in r.confirmed => rows[k].nonce \in usedNonces)
    BY <1>0 DEF Active, SessionSound
  <2>2. rows[k].status \in {"PENDING", "REDEEMED"}
    <3>1. CASE rows[k].status \in {"PENDING", "REDEEMED"}
      BY <3>1
    <3>2. CASE rows[k].nonce \in usedNonces
      <4>1. rows[k].status # "EXPIRED"
        BY <2>1, <3>2 DEF RowsSound, ReleasedAreDead, Dead
      <4>2. rows[k] # NoRow
        BY <3>2 DEF NoRow, TypeOK, Nonces
      <4> QED BY <2>1, <4>1, <4>2 DEF TypeOK, Row, Issued
    <3> QED BY <1>0, <2>1, <3>1, <3>2 DEF Active
  <2> QED BY <2>1, <2>2, ReservedRows
<1>7. PICK new : new = [wallet |-> w, block |-> through, unit |-> unit, contract |-> live]
  OBVIOUS
<1>8. \A n \in 0..Len(history) : Within(Q \cup {new}, history, n)
  <2>0. IsFiniteSet(Q)
    BY <1>6, ReservedRows, FS_Subset
  <2>1. IsFiniteSet(Q) /\ \A res \in Q : res.block \in Nat /\ res.block <= through
    BY <1>2, <1>6, <2>0, ReservedRows
  <2>2. \A n \in 0..Len(history) : Within(Q, history, n)
    BY <1>6, LedgerKept, ReservedRows, FewerWithin
  <2>3. /\ new.block = through /\ new.wallet = w /\ new.unit = unit /\ through \in 0..Len(history)
        /\ new.wallet \in Wallets /\ new.unit \in TokenIds /\ Legal(history)
    BY <1>0, <1>2, <1>7, LedgerKept DEF HeadBlock
  <2>4. ReplayUsedUnits(Q, history, through)[new.wallet][new.unit] < BalancesAt(history, through)[new.wallet][new.unit]
    BY <1>2, <2>3
  <2> QED BY ONLY <2>1, <2>2, <2>3, <2>4, OneMoreWithin
<1>9. Reserved' \in SUBSET (Q \cup {new})
  <2> SUFFICES ASSUME NEW res \in Reserved' PROVE res \in Q \cup {new}
    OBVIOUS
  <2>1. PICK k \in Keys : /\ rows'[k].status \in {"PENDING", "REDEEMED"}
                          /\ res = [wallet |-> k[2], block |-> rows'[k].block, unit |-> rows'[k].unit, contract |-> k[1]]
    BY DEF Reserved, RowReservations
  <2>2. CASE k = key
    BY <1>2, <1>5, <1>7, <2>1, <2>2
  <2>3. CASE k # key
    <3>1. k \in Active(r)
      BY <1>0, <1>5, <2>1, <2>3 DEF StillCounted
    <3>2. res = [wallet |-> k[2], block |-> r.records[k].block, unit |-> r.records[k].unit, contract |-> k[1]]
      BY <1>0, <1>5, <2>1, <2>3
    <3> QED BY <1>1, <3>1, <3>2 DEF Reservations
  <2> QED BY <2>2, <2>3
<1>10. UNCHANGED history /\ Finish(s)
  BY DEF Issue, chain
<1>11. \A n \in 0..Len(history) : Within(Reserved', history, n)
  <2> PICK P \in SUBSET (Q \cup {new}) : P = Reserved'
    BY <1>9
  <2>1. IsFiniteSet(Q \cup {new})
    BY <1>6, ReservedRows, FS_Subset, FS_AddElement
  <2>2. \A n \in 0..Len(history) : Within(P, history, n)
    BY <1>8, <2>1, LedgerKept, FewerWithin
  <2> QED BY <2>2
<1>12. LedgerReplays'
  BY <1>10, <1>11 DEF Within, Below, LedgerReplays, LedgerConsistent, HeadBlock
<1>13. RowsBehindHead'
  BY <1>0, <1>2, <1>5, <1>10 DEF UnitsKept, RowsBehindHead, HeadBlock
<1>14. HistoryLegal'
  BY <1>10 DEF UnitsKept, HistoryLegal, HeadBlock
<1>15. \A q \in Servers : StillCounted(sess[q])'
  <2>1. \A q \in Servers : StillCounted(sess'[q])
    BY <1>10, FinishCounted
  <2> QED BY <2>1 DEF StillCounted, Active, Overdue
<1> QED BY <1>12, <1>13, <1>14, <1>15 DEF UnitsKept

\* The steps that touch neither rows nor history.
LEMMA SessionsKept ==
  ASSUME UnitsKept, UNCHANGED <<history, rows, sess>>
  PROVE  UnitsKept'
BY UnitsUntouched DEF UnitsKept

(***************************************************************************)
(* While every row is of the live contract, each step but a recovery keeps *)
(* the units behind the rows there.                                        *)
(***************************************************************************)
LEMMA UnitsStep ==
  ASSUME Single, TypeOK, TypeOK', RowsSound, UnitsKept, [Next]_vars, ~DeployRecovery
  PROVE  UnitsKept'
<1>1. ASSUME NEW s \in Servers, NEW op \in {"issue", "reconcile"}, NEW w \in Wallets \cup {Zero}, Begin(s, op, w)
      PROVE  UnitsKept'
  <2>1. PICK r : r = [Idle EXCEPT !.step = "listed", !.op = op, !.wallet = w, !.records = rows, !.staged = rows]
    OBVIOUS
  <2>2. StillCounted(r)
    BY <2>1 DEF StillCounted, Idle
  <2>3. \A q \in Servers : StillCounted(sess'[q])
    BY <1>1, <2>1, <2>2, CountedStep DEF Begin
  <2> QED BY <1>1, <2>3, UnitsUntouched DEF Begin, chain
<1>2. ASSUME NEW s \in Servers, Request(s) PROVE UnitsKept'
  BY <1>1, <1>2 DEF Request, BeginIssue, BeginReconcile
<1>3. ASSUME NEW s \in Servers, Proceed(s) PROVE UnitsKept'
  <2>1. CASE ReadClock(s)
    BY <2>1, ReadClockCounted
  <2>2. CASE \E k \in Keys : Settle(s, k)
    BY <2>2, SettleCounted
  <2>3. CASE FinishReconcile(s)
    BY <2>3, SettlementUnits DEF FinishReconcile
  <2>4. CASE ReturnOwn(s)
    BY <2>4, SettlementUnits DEF ReturnOwn
  <2>5. CASE ReadClaimState(s)
    BY <2>5, ReadClaimStateCounted
  <2>6. CASE Issue(s)
    BY <2>6, IssueUnits
  <2>7. CASE Abort(s)
    BY <2>7, FinishCounted, UnitsUntouched DEF Abort, chain
  <2> QED BY <1>3, <2>1, <2>2, <2>3, <2>4, <2>5, <2>6, <2>7 DEF Proceed
<1>4. ASSUME NEW v \in vouchers, Claim(v) PROVE UnitsKept'
  BY <1>4, SessionsKept DEF Claim, service
<1>5. ASSUME NEW t \in Transfers(Amounts), Transfer(t) PROVE UnitsKept'
  BY <1>5, TransferUnits
<1>6. CASE Tick
  BY <1>6, SessionsKept DEF Tick, service
<1>7. CASE UNCHANGED vars
  BY <1>7, SessionsKept DEF vars
<1> QED BY <1>2, <1>3, <1>4, <1>5, <1>6, <1>7 DEF Next

\* Without reservations the ledger is within the balances.
LEMMA FreshUnits ==
  ASSUME TypeOK, Fresh, Legal(history)
  PROVE  UnitsKept
<1>0. Len(history) \in Nat /\ history \in Seq(Transfers(Nat))
  BY LenProperties DEF Legal
<1>1. \A k \in Keys : rows[k].status = "NONE" /\ rows[k].block = 0
  BY DEF Fresh, NoRow
<1>2. Reserved = {}
  BY <1>1 DEF Reserved, RowReservations
<1>3. Within({}, history, 0)
  <2>1. ReplayUsedUnits({}, history, 0) = Reserve(NoneUsed, {}, 0) /\ BalancesAt(history, 0) = InitialUnits
    BY <1>0, UsedSteps, BalanceSteps
  <2>2. ASSUME NEW w \in Wallets, NEW i \in TokenIds PROVE Reserve(NoneUsed, {}, 0)[w][i] <= InitialUnits[w][i]
    <3>1. Counted({}, 0, w, i) = {} /\ NoneUsed \in Counts /\ NoneUsed[w][i] = 0 /\ InitialUnits[w][i] \in Nat
      BY LedgerAssumption DEF Counted, NoneUsed, Counts
    <3>2. Cardinality(Counted({}, 0, w, i)) = 0
      BY <3>1, FS_EmptySet
    <3>3. Reserve(NoneUsed, {}, 0)[w][i] = NoneUsed[w][i] + Cardinality(Counted({}, 0, w, i))
      BY <3>1, FS_EmptySet, ReserveUnits
    <3> QED BY ONLY <3>1, <3>2, <3>3
  <2> QED BY <2>1, <2>2 DEF Within, Below
<1>4. \A n \in 0..Len(history) : Within(Reserved, history, n)
  <2>1. IsFiniteSet({}) /\ 0 \in 0..Len(history)
    BY <1>0, FS_EmptySet
  <2> QED BY <1>2, <1>3, <2>1, StaysWithin
<1>5. LedgerReplays
  BY <1>4 DEF Within, Below, LedgerReplays, LedgerConsistent, HeadBlock
<1>6. \A s \in Servers : StillCounted(sess[s])
  BY DEF Fresh, StillCounted
<1> QED BY <1>0, <1>1, <1>5, <1>6 DEF UnitsKept, RowsBehindHead, HistoryLegal, Legal, HeadBlock

-----------------------------------------------------------------------------
(***************************************************************************)
(* Across recoveries.  What holds whatever rows an earlier contract left:  *)
(* a row, once there, stays, and every voucher and claim has one.          *)
(***************************************************************************)
OpenRequest(s) ==
  /\ lock = s /\ sess[s].records = rows
  /\ \A k \in Keys : sess[s].staged[k] # rows[k] => sess[s].staged[k].status # "NONE" /\ rows[k].status # "NONE"

Always ==
  /\ Legal(history)
  /\ \A k \in Keys : rows[k].status # "NONE" => k[1] <= live
  /\ VouchersHaveRows
  /\ \A n \in usedNonces : \E v \in vouchers : v.nonce = n
  /\ \A c \in Contracts, w \in Wallets : claimedAt[c][w] # Never => vouchers # {}
  /\ \A s \in Servers : sess[s].step # "idle" => OpenRequest(s)

RowsStay == \A k \in Keys : rows[k].status # "NONE" => rows'[k].status # "NONE"

LEMMA InitAlways ==
  ASSUME Init
  PROVE  Always /\ Fresh
<1> USE ClaimAssumption
<1>1. Legal(history)
  BY DEF Init, Legal
<1>2. Fresh
  BY DEF Init, Fresh, Idle, Contracts
<1>3. \A k \in Keys : rows[k].status = "NONE"
  BY DEF Init, NoRow
<1> QED BY <1>1, <1>2, <1>3 DEF Init, Always, Fresh, VouchersHaveRows

\* A step of one request that leaves chain, rows and vouchers alone.
LEMMA RequestAlways ==
  ASSUME NEW s \in Servers, TypeOK, Always, NEW r, sess' = [sess EXCEPT ![s] = r],
         UNCHANGED <<chain, rows, vouchers>>,
         r.step # "idle" =>
           /\ lock' = s /\ r.records = rows
           /\ \A k \in Keys : r.staged[k] # rows[k] => r.staged[k].status # "NONE" /\ rows[k].status # "NONE",
         \A q \in Servers \ {s} : sess[q].step # "idle" => lock' = lock
  PROVE  Always' /\ RowsStay
<1> USE DEF chain
<1>1. \A q \in Servers : sess'[q] = IF q = s THEN r ELSE sess[q]
  BY DEF TypeOK
<1>2. ASSUME NEW q \in Servers, sess'[q].step # "idle" PROVE OpenRequest(q)'
  BY <1>1, <1>2 DEF Always, OpenRequest
<1>3. VouchersHaveRows' /\ Legal(history)'
  BY DEF Always, VouchersHaveRows
<1>4. \A c \in Contracts, w \in Wallets : claimedAt'[c][w] # Never => vouchers' # {}
  BY DEF Always
<1> QED BY <1>2, <1>3, <1>4 DEF Always, RowsStay, Never

\* A request ends, and has written the rows it had staged and perhaps one more.
LEMMA CommitAlways ==
  ASSUME NEW s \in Servers, TypeOK, Always, sess[s].step # "idle", Finish(s), UNCHANGED chain,
         NEW table, rows' = Committed(sess[s], table),
         \A k \in Keys : table[k] # rows[k] => table[k].status # "NONE" /\ (rows[k].status # "NONE" \/ k[1] = live),
         vouchers \subseteq vouchers',
         \A v \in vouchers' \ vouchers : LET k == <<v.contract, v.wallet>> IN k \in Keys /\ table[k].status # "NONE"
  PROVE  Always' /\ RowsStay
<1>1. sess[s].records = rows
  BY DEF Always, OpenRequest
<1>2. \A k \in Keys : rows'[k] = table[k]
  BY <1>1 DEF Committed
<1>3. RowsStay
  BY <1>2 DEF RowsStay
<1>4. \A k \in Keys : rows'[k].status # "NONE" => k[1] <= live
  <2>1. live \in Nat
    BY DEF TypeOK, Contracts
  <2> QED BY <1>2, <2>1 DEF Always
<1>5. VouchersHaveRows'
  <2>1. \A v \in vouchers : <<v.contract, v.wallet>> \in Keys
    BY DEF TypeOK, Voucher, Keys
  <2> QED BY <1>2, <1>3, <2>1 DEF Always, VouchersHaveRows, RowsStay
<1>6. \A q \in Servers : sess'[q].step = "idle"
  <2>1. \A q \in Servers \ {s} : sess[q].step = "idle"
    BY DEF Always, OpenRequest
  <2> QED BY <2>1 DEF Finish, Idle, TypeOK
<1>7. Legal(history)' /\ live' = live /\ UNCHANGED <<claimedAt, usedNonces>>
  BY DEF chain, Always
<1>8. \A n \in usedNonces' : \E v \in vouchers' : v.nonce = n
  BY <1>7 DEF Always
<1>9. \A c \in Contracts, w \in Wallets : claimedAt'[c][w] # Never => vouchers' # {}
  BY <1>7 DEF Always
<1> QED BY <1>3, <1>4, <1>5, <1>6, <1>7, <1>8, <1>9 DEF Always, Never

LEMMA AlwaysStep ==
  ASSUME TypeOK, TypeOK', Always, [Next]_vars
  PROVE  Always' /\ RowsStay
<1> USE ClaimAssumption
<1>1. ASSUME NEW s \in Servers, NEW op \in {"issue", "reconcile"}, NEW w \in Wallets \cup {Zero}, Begin(s, op, w)
      PROVE  Always' /\ RowsStay
  <2>1. PICK r : r = [Idle EXCEPT !.step = "listed", !.op = op, !.wallet = w, !.records = rows, !.staged = rows]
    OBVIOUS
  <2>2. r.records = rows /\ r.staged = rows
    BY <2>1 DEF Idle
  <2>3. \A q \in Servers : sess[q].step = "idle"
    BY <1>1 DEF Begin, Always, OpenRequest
  <2> QED BY <1>1, <2>1, <2>2, <2>3, RequestAlways DEF Begin
<1>2. ASSUME NEW s \in Servers, ReadClock(s) PROVE Always' /\ RowsStay
  <2>1. PICK t \in Views : sess' = [sess EXCEPT ![s] = Clocked(sess[s], t)]
    BY <1>2 DEF ReadClock
  <2>2. PICK r : r = Clocked(sess[s], t)
    OBVIOUS
  <2>3. r.records = sess[s].records /\ r.staged = sess[s].staged
    <3>1. sess[s] \in Session
      BY DEF TypeOK
    <3> QED BY <2>2, <3>1 DEF Clocked, Session
  <2>4. OpenRequest(s)
    BY <1>2 DEF ReadClock, Always
  <2> QED BY ZenonT(60), <1>2, <2>1, <2>2, <2>3, <2>4, RequestAlways DEF ReadClock, OpenRequest
<1>3. ASSUME NEW s \in Servers, NEW k \in Keys, Settle(s, k) PROVE Always' /\ RowsStay
  <2>1. PICK t \in Views : sess' = [sess EXCEPT ![s] = Settled(sess[s], k, t)]
    BY <1>3 DEF Settle
  <2> DEFINE q == sess[s]
             key == <<live, k[2]>>
  <2>2. q \in Session /\ q.step # "idle" /\ OpenRequest(s) /\ key \in Keys /\ q.staged \in [Keys -> Row]
    BY <1>3 DEF Settle, TypeOK, Session, Always, Keys
  <2>3. PICK r : r = Settled(q, k, t)
    OBVIOUS
  <2>4. /\ r.records = q.records
        /\ r.staged \in {q.staged, SetStatus(q.staged, k[2], "REDEEMED"), SetStatus(q.staged, k[2], "EXPIRED")}
    BY <2>2, <2>3 DEF Settled, Session
  <2>5. ASSUME NEW status \in {"REDEEMED", "EXPIRED"}, NEW j \in Keys, SetStatus(q.staged, k[2], status)[j] # rows[j]
        PROVE  SetStatus(q.staged, k[2], status)[j].status # "NONE" /\ rows[j].status # "NONE"
    <3>1. CASE q.staged[key].status = "NONE" \/ j # key
      <4>1. SetStatus(q.staged, k[2], status)[j] = q.staged[j]
        BY <2>2, <3>1 DEF SetStatus
      <4> QED BY <2>2, <2>5, <4>1 DEF OpenRequest
    <3>2. CASE q.staged[key].status # "NONE" /\ j = key
      <4>1. q.staged[key] \in Issued
        BY <2>2, <3>2 DEF Row, NoRow
      <4>2. SetStatus(q.staged, k[2], status)[j].status = status
        BY <2>2, <3>2, <4>1 DEF SetStatus, Issued
      <4>3. rows[j].status # "NONE"
        BY <2>2, <3>2 DEF OpenRequest
      <4> QED BY <4>2, <4>3
    <3> QED BY <3>1, <3>2
  <2>6. ASSUME NEW j \in Keys, r.staged[j] # rows[j] PROVE r.staged[j].status # "NONE" /\ rows[j].status # "NONE"
    BY <2>2, <2>4, <2>5, <2>6 DEF OpenRequest
  <2> QED BY <1>3, <2>1, <2>2, <2>3, <2>4, <2>6, RequestAlways DEF Settle, OpenRequest
<1>4. ASSUME NEW s \in Servers, ReadClaimState(s) PROVE Always' /\ RowsStay
  <2>1. PICK r : r = [sess[s] EXCEPT !.step = "position"]
    OBVIOUS
  <2>2. r.records = sess[s].records /\ r.staged = sess[s].staged /\ OpenRequest(s)
    BY SMTT(40), <1>4, <2>1 DEF ReadClaimState, TypeOK, Session, Always
  <2> QED BY <1>4, <2>1, <2>2, RequestAlways DEF ReadClaimState, OpenRequest
<1>5. ASSUME NEW s \in Servers, Abort(s) PROVE Always' /\ RowsStay
  <2>1. \A q \in Servers \ {s} : sess[q].step = "idle"
    BY <1>5 DEF Abort, Always, OpenRequest
  <2> QED BY <1>5, <2>1, RequestAlways DEF Abort, Finish, Idle
<1>6. ASSUME NEW s \in Servers, FinishReconcile(s) PROVE Always' /\ RowsStay
  <2>1. OpenRequest(s) /\ sess[s].step # "idle"
    BY <1>6 DEF FinishReconcile, Always
  <2>2. rows' = Committed(sess[s], sess[s].staged) /\ UNCHANGED <<chain, vouchers>> /\ Finish(s)
    BY <1>6 DEF FinishReconcile
  <2> QED BY <2>1, <2>2, CommitAlways DEF OpenRequest
<1>7. ASSUME NEW s \in Servers, ReturnOwn(s) PROVE Always' /\ RowsStay
  <2> DEFINE r == sess[s]
  <2>1. OpenRequest(s) /\ r.step # "idle" /\ r.records = rows
    BY <1>7 DEF ReturnOwn, Always, OpenRequest
  <2>2. PICK k \in Keys : /\ rows[k].status = "PENDING"
                          /\ vouchers' = vouchers \cup
                               {[contract |-> k[1], wallet |-> k[2], unit |-> rows[k].unit,
                                 deadline |-> rows[k].deadline, nonce |-> rows[k].nonce]}
    BY <1>7, <2>1 DEF ReturnOwn, OwnActive, Active
  <2>3. rows' = Committed(r, r.staged) /\ UNCHANGED chain /\ Finish(s)
    BY <1>7 DEF ReturnOwn
  <2>4. ASSUME NEW v \in vouchers' \ vouchers
        PROVE  LET j == <<v.contract, v.wallet>> IN j \in Keys /\ r.staged[j].status # "NONE"
    <3>1. <<v.contract, v.wallet>> = k
      BY <2>2 DEF Keys
    <3>2. r.staged[k].status # "NONE"
      BY <2>1, <2>2 DEF OpenRequest
    <3> QED BY <3>1, <3>2
  <2>5. vouchers \subseteq vouchers'
    BY <2>2
  <2> QED BY <2>1, <2>3, <2>4, <2>5, CommitAlways DEF OpenRequest
<1>8. ASSUME NEW s \in Servers, Issue(s) PROVE Always' /\ RowsStay
  <2> DEFINE r == sess[s]
             key == <<live, r.wallet>>
  <2>1. /\ OpenRequest(s) /\ r.step # "idle" /\ r \in Session /\ r.wallet \in Wallets /\ key \in Keys /\ r.op = "issue"
        /\ r.staged \in [Keys -> Row]
    BY <1>8 DEF Issue, Always, TypeOK, Keys, Session
  <2>2. PICK row, voucher :
          /\ row.status = "PENDING" /\ voucher.contract = live /\ voucher.wallet = r.wallet
          /\ rows' = Committed(r, [r.staged EXCEPT ![key] = row])
          /\ vouchers' = vouchers \cup {voucher} \/ UNCHANGED vouchers
    <3>1. PICK through, unit, deadline, nonce :
            /\ rows' = Committed(r, [r.staged EXCEPT ![key] =
                   [status |-> "PENDING", block |-> through, unit |-> unit, deadline |-> deadline, nonce |-> nonce]])
            /\ \/ vouchers' = vouchers \cup
                    {[contract |-> live, wallet |-> r.wallet, unit |-> unit, deadline |-> deadline, nonce |-> nonce]}
               \/ UNCHANGED vouchers
      BY <1>8 DEF Issue
    <3>2. PICK row : row = [status |-> "PENDING", block |-> through, unit |-> unit, deadline |-> deadline, nonce |-> nonce]
      OBVIOUS
    <3>3. PICK voucher :
            voucher = [contract |-> live, wallet |-> r.wallet, unit |-> unit, deadline |-> deadline, nonce |-> nonce]
      OBVIOUS
    <3>4. row.status = "PENDING" /\ voucher.contract = live /\ voucher.wallet = r.wallet
      BY <3>2, <3>3
    <3> QED BY <3>1, <3>2, <3>3, <3>4
  <2>3. PICK table : table = [r.staged EXCEPT ![key] = row]
    OBVIOUS
  <2>4. \A k \in Keys : table[k] = IF k = key THEN row ELSE r.staged[k]
    BY <2>1, <2>3
  <2>5. \A k \in Keys : table[k] # rows[k] => table[k].status # "NONE" /\ (rows[k].status # "NONE" \/ k[1] = live)
    BY <2>1, <2>2, <2>4 DEF OpenRequest
  <2>6. ASSUME NEW v \in vouchers' \ vouchers
        PROVE  LET j == <<v.contract, v.wallet>> IN j \in Keys /\ table[j].status # "NONE"
    BY <2>1, <2>2, <2>4, <2>6
  <2>7. vouchers \subseteq vouchers' /\ rows' = Committed(r, table)
    BY <2>2, <2>3
  <2>8. UNCHANGED chain /\ Finish(s)
    BY <1>8 DEF Issue
  <2> QED BY <2>1, <2>5, <2>6, <2>7, <2>8, CommitAlways
<1>9. ASSUME NEW v \in vouchers, Claim(v) PROVE Always' /\ RowsStay
  <2>1. usedNonces' = usedNonces \cup {v.nonce} /\ UNCHANGED <<history, live, rows, vouchers, lock, sess>>
    BY <1>9 DEF Claim, service
  <2>2. VouchersHaveRows' /\ Legal(history)' /\ \A s \in Servers : sess'[s].step # "idle" => OpenRequest(s)'
    BY <2>1 DEF Always, VouchersHaveRows, OpenRequest
  <2> QED BY <2>1, <2>2 DEF Always, RowsStay
<1>10. ASSUME NEW t \in Transfers(Amounts), Transfer(t) PROVE Always' /\ RowsStay
  <2>1. /\ history' = Append(history, t) /\ t.from # t.to
        /\ t.from # Zero => t.amount <= BalancesAt(history, Len(history))[t.from][t.id]
        /\ UNCHANGED <<live, claimedAt, usedNonces, rows, vouchers, lock, sess>>
    BY <1>10 DEF Transfer, service, HeadBlock
  <2>2. t \in Transfers(Nat)
    BY DEF Transfers
  <2>3. Legal(history)'
    BY <2>1, <2>2, LegalAppend DEF Always
  <2>4. VouchersHaveRows' /\ \A s \in Servers : sess'[s].step # "idle" => OpenRequest(s)'
    BY <2>1 DEF Always, VouchersHaveRows, OpenRequest
  <2> QED BY <2>1, <2>3, <2>4 DEF Always, RowsStay, Never
<1>11. ASSUME UNCHANGED <<history, live, claimedAt, usedNonces, rows, vouchers, lock, sess>> PROVE Always' /\ RowsStay
  <2>1. VouchersHaveRows' /\ Legal(history)' /\ \A s \in Servers : sess'[s].step # "idle" => OpenRequest(s)'
    BY <1>11 DEF Always, VouchersHaveRows, OpenRequest
  <2> QED BY <1>11, <2>1 DEF Always, RowsStay, Never
<1>12. CASE DeployRecovery
  <2>1. /\ live' = live + 1 /\ live \in Contracts /\ live \in Nat /\ claimedAt' = [claimedAt EXCEPT ![live + 1] = claimedAt[live]]
        /\ sess' = [s \in Servers |-> Idle] /\ UNCHANGED <<history, usedNonces, rows, vouchers>>
    BY <1>12 DEF DeployRecovery, TypeOK, Contracts
  <2>2. VouchersHaveRows' /\ Legal(history)' /\ \A s \in Servers : sess'[s].step = "idle"
    BY <2>1 DEF Always, VouchersHaveRows, Idle
  <2>3. \A k \in Keys : rows'[k].status # "NONE" => k[1] <= live'
    <3>1. \A k \in Keys : k[1] \in Nat
      BY DEF Keys, Contracts
    <3> QED BY <2>1, <3>1 DEF Always
  <2>4. \A c \in Contracts, w \in Wallets : claimedAt'[c][w] # Never => vouchers # {}
    <3>1. \A c \in Contracts : claimedAt'[c] \in {claimedAt[c], claimedAt[live]}
      BY <2>1 DEF TypeOK
    <3> QED BY <2>1, <3>1 DEF Always
  <2> QED BY <2>1, <2>2, <2>3, <2>4 DEF Always, RowsStay, Never
<1> QED BY <1>1, <1>2, <1>3, <1>4, <1>5, <1>6, <1>7, <1>8, <1>9, <1>10, <1>11, <1>12
        DEF Next, Request, Proceed, BeginIssue, BeginReconcile, Tick, service, vars

\* A recovery that leaves no row of an earlier contract starts afresh.
LEMMA RecoveryFresh ==
  ASSUME TypeOK, Always, DeployRecovery, OneContract'
  PROVE  Fresh'
<1>1. /\ live' = live + 1 /\ live \in Contracts /\ live + 1 \in Contracts /\ live \in Nat
      /\ claimedAt' = [claimedAt EXCEPT ![live + 1] = claimedAt[live]]
      /\ sess' = [s \in Servers |-> Idle] /\ UNCHANGED <<usedNonces, rows, vouchers>>
  BY ClaimAssumption DEF DeployRecovery, TypeOK, Contracts
<1>2. ASSUME NEW k \in Keys PROVE rows[k] = NoRow
  <2>1. k[1] \in Nat
    BY DEF Keys, Contracts
  <2>2. rows[k].status = "NONE"
    BY <1>1, <2>1 DEF OneContract, Always
  <2> QED BY <2>2 DEF TypeOK, Row, Issued
<1>3. rows = [k \in Keys |-> NoRow]
  BY <1>2 DEF TypeOK
<1>4. vouchers = {}
  <2> SUFFICES ASSUME NEW v \in vouchers PROVE FALSE
    OBVIOUS
  <2>1. <<v.contract, v.wallet>> \in Keys
    BY DEF TypeOK, Voucher, Keys
  <2> QED BY <1>2, <2>1 DEF Always, VouchersHaveRows, NoRow
<1>5. usedNonces = {}
  BY <1>4 DEF Always
<1>6. \A w \in Wallets : claimedAt'[live'][w] = Never
  BY <1>1, <1>4 DEF Always, TypeOK
<1> QED BY <1>1, <1>3, <1>4, <1>5, <1>6 DEF Fresh, Idle, Never

\* While every row is of the live contract the rows are sound, or there are none.
UntilRecovery == OneContract => Fresh \/ (RowsSound /\ UnitsKept)

LEMMA RecoveryStep ==
  ASSUME TypeOK, TypeOK', Always, UntilRecovery, [Next]_vars
  PROVE  Always' /\ UntilRecovery'
<1>1. Always' /\ RowsStay
  BY AlwaysStep
<1>2. ASSUME OneContract', ~DeployRecovery PROVE RowsSound' /\ UnitsKept'
  <2>1. live' = live
    BY <1>2 DEF Next, Request, Proceed, BeginIssue, BeginReconcile, Begin, ReadClock, Settle, FinishReconcile,
      ReturnOwn, ReadClaimState, Issue, Abort, chain, Claim, Transfer, Tick, vars
  <2>2. Single
    BY <1>1, <1>2, <2>1 DEF OneContract, RowsStay, Single, Always
  <2>3. RowsSound /\ UnitsKept
    BY <2>2, FreshSound, FreshUnits DEF UntilRecovery, Always, Single
  <2> QED BY <1>2, <2>2, <2>3, RowsStep, UnitsStep
<1>3. ASSUME OneContract', DeployRecovery PROVE Fresh'
  BY <1>3, RecoveryFresh
<1> QED BY <1>1, <1>2, <1>3 DEF UntilRecovery

LEMMA RecoveryInvariant == Spec => [](TypeOK /\ Always /\ UntilRecovery)
<1>1. Init => Always /\ UntilRecovery
  BY InitAlways DEF UntilRecovery
<1>2. TypeOK /\ TypeOK' /\ Always /\ UntilRecovery /\ [Next]_vars => Always' /\ UntilRecovery'
  BY RecoveryStep
<1> QED BY <1>1, <1>2, TypeCorrect, PTL DEF Spec

(***************************************************************************)
(* Until a recovery leaves rows of an earlier contract behind, rows,       *)
(* vouchers, claims, open requests and units fit together as IInv says.    *)
(***************************************************************************)
LEMMA SoundUntilRecovery == TypeOK /\ Always /\ UntilRecovery /\ OneContract => Single /\ IInv
<1> SUFFICES ASSUME TypeOK, Always, UntilRecovery, OneContract PROVE Single /\ IInv
  OBVIOUS
<1> QED BY FreshSound, FreshUnits DEF UntilRecovery, Always, Single, IInv

\* With one contract there never is such a row.
LEMMA NoRecovery == NumContracts = 1 => (TypeOK => OneContract)
BY DEF TypeOK, OneContract, Keys, Contracts

(***************************************************************************)
(* With one claim contract, the rows, vouchers, claims, open requests and  *)
(* reserved units always fit together as IInv says.                        *)
(***************************************************************************)
THEOREM Invariance ==
  ASSUME NumContracts = 1
  PROVE  Spec => []IInv
<1>1. TypeOK /\ Always /\ UntilRecovery => IInv
  BY NoRecovery, SoundUntilRecovery
<1> QED BY <1>1, RecoveryInvariant, PTL

(***************************************************************************)
(* The unit behind a voucher that was redeemed, or that the contract would *)
(* still accept, is never released, for every lifetime, window and number  *)
(* of servers, as long as a chain read lags by no more than the grace.     *)
(***************************************************************************)
THEOREM StandingVouchersReserved ==
  ASSUME NumContracts = 1
  PROVE  Spec => []StandingVoucherReserved
<1>1. TypeOK /\ Always /\ UntilRecovery => StandingVoucherReserved
  BY NoRecovery, SoundUntilRecovery, StandingReserved DEF IInv
<1> QED BY <1>1, RecoveryInvariant, PTL

(***************************************************************************)
(* A row is settled REDEEMED only for a redeemed voucher and EXPIRED only  *)
(* for one that never was.                                                 *)
(***************************************************************************)
THEOREM RowsSettledTruthfully ==
  ASSUME NumContracts = 1
  PROVE  Spec => []SettledTruthfully
<1>1. IInv => SettledTruthfully
  BY SoundIsTruthful DEF IInv
<1> QED BY <1>1, Invariance, PTL

\* Every wallet with a standing voucher for a unit has a reservation of it.
LEMMA StandingBacked ==
  ASSUME Single, TypeOK, IInv, NEW i \in TokenIds
  PROVE  Cardinality({v.wallet : v \in {u \in vouchers : u.unit = i /\ Standing(u)}}) <= UnitsEver(i)
<1> DEFINE standing == {v.wallet : v \in {u \in vouchers : u.unit = i /\ Standing(u)}}
           backed == BackedBy(Reserved, Len(history), i)
<1>1. ASSUME NEW v \in vouchers, v.unit = i, Standing(v) PROVE v.wallet \in backed
  <2>1. PICK k : k = <<v.contract, v.wallet>>
    OBVIOUS
  <2>2. v.contract \in Contracts /\ v.wallet \in Wallets
    BY DEF TypeOK, Voucher
  <2>3. k \in Keys /\ k[2] = v.wallet
    BY <2>1, <2>2 DEF Keys
  <2>4. rows[k].nonce = v.nonce /\ rows[k].status \in {"PENDING", "REDEEMED"}
    BY <1>1, <2>1, StandingReserved DEF StandingVoucherReserved, IInv
  <2>5. rows[k].unit = i
    BY <1>1, <2>3, <2>4 DEF IInv, RowsSound, NoncesUnique
  <2>6. PICK r : r = Reservation(k)
    OBVIOUS
  <2>7. r \in Reserved /\ r.wallet = v.wallet /\ r.unit = i
    BY <2>3, <2>4, <2>5, <2>6, ReservedRows DEF Reservation
  <2>8. r.block <= Len(history)
    BY <2>7, LedgerKept DEF IInv
  <2> QED BY <2>2, <2>7, <2>8 DEF BackedBy
<1>2. standing \subseteq backed
  BY <1>1
<1>3. backed \subseteq Wallets
  BY DEF BackedBy
<1>4. EverAt(history, Len(history), i) \in Nat /\ Cardinality(backed) <= EverAt(history, Len(history), i)
  <2>1. Len(history) \in 0..Len(history)
    BY LedgerKept DEF IInv
  <2> QED BY <2>1, LedgerKept, ReservedRows, BackedByUnits DEF IInv
<1>5. EverAt(history, Len(history), i) = UnitsEver(i)
  BY DEF EverAt, Minting, UnitsEver, HeadBlock
<1>6. IsFiniteSet(Wallets)
  BY LedgerAssumption
<1> HIDE DEF standing, backed
<1>7. Cardinality(standing) <= Cardinality(backed) /\ Cardinality(standing) \in Nat /\ Cardinality(backed) \in Nat
  BY <1>2, <1>3, <1>6, FS_Subset, FS_CardinalityType
<1>8. Cardinality(standing) <= UnitsEver(i)
  BY <1>4, <1>5, <1>7
<1> QED BY <1>8 DEF standing

LEMMA LedgerHolds ==
  ASSUME TypeOK, UnitsKept
  PROVE  LedgerNeverThrows
<1> DEFINE keys == {k \in Keys : Reserving(rows[k])}
<1>1. RowReservations(keys) \in SUBSET Reserved
  BY DEF Reserving, Reserved, RowReservations
<1>2. PICK Q \in SUBSET Reserved : Q = RowReservations(keys)
  BY <1>1
<1>3. Within(Q, history, Len(history))
  BY LedgerKept, ReservedRows, FewerWithin
<1> QED BY <1>2, <1>3 DEF LedgerNeverThrows, Within, Below, LedgerConsistent, HeadBlock

(***************************************************************************)
(* "Each unit can therefore back at most one free claim" (server/genesis-  *)
(* claim-ledger.js), for any number of wallets, token IDs, transfers,      *)
(* mints, burns and servers: with one claim contract, the wallets whose    *)
(* voucher was redeemed or still can be never outnumber the units of its   *)
(* token ID that ever existed.                                             *)
(***************************************************************************)
THEOREM UnitsBackClaims ==
  ASSUME NumContracts = 1
  PROVE  Spec => []UnitBacksOneClaim
<1>1. TypeOK /\ Always /\ UntilRecovery => UnitBacksOneClaim
  BY NoRecovery, SoundUntilRecovery, StandingBacked DEF UnitBacksOneClaim
<1> QED BY <1>1, RecoveryInvariant, PTL

(***************************************************************************)
(* With any number of claim contracts: until a recovery leaves rows of an  *)
(* earlier one behind, no unit backs two claims and the replayed ledger    *)
(* never counts more used units than a wallet holds.                       *)
(***************************************************************************)
THEOREM UnitsBackClaimsUntilRecovery == Spec => []UnitsBackOneClaim
<1>1. TypeOK /\ Always /\ UntilRecovery => UnitsBackOneClaim
  <2> SUFFICES ASSUME TypeOK, Always, UntilRecovery, OneContract PROVE UnitBacksOneClaim /\ LedgerNeverThrows
    BY DEF UnitsBackOneClaim
  <2>1. Single /\ IInv
    BY SoundUntilRecovery
  <2>2. UnitBacksOneClaim
    BY <2>1, StandingBacked DEF UnitBacksOneClaim
  <2>3. LedgerNeverThrows
    BY <2>1, LedgerHolds DEF IInv
  <2> QED BY <2>2, <2>3
<1> QED BY <1>1, RecoveryInvariant, PTL

-----------------------------------------------------------------------------
\* Who has claimed on some contract, and when.
Claimers == {w \in Wallets : \E c \in Contracts : claimedAt[c][w] # Never}

ClaimsPast == \A c \in Contracts, w \in Wallets : claimedAt[c][w] # Never => claimedAt[c][w] <= now

CountSound == OneClaimPerWallet /\ ClaimsPast

(***************************************************************************)
(* A contract whose own count of claims accounts for every claim mint      *)
(* knows every wallet that ever claimed, on whichever contract.            *)
(***************************************************************************)
LEMMA AccountedKnowsAll ==
  ASSUME TypeOK, CountSound, NEW c \in Contracts, minted = ClaimedSupply(c, now)
  PROVE  Claimers = {w \in Wallets : claimedAt[c][w] # Never}
<1> DEFINE here == {w \in Wallets : claimedAt[c][w] # Never}
<1>1. here = {w \in Wallets : HasClaimed(c, w, now)}
  <2>1. ASSUME NEW w \in Wallets PROVE claimedAt[c][w] # Never <=> claimedAt[c][w] <= now
    <3>1. now \in Nat /\ now <= MaxTime /\ MaxTime \in Nat
      BY ClaimAssumption DEF TypeOK, Times
    <3> QED BY <3>1 DEF CountSound, ClaimsPast, Never
  <2> QED BY <2>1 DEF HasClaimed
<1>2. minted = Cardinality(here) /\ minted = Cardinality(Claimers)
  BY <1>1 DEF ClaimedSupply, CountSound, OneClaimPerWallet, Claimers
<1>3. IsFiniteSet(Claimers) /\ here \in SUBSET Claimers
  BY LedgerAssumption, FS_Subset DEF Claimers
<1> HIDE DEF here
<1>4. Claimers = here
  BY <1>2, <1>3, FS_Subset
<1> QED BY <1>4 DEF here

LEMMA ClaimCounts ==
  ASSUME TypeOK, CountSound, NEW v \in vouchers, Claim(v)
  PROVE  CountSound'
<1> DEFINE c == v.contract
           w == v.wallet
<1>1. c \in Contracts /\ w \in Wallets
  BY DEF TypeOK, Voucher
<1>2. /\ claimedAt[c][w] = Never /\ minted = ClaimedSupply(c, now) /\ UNCHANGED now
      /\ claimedAt' = [claimedAt EXCEPT ![c][w] = now] /\ minted' = minted + 1
  BY DEF Claim
<1>3. now # Never /\ now \in Nat /\ claimedAt \in [Contracts -> [Wallets -> Times \cup {Never}]]
  BY ClaimAssumption DEF TypeOK, Times, Never
<1> HIDE DEF c, w
<1>4. \A d \in Contracts, u \in Wallets : claimedAt'[d][u] = IF d = c /\ u = w THEN now ELSE claimedAt[d][u]
  BY <1>1, <1>2, <1>3
<1>5. w \notin Claimers
  BY <1>1, <1>2, AccountedKnowsAll
<1>6. {u \in Wallets : \E d \in Contracts : claimedAt'[d][u] # Never} = Claimers \cup {w}
  BY <1>1, <1>3, <1>4 DEF Claimers
<1>7. IsFiniteSet(Claimers)
  BY LedgerAssumption, FS_Subset DEF Claimers
<1>8. Cardinality(Claimers \cup {w}) = Cardinality(Claimers) + 1
  BY <1>5, <1>7, FS_AddElement
<1>9. OneClaimPerWallet'
  BY <1>2, <1>6, <1>8 DEF OneClaimPerWallet, CountSound, Claimers, Never
<1>10. ClaimsPast'
  BY <1>1, <1>2, <1>3, <1>4 DEF ClaimsPast, CountSound, Never
<1> QED BY <1>9, <1>10 DEF CountSound

LEMMA RecoveryCounts ==
  ASSUME TypeOK, CountSound, DeployRecovery
  PROVE  CountSound'
<1>1. /\ live \in Contracts /\ live + 1 \in Contracts /\ minted = ClaimedSupply(live, now) /\ UNCHANGED <<now, minted>>
      /\ claimedAt' = [claimedAt EXCEPT ![live + 1] = claimedAt[live]]
  BY ClaimAssumption DEF DeployRecovery, TypeOK, Contracts
<1>2. claimedAt \in [Contracts -> [Wallets -> Times \cup {Never}]]
  BY DEF TypeOK
<1>3. \A d \in Contracts : claimedAt'[d] = IF d = live + 1 THEN claimedAt[live] ELSE claimedAt[d]
  BY <1>1, <1>2
<1>4. Claimers = {w \in Wallets : claimedAt[live][w] # Never}
  BY <1>1, AccountedKnowsAll
<1>5. live # live + 1
  BY <1>1 DEF Contracts
<1>6. {w \in Wallets : \E c \in Contracts : claimedAt'[c][w] # Never} = Claimers
  BY <1>1, <1>3, <1>4, <1>5 DEF Claimers
<1>7. OneClaimPerWallet'
  BY <1>1, <1>6 DEF OneClaimPerWallet, CountSound, Claimers, Never
<1>8. ClaimsPast'
  BY <1>1, <1>3 DEF ClaimsPast, CountSound, Never
<1> QED BY <1>7, <1>8 DEF CountSound

(***************************************************************************)
(* No wallet mints two free copies, on one contract or across any number   *)
(* of recoveries (contracts/GenesisReleaseSale.sol, its constructor and    *)
(* _assertPublicAllocation): every claim mint is of another wallet.        *)
(***************************************************************************)
THEOREM NoWalletClaimsTwice == Spec => []OneClaimPerWallet
<1>1. Init => CountSound
  <2>1. Init => {w \in Wallets : \E c \in Contracts : claimedAt[c][w] # Never} = {}
    BY DEF Init
  <2>2. Init => OneClaimPerWallet
    BY <2>1, FS_EmptySet DEF OneClaimPerWallet, Init
  <2>3. Init => ClaimsPast
    BY DEF Init, ClaimsPast
  <2> QED BY <2>2, <2>3 DEF CountSound
<1>2. TypeOK /\ CountSound /\ [Next]_vars => CountSound'
  <2> SUFFICES ASSUME TypeOK, CountSound, [Next]_vars PROVE CountSound'
    OBVIOUS
  <2>1. ASSUME UNCHANGED <<claimedAt, minted>>, now' = now \/ now' = now + 1 PROVE CountSound'
    <3>1. OneClaimPerWallet'
      BY <2>1 DEF CountSound, OneClaimPerWallet, Never
    <3>2. now \in Nat /\ claimedAt \in [Contracts -> [Wallets -> Times \cup {Never}]] /\ MaxTime \in Nat
      BY ClaimAssumption DEF TypeOK, Times
    <3>3. ClaimsPast'
      <4> SUFFICES ASSUME NEW c \in Contracts, NEW w \in Wallets, claimedAt[c][w] # Never PROVE claimedAt[c][w] <= now'
        BY <2>1 DEF ClaimsPast, Never
      <4>1. claimedAt[c][w] <= now
        BY DEF CountSound, ClaimsPast
      <4>2. claimedAt[c][w] \in Nat
        BY <3>2 DEF Times, Never
      <4> QED BY <2>1, <3>2, <4>1, <4>2
    <3> QED BY <3>1, <3>3 DEF CountSound
  <2>2. ASSUME NEW s \in Servers, Request(s) \/ Proceed(s) PROVE UNCHANGED chain
    BY <2>2 DEF Request, Proceed, BeginIssue, BeginReconcile, Begin, ReadClock, Settle, FinishReconcile, ReturnOwn,
      ReadClaimState, Issue, Abort
  <2>3. CASE \E s \in Servers : Request(s) \/ Proceed(s)
    BY <2>1, <2>2, <2>3 DEF chain
  <2>4. ASSUME NEW v \in vouchers, Claim(v) PROVE CountSound'
    BY <2>4, ClaimCounts
  <2>5. CASE \E t \in Transfers(Amounts) : Transfer(t)
    BY <2>1, <2>5 DEF Transfer
  <2>6. CASE Tick
    BY <2>1, <2>6 DEF Tick
  <2>7. CASE DeployRecovery
    BY <2>7, RecoveryCounts
  <2>8. CASE UNCHANGED vars
    BY <2>1, <2>8 DEF vars
  <2> QED BY <2>3, <2>4, <2>5, <2>6, <2>7, <2>8 DEF Next
<1> QED BY <1>1, <1>2, TypeCorrect, PTL DEF Spec, CountSound

-----------------------------------------------------------------------------
\* A commit of what a sound request has staged, but for the row it issues.
LEMMA StagedKeepsSettled ==
  ASSUME TypeOK, RowsSound, NEW r \in Session, r.records = rows, NEW k \in Keys, Staged(r, k),
         rows[k].status \in {"REDEEMED", "EXPIRED"}
  PROVE  r.staged[k] = rows[k]
<1>1. rows[k] \in Issued
  BY DEF TypeOK, Row, NoRow
<1>2. rows[k].status = "REDEEMED" => rows[k].nonce \in usedNonces
  BY DEF RowsSound, ReleasedAreDead
<1>3. rows[k].status = "EXPIRED" => rows[k].nonce \notin usedNonces
  BY DEF RowsSound, ReleasedAreDead, Dead
<1>4. \A status : rows[k].status = status => [rows[k] EXCEPT !.status = status] = rows[k]
  BY <1>1 DEF Issued
<1>5. CASE r.staged[k] = [rows[k] EXCEPT !.status = "REDEEMED"] /\ rows[k].nonce \in usedNonces
  BY <1>3, <1>4, <1>5
<1>6. CASE r.staged[k] = [rows[k] EXCEPT !.status = "EXPIRED"] /\ Dead(rows[k])
  BY <1>2, <1>4, <1>6 DEF Dead
<1> QED BY <1>5, <1>6 DEF Staged

SettledStays(k) ==
  /\ rows[k].status = "REDEEMED" => rows'[k] = rows[k]
  /\ rows[k].status = "EXPIRED" /\ rows'[k] # rows[k] => rows'[k].status = "PENDING" /\ rows'[k].nonce > signed

(***************************************************************************)
(* With one claim contract, a REDEEMED row stays as it is and an EXPIRED   *)
(* one only ever becomes a fresh voucher (server/genesis-claim.js).        *)
(***************************************************************************)
THEOREM SettledRowsStay ==
  ASSUME NumContracts = 1
  PROVE  Spec => SettlementIsFinal
<1> USE ClaimAssumption
<1>1. TypeOK /\ RowsSound /\ [Next]_vars => [\A k \in Keys : SettledStays(k)]_rows
  <2> SUFFICES ASSUME TypeOK, RowsSound, [Next]_vars, rows' # rows, NEW k \in Keys PROVE SettledStays(k)
    OBVIOUS
  <2>1. PICK s \in Servers : FinishReconcile(s) \/ ReturnOwn(s) \/ Issue(s)
    BY DEF Next, Request, Proceed, BeginIssue, BeginReconcile, Begin, ReadClock, Settle, ReadClaimState, Abort,
      Claim, Transfer, Tick, DeployRecovery, service, vars
  <2> DEFINE r == sess[s]
  <2>2. r.step \in {"settling", "position"}
    BY <2>1 DEF FinishReconcile, ReturnOwn, Issue
  <2>3. r \in Session /\ SessionSound(r)
    BY <2>2 DEF TypeOK, RowsSound, SessionsSound
  <2>4. r.records = rows /\ Staged(r, k) /\ r.staged \in [Keys -> Row]
    BY <2>2, <2>3 DEF SessionSound, Session
  <2>5. rows[k].status \in {"REDEEMED", "EXPIRED"} => r.staged[k] = rows[k]
    BY <2>3, <2>4, StagedKeepsSettled
  <2>6. CASE rows' = Committed(r, r.staged)
    BY <2>3, <2>4, <2>5, <2>6, CommitStaged DEF SettledStays
  <2>7. CASE Issue(s)
    <3> DEFINE key == <<live, r.wallet>>
    <3>1. PICK row : /\ rows' = Committed(r, [r.staged EXCEPT ![key] = row])
                     /\ row.status = "PENDING" /\ row.nonce = signed + 1
      <4>1. PICK through, unit, deadline :
              rows' = Committed(r, [r.staged EXCEPT ![key] =
                  [status |-> "PENDING", block |-> through, unit |-> unit, deadline |-> deadline, nonce |-> signed + 1]])
        BY <2>7 DEF Issue
      <4> DEFINE row == [status |-> "PENDING", block |-> through, unit |-> unit, deadline |-> deadline, nonce |-> signed + 1]
      <4>2. rows' = Committed(r, [r.staged EXCEPT ![key] = row]) /\ row.status = "PENDING" /\ row.nonce = signed + 1
        BY <4>1
      <4> QED BY <4>2
    <3>2. \A j \in Keys : rows'[j] = IF j = key THEN IF row # r.records[j] THEN row ELSE rows[j] ELSE r.staged[j]
      BY <3>1, <2>4 DEF Committed
    <3>3. key \notin Active(r)
      BY <2>3, <2>7 DEF Issue, SessionSound
    <3>4. rows[key].status # "REDEEMED" \/ key \notin Keys
      BY <2>4, <3>3 DEF Active
    <3>5. signed + 1 > signed
      BY DEF TypeOK
    <3>6. CASE k = key
      BY <2>4, <3>1, <3>2, <3>4, <3>5, <3>6 DEF SettledStays
    <3>7. CASE k # key
      BY <2>5, <3>2, <3>7 DEF SettledStays
    <3> QED BY <3>6, <3>7
  <2> QED BY <2>1, <2>6, <2>7 DEF FinishReconcile, ReturnOwn
<1>2. [][\A k \in Keys : SettledStays(k)]_rows <=> SettlementIsFinal
  BY DEF SettlementIsFinal, SettledStays
<1>3. IInv => RowsSound
  BY DEF IInv
<1> QED BY <1>1, <1>2, <1>3, TypeCorrect, Invariance, PTL DEF Spec

-----------------------------------------------------------------------------
(***************************************************************************)
(* The alert to the reviewer, as MCSettling runs it.                       *)
(***************************************************************************)
LEMMA AlertStep == [NextOne]_allVars => [Alerts!Next]_(Alerts!vars)
BY DEF NextOne, OfClaims, OfAlert, allVars, alertVars, Alerts!vars

LEMMA AlertConstants ==
  /\ Alerts!NoDelivery \in Alerts!Delivery /\ Alerts!NoDelivery.step = "idle"
  /\ Alerts!Waiting \in Alerts!Alert /\ Alerts!Waiting.status = "NONE" /\ Alerts!Waiting.attempts = 0
  /\ MaxAttempts \in Nat /\ MaxAttempts > 0 /\ MaxRedeploys \in Nat
BY AlertParameters DEF Alerts!AlertAssumption, Alerts!NoDelivery, Alerts!Delivery, Alerts!Waiting, Alerts!Alert

LEMMA AlertStarts == Alerts!Init => Alerts!IInv
<1> SUFFICES ASSUME Alerts!Init PROVE Alerts!IInv
  OBVIOUS
<1>1. /\ \A a \in Apps : alerts[a] = Alerts!Waiting /\ told[a].delivered = 0 /\ told[a].misreported = 0
      /\ \A d \in Workers : worker[d] = Alerts!NoDelivery
  BY DEF Alerts!Init
<1>2. Alerts!TypeOK
  BY AlertConstants DEF Alerts!Init, Alerts!TypeOK
<1> QED BY <1>1, <1>2, AlertConstants DEF Alerts!IInv, Alerts!NoDuplicateAlert, Alerts!NothingLeft, Alerts!Owed, Alerts!UnderWay,
  Alerts!Making, Alerts!OneDelivery

\* What a step does to one row, to one delivery and to the count of messages, the rest as it was.
Rewrites(a, row) == alerts' = [alerts EXCEPT ![a] = row]
Turns(d, e) == worker' = [worker EXCEPT ![d] = e]

\* A row is rewritten and no delivery moves on.
LEMMA RowRewritten ==
  ASSUME Alerts!IInv, NEW a \in Apps, NEW row \in Alerts!Alert, Rewrites(a, row), UNCHANGED told,
         worker' \in [Workers -> Alerts!Delivery],
         \A d \in Workers : worker'[d] = worker[d] \/ worker'[d].step \in {"idle", "claim"},
         row.status \in Alerts!Pending \cup {"NONE"} =>
           alerts[a].status \in Alerts!Pending \cup {"NONE"} /\ row.attempts = alerts[a].attempts,
         alerts[a].status = "SENDING" => row.status \in {"SENDING", "UNCONFIRMED"} /\ row.attempts = alerts[a].attempts,
         alerts[a].status = "UNCONFIRMED" => row.status = "UNCONFIRMED",
         age' \in [Apps -> {"none", "recent", "older", "old"}], queued' \subseteq Apps, redeploys' \in 0..MaxRedeploys
  PROVE  Alerts!IInv'
<1>1. alerts' \in [Apps -> Alerts!Alert] /\ alerts'[a] = row /\ \A b \in Apps : b # a => alerts'[b] = alerts[b]
  BY DEF Rewrites, Alerts!IInv, Alerts!TypeOK
<1>2. \A d \in Workers, b \in Apps : Alerts!Making(d, b)' => Alerts!Making(d, b) /\ worker'[d] = worker[d]
  BY DEF Alerts!Making
<1>3. \A b \in Apps : Alerts!Owed(b)' <=> Alerts!Owed(b)
  BY DEF Alerts!Owed
<1>4. Alerts!NothingLeft'
  BY <1>1, <1>3 DEF Alerts!IInv, Alerts!NothingLeft
<1>5. Alerts!UnderWay'
  BY <1>1, <1>2, <1>3 DEF Alerts!IInv, Alerts!UnderWay
<1>6. Alerts!OneDelivery'
  BY <1>2 DEF Alerts!IInv, Alerts!OneDelivery
<1>7. Alerts!TypeOK' /\ Alerts!NoDuplicateAlert'
  BY <1>1 DEF Alerts!IInv, Alerts!TypeOK, Alerts!NoDuplicateAlert
<1> QED BY <1>4, <1>5, <1>6, <1>7 DEF Alerts!IInv

\* No row changes, and deliveries only end or begin.
LEMMA RowsKept ==
  ASSUME Alerts!IInv, UNCHANGED <<alerts, told>>, worker' \in [Workers -> Alerts!Delivery],
         \A d \in Workers : worker'[d] = worker[d] \/ worker'[d].step \in {"idle", "claim"},
         age' \in [Apps -> {"none", "recent", "older", "old"}], queued' \subseteq Apps, redeploys' \in 0..MaxRedeploys
  PROVE  Alerts!IInv'
<1>2. \A d \in Workers, b \in Apps : Alerts!Making(d, b)' => Alerts!Making(d, b) /\ worker'[d] = worker[d]
  BY DEF Alerts!Making
<1>3. \A b \in Apps : Alerts!Owed(b)' <=> Alerts!Owed(b)
  BY DEF Alerts!Owed
<1>4. Alerts!NothingLeft' /\ Alerts!UnderWay' /\ Alerts!OneDelivery'
  BY <1>2, <1>3 DEF Alerts!IInv, Alerts!NothingLeft, Alerts!UnderWay, Alerts!OneDelivery
<1>5. Alerts!TypeOK' /\ Alerts!NoDuplicateAlert'
  BY DEF Alerts!IInv, Alerts!TypeOK, Alerts!NoDuplicateAlert
<1> QED BY <1>4, <1>5 DEF Alerts!IInv

LEMMA RowWith ==
  \A row \in Alerts!Alert :
    /\ \A due \in BOOLEAN :
         LET new == [row EXCEPT !.due = due] IN new \in Alerts!Alert /\ new.status = row.status /\ new.attempts = row.attempts
    /\ \A expired \in BOOLEAN :
         LET new == [row EXCEPT !.expired = expired]
         IN  new \in Alerts!Alert /\ new.status = row.status /\ new.attempts = row.attempts
BY DEF Alerts!Alert

LEMMA RowClaimed ==
  \A row \in Alerts!Alert, n \in 0..MaxAttempts :
    LET new == [row EXCEPT !.status = "SENDING", !.attempts = n, !.expired = FALSE]
    IN  new \in Alerts!Alert /\ new.status = "SENDING" /\ new.attempts = n
BY DEF Alerts!Alert

LEMMA DeliveryWith ==
  \A e \in Alerts!Delivery, n \in 0..MaxAttempts :
    LET new == [e EXCEPT !.step = "send", !.attempt = n]
    IN  new \in Alerts!Delivery /\ new.step = "send" /\ new.app = e.app /\ new.attempt = n
BY DEF Alerts!Delivery

LEMMA AlertsKept == Alerts!IInv /\ [Alerts!Next]_(Alerts!vars) => Alerts!IInv'
<1> SUFFICES ASSUME Alerts!IInv, [Alerts!Next]_(Alerts!vars) PROVE Alerts!IInv'
  OBVIOUS
<1>t. /\ alerts \in [Apps -> Alerts!Alert] /\ worker \in [Workers -> Alerts!Delivery]
      /\ age \in [Apps -> {"none", "recent", "older", "old"}] /\ queued \subseteq Apps /\ redeploys \in 0..MaxRedeploys
      /\ told \in [Apps -> [delivered : Nat, misreported : Nat]]
  BY DEF Alerts!IInv, Alerts!TypeOK
<1>p. UNCHANGED Alerts!process => UNCHANGED <<configured, redeploys>>
  BY DEF Alerts!process
<1>e. ASSUME NEW a \in Apps, alerts[a].status = "NONE", alerts' = Alerts!Enqueued(a)
      PROVE  \E row \in Alerts!Alert : Rewrites(a, row) /\ row.status = "PENDING" /\ row.attempts = alerts[a].attempts
  <2> DEFINE row == [alerts[a] EXCEPT !.status = "PENDING", !.due = TRUE]
  <2>1. row \in Alerts!Alert /\ row.status = "PENDING" /\ row.attempts = alerts[a].attempts
    BY <1>t DEF Alerts!Alert, Alerts!Pending
  <2>2. Rewrites(a, row)
    BY <1>e, <1>t DEF Alerts!Enqueued, Rewrites
  <2> QED BY <2>1, <2>2
<1>1. ASSUME NEW a \in Apps, Alerts!Submitted(a) \/ Alerts!Older(a) PROVE Alerts!IInv'
  <2>1. UNCHANGED <<alerts, told, worker, redeploys>> /\ age' \in [Apps -> {"none", "recent", "older", "old"}] /\ queued' \subseteq Apps
    BY <1>1, <1>t DEF Alerts!Submitted, Alerts!Older, Alerts!process
  <2> QED BY <2>1, <1>t, RowsKept
<1>2. ASSUME NEW a \in Apps, Alerts!MarkStaleClaims(a) PROVE Alerts!IInv'
  <2> DEFINE row == [alerts[a] EXCEPT !.status = "UNCONFIRMED", !.expired = FALSE]
  <2>1. row \in Alerts!Alert /\ row.status = "UNCONFIRMED" /\ row.attempts = alerts[a].attempts
    BY <1>t DEF Alerts!Alert, Alerts!Final
  <2>2. Rewrites(a, row) /\ alerts[a].status = "SENDING" /\ UNCHANGED <<age, queued, worker, told, redeploys>>
    BY <1>2, <1>t DEF Alerts!MarkStaleClaims, Alerts!Stale, Rewrites, Alerts!process
  <2> HIDE DEF row
  <2> QED BY <2>1, <2>2, <1>t, RowRewritten DEF Alerts!Pending
<1>3. ASSUME NEW a \in Apps, Alerts!EnqueueMissing(a) PROVE Alerts!IInv'
  <2>1. UNCHANGED <<age, queued, worker, told, redeploys>> /\ alerts[a].status = "NONE" /\ alerts' = Alerts!Enqueued(a)
    BY <1>3 DEF Alerts!EnqueueMissing, Alerts!process
  <2>2. PICK row \in Alerts!Alert : Rewrites(a, row) /\ row.status = "PENDING" /\ row.attempts = alerts[a].attempts
    BY <2>1, <1>e
  <2> QED BY <2>1, <2>2, <1>t, RowRewritten
<1>4. ASSUME NEW a \in Apps, Alerts!ComesDue(a) \/ Alerts!ClaimExpires(a) PROVE Alerts!IInv'
  <2>1. PICK row \in Alerts!Alert : Rewrites(a, row) /\ row.status = alerts[a].status /\ row.attempts = alerts[a].attempts
    <3>1. CASE Alerts!ComesDue(a)
      <4>1. Rewrites(a, [alerts[a] EXCEPT !.due = TRUE])
        BY <3>1, <1>t DEF Alerts!ComesDue, Rewrites
      <4> QED BY <4>1, <1>t, RowWith
    <3>2. CASE Alerts!ClaimExpires(a)
      <4>1. Rewrites(a, [alerts[a] EXCEPT !.expired = TRUE])
        BY <3>2, <1>t DEF Alerts!ClaimExpires, Rewrites
      <4> QED BY <4>1, <1>t, RowWith
    <3> QED BY <1>4, <3>1, <3>2
  <2>2. UNCHANGED <<age, queued, worker, told, redeploys>>
    BY <1>4 DEF Alerts!ComesDue, Alerts!ClaimExpires, Alerts!process
  <2> QED BY <2>1, <2>2, <1>t, RowRewritten
<1>5. ASSUME NEW d \in Workers, NEW a \in Apps, Alerts!NotifySubmitted(d, a) \/ Alerts!SweepDue(d, a) PROVE Alerts!IInv'
  <2>1. UNCHANGED <<age, told, redeploys>> /\ queued' \subseteq Apps
    BY <1>5, <1>t DEF Alerts!NotifySubmitted, Alerts!SweepDue, Alerts!process
  <2>2. worker' \in [Workers -> Alerts!Delivery] /\ \A e \in Workers : worker'[e] = worker[e] \/ worker'[e].step \in {"idle", "claim"}
    <3>1. worker' = worker \/ worker' = [worker EXCEPT ![d] = [worker[d] EXCEPT !.step = "claim", !.app = a]]
      BY <1>5, <1>t DEF Alerts!NotifySubmitted, Alerts!SweepDue
    <3>2. /\ [worker[d] EXCEPT !.step = "claim", !.app = a] \in Alerts!Delivery
          /\ [worker[d] EXCEPT !.step = "claim", !.app = a].step = "claim"
      BY <1>t DEF Alerts!Delivery
    <3> QED BY <3>1, <3>2, <1>t
  <2>3. CASE UNCHANGED alerts
    BY <2>1, <2>2, <2>3, <1>t, RowsKept
  <2>4. CASE alerts[a].status = "NONE" /\ alerts' = Alerts!Enqueued(a)
    <3>1. PICK row \in Alerts!Alert : Rewrites(a, row) /\ row.status = "PENDING" /\ row.attempts = alerts[a].attempts
      BY <2>4, <1>e
    <3> QED BY <2>1, <2>2, <2>4, <3>1, <1>t, RowRewritten
  <2> QED BY <1>5, <2>3, <2>4 DEF Alerts!NotifySubmitted, Alerts!SweepDue
<1>6. ASSUME NEW d \in Workers, Alerts!Claim(d) PROVE Alerts!IInv'
  <2>1. PICK a \in Apps : a = worker[d].app /\ UNCHANGED <<age, queued, told, redeploys>>
    BY <1>6, <1>t DEF Alerts!Claim, Alerts!process, Alerts!Delivery
  <2>2. CASE ~Alerts!Claimable(a)
    <3>1. worker' = [worker EXCEPT ![d] = Alerts!NoDelivery] /\ UNCHANGED alerts
      BY <1>6, <2>1, <2>2 DEF Alerts!Claim
    <3>2. worker' \in [Workers -> Alerts!Delivery] /\ \A e \in Workers : worker'[e] = worker[e] \/ worker'[e].step \in {"idle", "claim"}
      BY <3>1, <1>t, AlertConstants
    <3> QED BY <2>1, <3>1, <3>2, <1>t, RowsKept
  <2>3. CASE Alerts!Claimable(a)
    <3> DEFINE n == alerts[a].attempts + 1
               row == [alerts[a] EXCEPT !.status = "SENDING", !.attempts = n, !.expired = FALSE]
               e == [worker[d] EXCEPT !.step = "send", !.attempt = n]
    <3>1. Rewrites(a, row) /\ Turns(d, e)
      <4>1. /\ alerts' = [alerts EXCEPT ![a].status = "SENDING", ![a].attempts = n, ![a].expired = FALSE]
            /\ worker' = [worker EXCEPT ![d].step = "send", ![d].attempt = n]
        BY <1>6, <2>1, <2>3 DEF Alerts!Claim
      <4> HIDE DEF n
      <4> QED BY <4>1, <2>1, <1>t DEF Rewrites, Turns
    <3>2. alerts[a].status \in Alerts!Pending /\ alerts[a].attempts < MaxAttempts /\ Alerts!Owed(a)
      BY <2>1, <2>3 DEF Alerts!Claimable, Alerts!IInv, Alerts!NothingLeft
    <3>3. alerts[a].attempts \in 0..MaxAttempts
      BY <2>1, <1>t DEF Alerts!Alert
    <3>4. n \in 1..MaxAttempts /\ n \in 0..MaxAttempts
      BY <3>2, <3>3, AlertConstants
    <3> HIDE DEF n
    <3>5. row \in Alerts!Alert /\ row.status = "SENDING" /\ row.attempts = n
      <4>1. alerts[a] \in Alerts!Alert
        BY <2>1, <1>t
      <4> QED BY <3>4, <4>1, RowClaimed
    <3>6. e \in Alerts!Delivery /\ e.step = "send" /\ e.app = a /\ e.attempt = n
      BY <2>1, <3>4, <1>t, DeliveryWith
    <3> HIDE DEF row, e
    <3>7. \A f \in Workers : ~Alerts!Making(f, a)
      BY <2>1, <3>2 DEF Alerts!IInv, Alerts!UnderWay, Alerts!Pending
    <3>8. /\ alerts' \in [Apps -> Alerts!Alert] /\ alerts'[a] = row /\ \A b \in Apps : b # a => alerts'[b] = alerts[b]
          /\ worker' \in [Workers -> Alerts!Delivery] /\ worker'[d] = e /\ \A f \in Workers : f # d => worker'[f] = worker[f]
      BY <2>1, <3>1, <3>5, <3>6, <1>t DEF Rewrites, Turns
    <3>9. \A b \in Apps : Alerts!Owed(b)' <=> Alerts!Owed(b)
      BY <2>1 DEF Alerts!Owed
    <3>10. \A f \in Workers, b \in Apps : Alerts!Making(f, b)' <=> IF f = d THEN b = a ELSE Alerts!Making(f, b)
      BY <3>6, <3>8 DEF Alerts!Making
    <3>11. Alerts!NothingLeft'
      BY <3>5, <3>8, <3>9 DEF Alerts!IInv, Alerts!NothingLeft, Alerts!Pending
    <3>12. Alerts!UnderWay'
      <4> SUFFICES ASSUME NEW f \in Workers, NEW b \in Apps, Alerts!Making(f, b)'
                   PROVE  /\ alerts'[b].status \in {"SENDING", "UNCONFIRMED"}
                          /\ worker'[f].attempt > 0 /\ (alerts'[b].status = "SENDING" => alerts'[b].attempts = worker'[f].attempt)
                          /\ Alerts!Owed(b)' \/ (worker'[f].step = "finish" /\ worker'[f].result = "ok")
        BY DEF Alerts!UnderWay
      <4>1. CASE f = d
        BY <4>1, <3>2, <3>4, <3>5, <3>6, <3>8, <3>9, <3>10
      <4>2. CASE f # d
        BY <4>2, <3>7, <3>8, <3>9, <3>10 DEF Alerts!IInv, Alerts!UnderWay
      <4> QED BY <4>1, <4>2
    <3>13. Alerts!OneDelivery'
      BY <3>7, <3>10 DEF Alerts!IInv, Alerts!OneDelivery
    <3>14. Alerts!TypeOK' /\ Alerts!NoDuplicateAlert'
      BY <2>1, <3>8 DEF Alerts!IInv, Alerts!TypeOK, Alerts!NoDuplicateAlert
    <3> QED BY <3>11, <3>12, <3>13, <3>14 DEF Alerts!IInv
  <2> QED BY <2>2, <2>3
<1>7. ASSUME NEW d \in Workers, Alerts!Send(d) \/ Alerts!Unconfigured(d) PROVE Alerts!IInv'
  <2>1. PICK a \in Apps : a = worker[d].app /\ UNCHANGED <<age, queued, alerts, redeploys>> /\ worker[d].step = "send"
    BY <1>7, <1>t DEF Alerts!Send, Alerts!Unconfigured, Alerts!process, Alerts!Delivery
  <2>2. PICK result \in {"ok", "error", "refused", "lost", "unconfigured"} :
          /\ Turns(d, [worker[d] EXCEPT !.step = "finish", !.result = result])
          /\ told' = [told EXCEPT ![a] = [delivered |-> IF result \in {"ok", "lost"} THEN @.delivered + 1 ELSE @.delivered,
                                          misreported |-> IF result = "lost" THEN @.misreported + 1 ELSE @.misreported]]
    <3>1. CASE Alerts!Send(d)
      <4>1. PICK result \in {"ok", "error", "refused", "lost"} :
              /\ worker' = [worker EXCEPT ![d].step = "finish", ![d].result = result]
              /\ told' = [told EXCEPT ![a] = [delivered |-> IF result \in {"ok", "lost"} THEN @.delivered + 1 ELSE @.delivered,
                                              misreported |-> IF result = "lost" THEN @.misreported + 1 ELSE @.misreported]]
        BY <3>1, <2>1 DEF Alerts!Send
      <4>2. Turns(d, [worker[d] EXCEPT !.step = "finish", !.result = result])
        BY <4>1, <1>t DEF Turns
      <4> QED BY <4>1, <4>2
    <3>2. CASE Alerts!Unconfigured(d)
      <4>1. told[a] = [delivered |-> told[a].delivered, misreported |-> told[a].misreported]
        BY <2>1, <1>t
      <4> QED BY <3>2, <4>1, <2>1, <1>t DEF Alerts!Unconfigured, Turns
    <3> QED BY <1>7, <3>1, <3>2
  <2> DEFINE e == [worker[d] EXCEPT !.step = "finish", !.result = result]
  <2>3. e \in Alerts!Delivery /\ e.step = "finish" /\ e.result = result /\ e.app = a /\ e.attempt = worker[d].attempt
    BY <2>1, <1>t DEF Alerts!Delivery
  <2>4. Alerts!Making(d, a)
    BY <2>1 DEF Alerts!Making
  <2> HIDE DEF e
  <2>5. /\ alerts[a].status \in {"SENDING", "UNCONFIRMED"} /\ Alerts!Owed(a)
        /\ worker[d].attempt > 0 /\ (alerts[a].status = "SENDING" => alerts[a].attempts = worker[d].attempt)
    BY <2>1, <2>4 DEF Alerts!IInv, Alerts!UnderWay
  <2>6. worker' \in [Workers -> Alerts!Delivery] /\ worker'[d] = e /\ \A f \in Workers : f # d => worker'[f] = worker[f]
    BY <2>2, <2>3, <1>t DEF Turns, e
  <2>7. /\ told' \in [Apps -> [delivered : Nat, misreported : Nat]]
        /\ \A b \in Apps : b # a => told'[b] = told[b]
        /\ told'[a].delivered <= 1 + told'[a].misreported /\ (result # "ok" => told'[a].delivered <= told'[a].misreported)
    <3>1. told[a].delivered \in Nat /\ told[a].misreported \in Nat /\ told[a].delivered <= told[a].misreported
      BY <2>1, <2>5, <1>t DEF Alerts!Owed
    <3> DEFINE t == [delivered |-> IF result \in {"ok", "lost"} THEN told[a].delivered + 1 ELSE told[a].delivered,
                     misreported |-> IF result = "lost" THEN told[a].misreported + 1 ELSE told[a].misreported]
    <3>2. told' = [told EXCEPT ![a] = t]
      BY <2>2
    <3>3. /\ t \in [delivered : Nat, misreported : Nat] /\ t.delivered <= 1 + t.misreported
          /\ (result # "ok" => t.delivered <= t.misreported)
      BY <3>1
    <3> HIDE DEF t
    <3> QED BY <2>1, <3>2, <3>3, <1>t
  <2>8. \A f \in Workers, b \in Apps : Alerts!Making(f, b)' <=> IF f = d THEN b = a ELSE Alerts!Making(f, b)
    BY <2>3, <2>6 DEF Alerts!Making
  <2>9. \A f \in Workers : f # d => ~Alerts!Making(f, a)
    BY <2>1, <2>4 DEF Alerts!IInv, Alerts!OneDelivery
  <2>10. \A b \in Apps : b # a => (Alerts!Owed(b)' <=> Alerts!Owed(b))
    BY <2>7 DEF Alerts!Owed
  <2>11. Alerts!NothingLeft'
    <3>1. alerts[a].status \notin Alerts!Pending \cup {"NONE"}
      BY <2>5 DEF Alerts!Pending
    <3> QED BY <2>1, <2>10, <3>1 DEF Alerts!IInv, Alerts!NothingLeft
  <2>12. Alerts!UnderWay'
    <3> SUFFICES ASSUME NEW f \in Workers, NEW b \in Apps, Alerts!Making(f, b)'
                 PROVE  /\ alerts'[b].status \in {"SENDING", "UNCONFIRMED"}
                        /\ worker'[f].attempt > 0 /\ (alerts'[b].status = "SENDING" => alerts'[b].attempts = worker'[f].attempt)
                        /\ Alerts!Owed(b)' \/ (worker'[f].step = "finish" /\ worker'[f].result = "ok")
      BY DEF Alerts!UnderWay
    <3>1. CASE f = d
      BY <3>1, <2>1, <2>3, <2>5, <2>6, <2>7, <2>8 DEF Alerts!Owed
    <3>2. CASE f # d
      BY <3>2, <2>1, <2>6, <2>8, <2>9, <2>10 DEF Alerts!IInv, Alerts!UnderWay
    <3> QED BY <3>1, <3>2
  <2>13. Alerts!OneDelivery'
    BY <2>8, <2>9 DEF Alerts!IInv, Alerts!OneDelivery
  <2>14. Alerts!TypeOK' /\ Alerts!NoDuplicateAlert'
    BY <2>1, <2>6, <2>7, <1>t DEF Alerts!IInv, Alerts!TypeOK, Alerts!NoDuplicateAlert
  <2> QED BY <2>11, <2>12, <2>13, <2>14 DEF Alerts!IInv
<1>8. ASSUME NEW d \in Workers, Alerts!Finish(d) PROVE Alerts!IInv'
  <2>1. PICK a \in Apps :
        /\ a = worker[d].app /\ UNCHANGED <<age, queued, told, redeploys>> /\ worker[d].step = "finish"
        /\ worker' = [worker EXCEPT ![d] = Alerts!NoDelivery]
    BY <1>8, <1>t DEF Alerts!Finish, Alerts!process, Alerts!Delivery
  <2>2. /\ worker' \in [Workers -> Alerts!Delivery] /\ worker'[d].step = "idle" /\ \A f \in Workers : f # d => worker'[f] = worker[f]
    BY <2>1, <1>t, AlertConstants
  <2>3. CASE ~Alerts!Answered(a)
    <3>1. UNCHANGED alerts
      BY <1>8, <2>1, <2>3 DEF Alerts!Finish
    <3> QED BY <2>1, <2>2, <3>1, <1>t, RowsKept
  <2>4. CASE Alerts!Answered(a)
    <3> DEFINE o == Alerts!Outcome(d)
               n == IF o = "CONFIG_MISSING" THEN worker[d].attempt - 1 ELSE alerts[a].attempts
               row == [alerts[a] EXCEPT !.status = o, !.due = FALSE, !.expired = FALSE, !.attempts = n]
    <3>1. Rewrites(a, row) /\ alerts[a].status = "SENDING"
      BY <1>8, <2>1, <2>4, <1>t DEF Alerts!Finish, Alerts!Answered, Rewrites
    <3>2. Alerts!Making(d, a)
      BY <2>1 DEF Alerts!Making
    <3>3. /\ worker[d].attempt > 0 /\ alerts[a].attempts = worker[d].attempt /\ (worker[d].result # "ok" => Alerts!Owed(a))
      BY <2>1, <3>1, <3>2 DEF Alerts!IInv, Alerts!UnderWay
    <3>4. worker[d].attempt \in 0..MaxAttempts
      BY <1>t DEF Alerts!Delivery
    <3>5. /\ o \in {"SENT", "CONFIG_MISSING", "RETRY", "FAILED"}
          /\ o \in {"CONFIG_MISSING", "RETRY"} => worker[d].result # "ok"
          /\ o = "RETRY" => worker[d].attempt < MaxAttempts
      BY DEF Alerts!Outcome
    <3> HIDE DEF o
    <3>6. n \in 0..MaxAttempts /\ (o \in {"CONFIG_MISSING", "RETRY"} => n < MaxAttempts)
      BY <3>3, <3>4, <3>5, AlertConstants
    <3> HIDE DEF n
    <3>7. row \in Alerts!Alert /\ row.status = o /\ row.attempts = n
      BY ZenonT(60), <2>1, <3>5, <3>6, <1>t DEF Alerts!Alert, Alerts!Pending, Alerts!Final
    <3> HIDE DEF row
    <3>8. alerts' \in [Apps -> Alerts!Alert] /\ alerts'[a] = row /\ \A b \in Apps : b # a => alerts'[b] = alerts[b]
      BY <2>1, <3>1, <3>7, <1>t DEF Rewrites
    <3>9. \A b \in Apps : Alerts!Owed(b)' <=> Alerts!Owed(b)
      BY <2>1 DEF Alerts!Owed
    <3>10. \A f \in Workers, b \in Apps : Alerts!Making(f, b)' <=> f # d /\ Alerts!Making(f, b)
      BY <2>2 DEF Alerts!Making
    <3>11. \A f \in Workers : ~Alerts!Making(f, a)'
      BY <2>1, <3>2, <3>10 DEF Alerts!IInv, Alerts!OneDelivery
    <3>12. Alerts!NothingLeft'
      BY <3>3, <3>5, <3>6, <3>7, <3>8, <3>9 DEF Alerts!IInv, Alerts!NothingLeft, Alerts!Pending
    <3>13. Alerts!UnderWay'
      BY <2>2, <3>8, <3>9, <3>10, <3>11 DEF Alerts!IInv, Alerts!UnderWay
    <3>14. Alerts!OneDelivery'
      BY <3>10 DEF Alerts!IInv, Alerts!OneDelivery
    <3>15. Alerts!TypeOK' /\ Alerts!NoDuplicateAlert'
      BY <2>1, <2>2, <3>8, <1>t DEF Alerts!IInv, Alerts!TypeOK, Alerts!NoDuplicateAlert
    <3> QED BY <3>12, <3>13, <3>14, <3>15 DEF Alerts!IInv
  <2> QED BY <2>3, <2>4
<1>9. CASE Alerts!Redeploy
  <2>1. UNCHANGED <<age, alerts, told>> /\ queued' = {} /\ worker' = [f \in Workers |-> Alerts!NoDelivery] /\ redeploys' \in 0..MaxRedeploys
    BY <1>9, <1>t, AlertConstants DEF Alerts!Redeploy
  <2>2. worker' \in [Workers -> Alerts!Delivery] /\ \A f \in Workers : worker'[f].step = "idle"
    BY <2>1, AlertConstants
  <2> QED BY <2>1, <2>2, <1>t, RowsKept
<1>10. CASE UNCHANGED Alerts!vars
  BY <1>10, <1>t, RowsKept DEF Alerts!vars
<1> QED BY <1>1, <1>2, <1>3, <1>4, <1>5, <1>6, <1>7, <1>8, <1>9, <1>10 DEF Alerts!Next, Alerts!Sweep, Alerts!Deliver

(***************************************************************************)
(* A reviewer gets one message per submission, and one more only for each  *)
(* that X delivered and reported as failed, for any number of submissions, *)
(* deliveries, attempts and restarts (server/verification-notifier.js).    *)
(***************************************************************************)
THEOREM ReviewerToldOnce == SpecOne => []NoDuplicateAlert
<1>1. InitOne => Alerts!IInv
  BY AlertStarts DEF InitOne
<1>2. Alerts!IInv /\ [NextOne]_allVars => Alerts!IInv'
  BY AlertStep, AlertsKept
<1>3. Alerts!IInv => NoDuplicateAlert
  BY DEF Alerts!IInv, NoDuplicateAlert
<1> QED BY <1>1, <1>2, <1>3, PTL DEF SpecOne

(***************************************************************************)
(* An outcome that was recorded stays: a delivery that ends late finds its *)
(* row given up (finish in server/verification-notifier.js).               *)
(***************************************************************************)
THEOREM OutcomesStay == SpecOne => OutcomesFinal
<1> DEFINE Stays == \A a \in Apps : alerts[a].status \in Alerts!Final => alerts'[a].status = alerts[a].status
<1>1. Alerts!IInv /\ [NextOne]_allVars => [Stays]_(Alerts!vars)
  <2> SUFFICES ASSUME Alerts!IInv, Alerts!Next, NEW a \in Apps, alerts[a].status \in Alerts!Final
               PROVE  alerts'[a].status = alerts[a].status
    BY AlertStep
  <2>1. alerts \in [Apps -> Alerts!Alert] /\ worker \in [Workers -> Alerts!Delivery]
    BY DEF Alerts!IInv, Alerts!TypeOK
  <2>2. ASSUME NEW b \in Apps, alerts[b].status \notin Alerts!Final, NEW row, alerts' = [alerts EXCEPT ![b] = row]
        PROVE  alerts'[a].status = alerts[a].status
    BY <2>1, <2>2
  <2>3. ASSUME NEW b \in Apps, Alerts!Submitted(b) \/ Alerts!Sweep(b) \/ Alerts!ComesDue(b) \/ Alerts!ClaimExpires(b) \/ Alerts!Older(b)
        PROVE  alerts'[a].status = alerts[a].status
    BY <2>1, <2>3 DEF Alerts!Submitted, Alerts!Sweep, Alerts!MarkStaleClaims, Alerts!Stale, Alerts!EnqueueMissing, Alerts!Enqueued,
      Alerts!ComesDue, Alerts!ClaimExpires, Alerts!Older, Alerts!Final, Alerts!Alert
  <2>4. ASSUME NEW d \in Workers, NEW b \in Apps, Alerts!NotifySubmitted(d, b) \/ Alerts!SweepDue(d, b)
        PROVE  alerts'[a].status = alerts[a].status
    BY <2>1, <2>4 DEF Alerts!NotifySubmitted, Alerts!SweepDue, Alerts!Enqueued, Alerts!Final, Alerts!Alert
  <2>5. ASSUME NEW d \in Workers, Alerts!Claim(d) PROVE alerts'[a].status = alerts[a].status
    BY <2>1, <2>5 DEF Alerts!Claim, Alerts!Claimable, Alerts!Pending, Alerts!Final, Alerts!Delivery
  <2>6. ASSUME NEW d \in Workers, Alerts!Send(d) \/ Alerts!Unconfigured(d) PROVE alerts'[a].status = alerts[a].status
    BY <2>6 DEF Alerts!Send, Alerts!Unconfigured
  <2>7. ASSUME NEW d \in Workers, Alerts!Finish(d) PROVE alerts'[a].status = alerts[a].status
    BY <2>1, <2>7 DEF Alerts!Finish, Alerts!Answered, Alerts!Final, Alerts!Delivery
  <2>8. CASE Alerts!Redeploy
    BY <2>8 DEF Alerts!Redeploy
  <2> QED BY <2>3, <2>4, <2>5, <2>6, <2>7, <2>8 DEF Alerts!Next, Alerts!Deliver
<1>2. InitOne => Alerts!IInv
  BY AlertStarts DEF InitOne
<1>3. Alerts!IInv /\ [NextOne]_allVars => Alerts!IInv'
  BY AlertStep, AlertsKept
<1> QED BY <1>1, <1>2, <1>3, PTL DEF SpecOne, OutcomesFinal, Alerts!OutcomesFinal
=============================================================================
