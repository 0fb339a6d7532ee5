----------------------------- MODULE GenesisClaim -----------------------------
(***************************************************************************)
(* Free Genesis claims end to end: the voucher service                     *)
(* (server/genesis-claim.js) with its reservation table                    *)
(* (server/genesis-claim-store.js), several API instances sharing one      *)
(* advisory lock, the claim contract that redeems vouchers, and the        *)
(* Genesis collection whose units change hands meanwhile.                  *)
(*                                                                         *)
(* A request is a transaction under the lock, with a step at every await   *)
(* that reads a chain: time passes, units move and vouchers are redeemed   *)
(* between the steps.  A chain read may be answered by a node up to        *)
(* ReadLag seconds behind.                                                 *)
(*                                                                         *)
(* Left out: signatures (a voucher in `vouchers` carries a valid one), the *)
(* warm-up scan before the lock and the binding check (both only read and  *)
(* may refuse the request), admin pause (it only stops claims).            *)
(***************************************************************************)
EXTENDS GenesisLedger, Integers, Totals

CONSTANTS
  Servers,       \* API instances
  NoServer,      \* the advisory lock is free
  NumContracts,  \* claim contracts deployed one after another (1 = no recovery)
  Closes,        \* Closes[c]: claimEnd of contract c
  Life,          \* VOUCHER_LIFETIME_SECONDS
  Grace,         \* RESERVATION_EXPIRY_GRACE_SECONDS
  ClockSkew,     \* how far an instance's clock is from destination time
  ReadLag,       \* how far behind a destination-chain read may be
  Allocation,    \* claim allocation, 0 = uncapped
  MaxTime,       \* bound: last destination timestamp
  MaxBlocks,     \* bound: Genesis transfers
  Amounts,       \* bound: amounts a transfer may move
  MaxVouchers    \* bound: vouchers ever signed

Contracts == 1..NumContracts

ASSUME ClaimAssumption ==
  /\ NoServer \notin Servers
  /\ NumContracts \in Nat \ {0}
  /\ Closes \in [Contracts -> Nat \ {0}]
  /\ Life \in Nat /\ Grace \in Nat /\ ClockSkew \in Nat /\ ReadLag \in Nat
  /\ Allocation \in Nat
  /\ MaxTime \in Nat /\ MaxBlocks \in Nat /\ MaxVouchers \in Nat
  /\ Amounts \subseteq Nat \ {0}
  /\ ReadLag <= Grace

VARIABLES
  history,    \* Genesis transfers, one per C-Chain block
  now,        \* destination-chain time
  live,       \* the claim contract the service is configured for
  claimedAt,  \* claimedAt[c][w]: when hasClaimed[w] became true on contract c
  minted,     \* copies minted by claims (the release's mintedSupply less sold)
  usedNonces, \* nonces redeemed on chain
  signed,     \* vouchers signed so far; the next one takes a fresh nonce
  rows,       \* genesis_claim_reservations, keyed by contract and wallet
  vouchers,   \* vouchers that reached a wallet
  lock,       \* holder of the advisory lock
  sess        \* sess[s]: the request instance s is serving

vars == <<history, now, live, claimedAt, minted, usedNonces, signed, rows, vouchers, lock, sess>>
chain == <<history, now, live, claimedAt, minted, usedNonces>>
service == <<signed, rows, vouchers, lock, sess>>

-----------------------------------------------------------------------------
Times == 0..MaxTime
Never == MaxTime + 1          \* hasClaimed is still false
HeadBlock == Len(history)
Keys == Contracts \X Wallets
Nonces == 1..MaxVouchers

NoRow == [status |-> "NONE", block |-> 0, unit |-> NoUnit, deadline |-> 0, nonce |-> 0]
Issued == [status : {"PENDING", "REDEEMED", "EXPIRED"}, block : 0..MaxBlocks,
           unit : TokenIds, deadline : Nat, nonce : Nonces]
Row == Issued \cup {NoRow}

Voucher == [contract : Contracts, wallet : Wallets, unit : TokenIds,
            deadline : Nat, nonce : Nonces]

(***************************************************************************)
(* A request: the rows it listed under the lock, the same rows with its    *)
(* own uncommitted updates, the destination time it read, the rows it has  *)
(* still to settle and the overdue ones it found claimed.                  *)
(***************************************************************************)
Session == [step : {"idle", "listed", "settling", "position"},
            op : {"issue", "reconcile"},
            wallet : Wallets \cup {Zero},
            records : [Keys -> Row],
            staged : [Keys -> Row],
            clock : Nat,
            todo : SUBSET Keys,
            confirmed : SUBSET Keys]

Idle == [step |-> "idle", op |-> "reconcile", wallet |-> Zero,
         records |-> [k \in Keys |-> NoRow], staged |-> [k \in Keys |-> NoRow],
         clock |-> 0, todo |-> {}, confirmed |-> {}]

Init ==
  /\ history = <<>>
  /\ now = 0
  /\ live = 1
  /\ claimedAt = [c \in Contracts |-> [w \in Wallets |-> Never]]
  /\ minted = 0
  /\ usedNonces = {}
  /\ signed = 0
  /\ rows = [k \in Keys |-> NoRow]
  /\ vouchers = {}
  /\ lock = NoServer
  /\ sess = [s \in Servers |-> Idle]

-----------------------------------------------------------------------------
\* Reads of the destination chain, answered as of some recent time.

Views == {t \in Times : now - ReadLag <= t /\ t <= now}
\* An instance's own clock() may be off by ClockSkew.
ServerClocks == {t \in 0..(now + ClockSkew) : now - ClockSkew <= t}

HasClaimed(c, w, t) == claimedAt[c][w] <= t
ClaimedSupply(c, t) == Cardinality({w \in Wallets : HasClaimed(c, w, t)})

\* Mutant: a row is overdue from its deadline on, without the grace.
OverdueAtDeadline(row, t) == row.status = "PENDING" /\ row.deadline <= t

\* A PENDING row whose deadline, plus grace, is behind the time that was read.
Overdue(row, t) == row.status = "PENDING" /\ row.deadline + Grace < t

(***************************************************************************)
(* activeReservations: the issuances that still use a unit, seen from the  *)
(* request's listed rows.                                                  *)
(***************************************************************************)
Active(r) ==
  {k \in Keys : \/ r.records[k].status = "REDEEMED"
                \/ r.records[k].status = "PENDING" /\ ~Overdue(r.records[k], r.clock)
                \/ k \in r.confirmed}

Reservations(r) ==
  {[wallet |-> k[2], block |-> r.records[k].block, unit |-> r.records[k].unit,
    contract |-> k[1]] : k \in Active(r)}

\* tx.setStatus(wallet, status): only the row of the configured contract.
SetStatus(table, w, status) ==
  IF table[<<live, w>>].status = "NONE" THEN table
  ELSE [table EXCEPT ![<<live, w>>].status = status]

\* COMMIT: the rows this transaction wrote, over the table as it is now.
Committed(r, table) ==
  [k \in Keys |-> IF table[k] # r.records[k] THEN table[k] ELSE rows[k]]

\* Mutant: the transaction ends without giving the lock back.
FinishHolding(s) ==
  /\ lock' = lock
  /\ sess' = [sess EXCEPT ![s] = Idle]

Finish(s) ==
  /\ lock' = NoServer
  /\ sess' = [sess EXCEPT ![s] = Idle]

-----------------------------------------------------------------------------
\* Mutant: requests do not wait for each other.
BeginUnlocked(s, op, w) ==
  /\ sess[s].step = "idle"
  /\ lock' = s
  /\ sess' = [sess EXCEPT ![s] = [Idle EXCEPT !.step = "listed", !.op = op, !.wallet = w,
                                              !.records = rows, !.staged = rows]]
  /\ UNCHANGED <<chain, signed, rows, vouchers>>

\* The lock is taken and the rows are listed (store.withLock, tx.list).
Begin(s, op, w) ==
  /\ sess[s].step = "idle"
  /\ lock = NoServer
  /\ lock' = s
  /\ sess' = [sess EXCEPT ![s] = [Idle EXCEPT !.step = "listed", !.op = op, !.wallet = w,
                                              !.records = rows, !.staged = rows]]
  /\ UNCHANGED <<chain, signed, rows, vouchers>>

BeginIssue(s, w) ==
  /\ \E clock \in ServerClocks : clock < Closes[live]
  /\ Begin(s, "issue", w)

\* Mutant: reconciliation, like issuance, runs only while the claim window is open.
BeginReconcileInWindow(s) == now < Closes[live] /\ Begin(s, "reconcile", Zero)

BeginReconcile(s) == Begin(s, "reconcile", Zero)

(***************************************************************************)
(* The destination clock is read if any row is PENDING.  An issuance then  *)
(* settles the overdue rows; a reconciliation looks at every PENDING one.  *)
(***************************************************************************)
Clocked(r, t) ==
  LET pending == {k \in Keys : r.records[k].status = "PENDING"}
  IN  [r EXCEPT !.step = "settling",
                !.clock = IF pending = {} THEN 0 ELSE t,
                !.todo = IF r.op = "reconcile" THEN pending
                         ELSE {k \in pending : Overdue(r.records[k], t)}]

ReadClock(s) ==
  /\ sess[s].step = "listed"
  /\ \E t \in Views : sess' = [sess EXCEPT ![s] = Clocked(sess[s], t)]
  /\ UNCHANGED <<chain, signed, rows, vouchers, lock>>

\* Mutant: an overdue row is released without asking hasClaimed.
SettledUnread(r, k, t) ==
  [r EXCEPT !.todo = @ \ {k},
            !.staged = IF Overdue(r.records[k], r.clock)
                       THEN SetStatus(@, k[2], "EXPIRED") ELSE @]

(***************************************************************************)
(* One row is settled from hasClaimed on the configured contract.          *)
(***************************************************************************)
Settled(r, k, t) ==
  LET w == k[2]
      claimed == HasClaimed(live, w, t)
  IN  [r EXCEPT
         !.todo = @ \ {k},
         !.confirmed = IF claimed THEN @ \cup {k} ELSE @,
         !.staged = IF claimed THEN SetStatus(@, w, "REDEEMED")
                    ELSE IF Overdue(r.records[k], r.clock) THEN SetStatus(@, w, "EXPIRED")
                    ELSE @]

Settle(s, k) ==
  /\ sess[s].step = "settling"
  /\ k \in sess[s].todo
  /\ \E t \in Views : sess' = [sess EXCEPT ![s] = Settled(sess[s], k, t)]
  /\ UNCHANGED <<chain, signed, rows, vouchers, lock>>

FinishReconcile(s) ==
  /\ sess[s].step = "settling" /\ sess[s].op = "reconcile" /\ sess[s].todo = {}
  /\ rows' = Committed(sess[s], sess[s].staged)
  /\ Finish(s)
  /\ UNCHANGED <<chain, signed, vouchers>>

\* Mutant: the wallet's own redeemed issuance is not looked at.
OwnUnredeemed(r) == {k \in Active(r) : k[2] = r.wallet /\ r.records[k].status = "PENDING"}

OwnActive(r) == {k \in Active(r) : k[2] = r.wallet}

(***************************************************************************)
(* The wallet already has an unsettled voucher: it gets the same one back  *)
(* (also when the first response was lost), and the settlements commit.    *)
(***************************************************************************)
ReturnOwn(s) ==
  LET r == sess[s]
  IN  /\ r.step = "settling" /\ r.op = "issue" /\ r.todo = {}
      /\ \E t \in Views : ~HasClaimed(live, r.wallet, t)
      /\ \E k \in OwnActive(r) :
           /\ r.records[k].status = "PENDING" /\ k \notin r.confirmed
           /\ vouchers' = vouchers \cup
                {[contract |-> k[1], wallet |-> k[2], unit |-> r.records[k].unit,
                  deadline |-> r.records[k].deadline, nonce |-> r.records[k].nonce]}
      /\ rows' = Committed(r, r.staged)
      /\ Finish(s)
      /\ UNCHANGED <<chain, signed>>

(***************************************************************************)
(* No voucher and no claim yet: go on to the ledger position.  The chain   *)
(* reads of one Promise.all may be answered by different nodes.            *)
(***************************************************************************)
ReadClaimState(s) ==
  LET r == sess[s]
  IN  /\ r.step = "settling" /\ r.op = "issue" /\ r.todo = {}
      /\ \E t \in Views : ~HasClaimed(live, r.wallet, t)
      /\ OwnActive(r) = {}
      /\ \E t \in Views : Allocation = 0 \/ ClaimedSupply(live, t) < Allocation
      /\ sess' = [sess EXCEPT ![s] = [r EXCEPT !.step = "position"]]
      /\ UNCHANGED <<chain, signed, rows, vouchers, lock>>

\* The ledger adds up and leaves the wallet an unused unit.
Eligible(balance, used) ==
  LedgerConsistent(balance, used) /\ UnitToUse(balance, used) \in TokenIds

(***************************************************************************)
(* ledgerPosition at a C-Chain head the provider reports, no earlier than  *)
(* the newest active issuance, then the signed voucher and its row in one  *)
(* commit.  The response may be lost after the commit.                     *)
(***************************************************************************)
Issue(s) ==
  LET r == sess[s]
      key == <<live, r.wallet>>
      reservations == Reservations(r)
  IN  /\ r.step = "position"
      /\ \E through \in 0..HeadBlock, clock \in ServerClocks :
           LET used == ReplayUsedUnits(reservations, history, through)[r.wallet]
               balance == BalancesAt(history, through)[r.wallet]
               unit == UnitToUse(balance, used)
               deadline == Lesser(clock + Life, Closes[live] - 1)
               nonce == signed + 1
           IN  /\ \A res \in reservations : res.block <= through
               /\ Eligible(balance, used)
               /\ nonce \in Nonces
               /\ signed' = nonce
               /\ rows' = Committed(r, [r.staged EXCEPT ![key] =
                      [status |-> "PENDING", block |-> through, unit |-> unit,
                       deadline |-> deadline, nonce |-> nonce]])
               /\ \/ vouchers' = vouchers \cup
                       {[contract |-> live, wallet |-> r.wallet, unit |-> unit,
                         deadline |-> deadline, nonce |-> nonce]}
                  \/ UNCHANGED vouchers
      /\ Finish(s)
      /\ UNCHANGED chain

(***************************************************************************)
(* Every refusal and failure rolls the transaction back: a claimed wallet, *)
(* no unused unit, a failed or lagging read, a dead process or connection. *)
(***************************************************************************)
Abort(s) ==
  /\ sess[s].step # "idle"
  /\ Finish(s)
  /\ UNCHANGED <<chain, signed, rows, vouchers>>

-----------------------------------------------------------------------------
\* The chains.

\* Mutant: the claim does not compare minted with its own count of claims.
ClaimUnaccounted(v) ==
  LET c == v.contract
      w == v.wallet
  IN  /\ now < Closes[c]
      /\ now <= v.deadline
      /\ claimedAt[c][w] = Never
      /\ v.nonce \notin usedNonces
      /\ Allocation = 0 \/ ClaimedSupply(c, now) < Allocation
      /\ Holds(BalancesAt(history, HeadBlock)[w])
      /\ claimedAt' = [claimedAt EXCEPT ![c][w] = now]
      /\ usedNonces' = usedNonces \cup {v.nonce}
      /\ minted' = minted + 1
      /\ UNCHANGED <<history, now, live, service>>

Claim(v) ==
  LET c == v.contract
      w == v.wallet
  IN  /\ now < Closes[c]
      /\ now <= v.deadline
      /\ claimedAt[c][w] = Never
      /\ v.nonce \notin usedNonces
      /\ Allocation = 0 \/ ClaimedSupply(c, now) < Allocation
      /\ minted = ClaimedSupply(c, now)            \* _assertPublicAllocation
      /\ Holds(BalancesAt(history, HeadBlock)[w])       \* _assertGenesisHolder
      /\ claimedAt' = [claimedAt EXCEPT ![c][w] = now]
      /\ usedNonces' = usedNonces \cup {v.nonce}
      /\ minted' = minted + 1
      /\ UNCHANGED <<history, now, live, service>>

Transfer(t) ==
  /\ HeadBlock < MaxBlocks
  /\ t.from # Zero => t.amount <= BalancesAt(history, HeadBlock)[t.from][t.id]
  /\ t.from # t.to
  /\ history' = Append(history, t)
  /\ UNCHANGED <<now, live, claimedAt, minted, usedNonces, service>>

Tick ==
  /\ now < MaxTime
  /\ now' = now + 1
  /\ UNCHANGED <<history, live, claimedAt, minted, usedNonces, service>>

(***************************************************************************)
(* A recovery contract replaces the live one.  Its constructor takes the   *)
(* wallets that already claimed and requires their number to account for   *)
(* every claim mint; the service restarts with the new address.            *)
(***************************************************************************)
DeployRecovery ==
  /\ live < NumContracts
  /\ minted = ClaimedSupply(live, now)
  /\ live' = live + 1
  /\ claimedAt' = [claimedAt EXCEPT ![live + 1] = claimedAt[live]]
  /\ lock' = NoServer
  /\ sess' = [s \in Servers |-> Idle]
  /\ UNCHANGED <<history, now, minted, usedNonces, signed, rows, vouchers>>

Request(s) ==
  \/ \E w \in Wallets : BeginIssue(s, w)
  \/ BeginReconcile(s)

Proceed(s) ==
  \/ ReadClock(s)
  \/ \E k \in Keys : Settle(s, k)
  \/ FinishReconcile(s)
  \/ ReturnOwn(s)
  \/ ReadClaimState(s)
  \/ Issue(s)
  \/ Abort(s)

Next ==
  \/ \E s \in Servers : Request(s) \/ Proceed(s)
  \/ \E v \in vouchers : Claim(v)
  \/ \E t \in Transfers(Amounts) : Transfer(t)
  \/ Tick
  \/ DeployRecovery

Spec == Init /\ [][Next]_vars

(***************************************************************************)
(* Fairness.  Destination time advances, and every await of a request ends *)
(* (each read has a deadline), if only by failing.  The reconciliation     *)
(* script is run again until a run is not interrupted.                     *)
(***************************************************************************)
Interrupted == \E s \in Servers : sess[s].op = "reconcile" /\ Abort(s)

Fairness ==
  /\ WF_vars(Tick)
  /\ \A s \in Servers : WF_vars(Proceed(s)) /\ SF_vars(BeginReconcile(s))
  /\ <>[][~Interrupted]_vars

FairSpec == Spec /\ Fairness

-----------------------------------------------------------------------------
\* Properties.

TypeOK ==
  /\ history \in Seq(Transfers(Amounts)) /\ HeadBlock <= MaxBlocks
  /\ now \in Times
  /\ live \in Contracts
  /\ claimedAt \in [Contracts -> [Wallets -> Times \cup {Never}]]
  /\ minted \in Nat
  /\ usedNonces \subseteq Nonces
  /\ signed \in 0..MaxVouchers
  /\ rows \in [Keys -> Row]
  /\ vouchers \subseteq Voucher
  /\ lock \in Servers \cup {NoServer}
  /\ sess \in [Servers -> Session]
  /\ \A s \in Servers : sess[s].op = "issue" => sess[s].wallet \in Wallets
  /\ \A s \in Servers : sess[s].step = "position" => sess[s].op = "issue"

\* A voucher that was redeemed, or that its contract would still accept.
Redeemable(v) ==
  /\ now <= v.deadline
  /\ claimedAt[v.contract][v.wallet] = Never
  /\ minted = ClaimedSupply(v.contract, now)

Standing(v) == v.nonce \in usedNonces \/ Redeemable(v)

UnitsEver(i) ==
  LET minting == {b \in 1..HeadBlock : history[b].from = Zero /\ history[b].id = i}
  IN  Total([w \in Wallets |-> InitialUnits[w][i]]) + Total([b \in minting |-> history[b].amount])

(***************************************************************************)
(* "Each unit can therefore back at most one free claim": per token ID,    *)
(* the wallets with a voucher redeemed or still redeemable never outnumber *)
(* the units that ever existed, however units are resold between requests. *)
(***************************************************************************)
UnitBacksOneClaim ==
  \A i \in TokenIds :
    Cardinality({v.wallet : v \in {u \in vouchers : u.unit = i /\ Standing(u)}}) <= UnitsEver(i)

(***************************************************************************)
(* The same promise counted over claims that were minted: no token ID has  *)
(* more redeemed vouchers than units.                                      *)
(***************************************************************************)
ClaimsWithinUnits ==
  \A i \in TokenIds :
    Cardinality({v \in vouchers : v.unit = i /\ v.nonce \in usedNonces}) <= UnitsEver(i)

(***************************************************************************)
(* The unit of a voucher that was redeemed or can still be redeemed is     *)
(* never released: its wallet's row still carries its nonce and is not     *)
(* EXPIRED.                                                                *)
(***************************************************************************)
StandingVoucherReserved ==
  \A v \in vouchers : Standing(v) =>
    LET row == rows[<<v.contract, v.wallet>>]
    IN  row.nonce = v.nonce /\ row.status \in {"PENDING", "REDEEMED"}

(***************************************************************************)
(* A row is settled REDEEMED only for a claim that happened, and EXPIRED   *)
(* only for a voucher that never was redeemed.                             *)
(***************************************************************************)
SettledTruthfully ==
  \A k \in Keys :
    /\ rows[k].status = "REDEEMED" => rows[k].nonce \in usedNonces
    /\ rows[k].status = "EXPIRED" => rows[k].nonce \notin usedNonces

\* The reservations these rows stand for.
RowReservations(keys) ==
  {[wallet |-> k[2], block |-> rows[k].block, unit |-> rows[k].unit, contract |-> k[1]] : k \in keys}

Reserving(row) == row.status = "REDEEMED" \/ (row.status = "PENDING" /\ ~Overdue(row, now))

(***************************************************************************)
(* The replay never counts more used units than a wallet holds, so the     *)
(* ledger's fail-closed check ("history is incomplete") is never what      *)
(* refuses a holder: at no block does an unsettled table make it throw.    *)
(***************************************************************************)
LedgerNeverThrows ==
  LET reservations == RowReservations({k \in Keys : Reserving(rows[k])})
  IN  \A w \in Wallets :
        LedgerConsistent(BalancesAt(history, HeadBlock)[w],
                         ReplayUsedUnits(reservations, history, HeadBlock)[w])

(***************************************************************************)
(* No wallet mints two free copies, also across a recovery: the claim      *)
(* mints are exactly the wallets some contract recorded.                   *)
(***************************************************************************)
OneClaimPerWallet ==
  minted = Cardinality({w \in Wallets : \E c \in Contracts : claimedAt[c][w] # Never})

(***************************************************************************)
(* REDEEMED is final, and an EXPIRED row only ever becomes a fresh voucher.*)
(***************************************************************************)
SettlementIsFinal ==
  [][\A k \in Keys :
       /\ rows[k].status = "REDEEMED" => rows'[k] = rows[k]
       /\ rows[k].status = "EXPIRED" /\ rows'[k] # rows[k] =>
            rows'[k].status = "PENDING" /\ rows'[k].nonce > signed]_rows

-----------------------------------------------------------------------------
(***************************************************************************)
(* The inductive invariant behind StandingVoucherReserved, SettledTruth-   *)
(* fully and UnitBacksOneClaim.  It holds until a recovery leaves rows of  *)
(* an earlier contract behind, so always when NumContracts = 1.            *)
(***************************************************************************)
OneContract == \A k \in Keys : rows[k].status # "NONE" => k[1] = live

RowOf(w) == rows[<<live, w>>]

\* Nothing can redeem this row's voucher any more, and nothing did.
Dead(row) == row.deadline < now /\ row.nonce \notin usedNonces

\* A nonce names one voucher, of one wallet, and the row it was issued in.
NoncesUnique ==
  /\ \A k \in Keys : rows[k].nonce <= signed
  /\ \A v \in vouchers : v.nonce <= signed
  /\ \A u, v \in vouchers : u.nonce = v.nonce => u = v
  /\ \A v \in vouchers, k \in Keys :
       rows[k].nonce = v.nonce =>
         /\ k = <<v.contract, v.wallet>>
         /\ rows[k].deadline = v.deadline /\ rows[k].unit = v.unit
  /\ \A k, j \in Keys : rows[k].nonce = rows[j].nonce /\ rows[k].nonce # 0 => k = j
  /\ \A k \in Keys : rows[k].status = "NONE" => rows[k].nonce = 0

\* A redeemed nonce is the row's nonce and was redeemed by its deadline.
ClaimsInTime ==
  /\ \A n \in usedNonces : \E v \in vouchers : v.nonce = n
  /\ \A v \in vouchers : v.nonce \in usedNonces => claimedAt[live][v.wallet] <= v.deadline
  /\ \A w \in Wallets : claimedAt[live][w] # Never =>
                          claimedAt[live][w] <= now /\ RowOf(w).nonce \in usedNonces

\* A voucher its wallet's row no longer carries, and an EXPIRED row's, is dead.
ReleasedAreDead ==
  /\ \A v \in vouchers : RowOf(v.wallet).nonce # v.nonce =>
                           v.deadline < now /\ v.nonce \notin usedNonces
  /\ \A k \in Keys : rows[k].status = "EXPIRED" => Dead(rows[k])
  /\ \A k \in Keys : rows[k].status = "REDEEMED" => rows[k].nonce \in usedNonces

\* What a request under the lock has read and staged is still so.
Staged(r, k) ==
  \/ r.staged[k] = r.records[k]
  \/ /\ r.staged[k] = [r.records[k] EXCEPT !.status = "REDEEMED"]
     /\ r.records[k].nonce \in usedNonces
  \/ /\ r.staged[k] = [r.records[k] EXCEPT !.status = "EXPIRED"]
     /\ Dead(r.records[k])

SessionSound(r) ==
  /\ r.records = rows
  /\ r.clock <= now
  /\ \A k \in r.todo : r.records[k].status = "PENDING"
  /\ r.step = "listed" => r.staged = r.records /\ r.confirmed = {}
  /\ r.step \in {"settling", "position"} =>
       /\ \A k \in Keys : Staged(r, k)
       /\ \A k \in r.confirmed : r.records[k].nonce \in usedNonces
       /\ r.op = "issue" =>
            \A k \in Keys : Overdue(r.records[k], r.clock) /\ k \notin r.todo \cup r.confirmed =>
                              Dead(r.records[k])
  /\ r.step = "position" =>
       r.todo = {} /\ <<live, r.wallet>> \notin Active(r)

SessionsSound ==
  \A s \in Servers : sess[s].step # "idle" => lock = s /\ SessionSound(sess[s])

(***************************************************************************)
(* Every reservation a request decides from is the committed one, every    *)
(* released voucher is past redeeming, and every claim found its row.      *)
(***************************************************************************)
RowsSound == NoncesUnique /\ ClaimsInTime /\ ReleasedAreDead /\ SessionsSound

Reserved == RowReservations({k \in Keys : rows[k].status \in {"PENDING", "REDEEMED"}})

RowsBehindHead == \A k \in Keys : rows[k].block <= HeadBlock

HistoryLegal ==
  \A b \in 1..HeadBlock :
    /\ history[b].from # history[b].to
    /\ history[b].from # Zero =>
         history[b].amount <= BalancesAt(history, b - 1)[history[b].from][history[b].id]

\* At no block do the units the rows use outgrow the balances.
LedgerReplays ==
  \A b \in 0..HeadBlock, w \in Wallets :
    LedgerConsistent(BalancesAt(history, b)[w], ReplayUsedUnits(Reserved, history, b)[w])

\* An issuance still counts every row it has settled, unless it released it.
StillCounted(r) ==
  r.step \in {"settling", "position"} /\ r.op = "issue" =>
    \A k \in Keys \ r.todo : r.staged[k].status \in {"PENDING", "REDEEMED"} => k \in Active(r)

(***************************************************************************)
(* The units behind the rows are there at every block, and an issuance     *)
(* decides from all of them.                                               *)
(***************************************************************************)
UnitsKept ==
  /\ RowsBehindHead
  /\ HistoryLegal
  /\ LedgerReplays
  /\ \A s \in Servers : StillCounted(sess[s])

IInv == RowsSound /\ UnitsKept

(***************************************************************************)
(* No request keeps the advisory lock: issuance never stops for good.      *)
(***************************************************************************)
LockReleased == \A s \in Servers : lock = s ~> lock # s

(***************************************************************************)
(* No voucher's row stays PENDING for good once the reconciliation runs,   *)
(* also after the claim window closed and issuance stopped settling rows.  *)
(***************************************************************************)
PendingSettles == \A k \in Keys : rows[k].status = "PENDING" ~> rows[k].status # "PENDING"
=============================================================================
