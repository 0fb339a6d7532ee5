----------------------------- MODULE GenesisLedger -----------------------------
(***************************************************************************)
(* The used-unit ledger of the Genesis claim (genesis-claim-ledger.js), as *)
(* pure operators over a Genesis transfer history.                         *)
(*                                                                         *)
(* Genesis is a fungible ERC-1155: a unit has no identity, so the service  *)
(* derives which units already backed a free claim by replaying voucher    *)
(* issuances ("reservations") against the transfers.  A history is a       *)
(* sequence with one transfer per block; block numbers are its indices and *)
(* block 0 is the state before it.  A reservation is a record with fields  *)
(* wallet, block and unit (the token ID it uses).                          *)
(***************************************************************************)
EXTENDS Naturals, Sequences, FiniteSets

CONSTANTS
  Wallets,       \* accounts that hold Genesis units and ask for vouchers
  Zero,          \* the zero address: source of a mint, sink of a burn
  NoUnit,        \* unitToUse found nothing (null)
  TokenIds,      \* the Genesis token IDs 0..3 that qualify
  InitialUnits   \* InitialUnits[w][i]: units of i held by w at block 0

ASSUME LedgerAssumption ==
  /\ Zero \notin Wallets
  /\ IsFiniteSet(Wallets)
  /\ TokenIds \subseteq Nat /\ NoUnit \notin TokenIds
  /\ InitialUnits \in [Wallets -> [TokenIds -> Nat]]

Transfers(amounts) ==
  [from : Wallets \cup {Zero}, to : Wallets \cup {Zero}, id : TokenIds, amount : amounts]

Lesser(a, b) == IF a < b THEN a ELSE b

(***************************************************************************)
(* Moves `amount` of the transfer's units between two accounts.  The zero  *)
(* address keeps no count on either side.                                  *)
(***************************************************************************)
Shift(units, t, amount) ==
  LET sent == IF t.from = Zero THEN units
              ELSE [units EXCEPT ![t.from][t.id] = @ - amount]
  IN  IF t.to = Zero THEN sent
      ELSE [sent EXCEPT ![t.to][t.id] = @ + amount]

(***************************************************************************)
(* Balances of every wallet after block b: what balanceOf answers when it  *)
(* is called at that block.                                                *)
(***************************************************************************)
BalancesAt(history, b) ==
  LET held[n \in 0..Len(history)] ==
        IF n = 0 THEN InitialUnits
        ELSE Shift(held[n - 1], history[n], history[n].amount)
  IN  held[b]

\* Mutant: used units stay with the sender when units are sent on.
MoveUsedStays(used, t) == used

(***************************************************************************)
(* One transfer as the ledger sees it: the sender's used units of that ID  *)
(* travel first; a mint moves none and a burn drops those it takes.        *)
(***************************************************************************)
MoveUsed(used, t) ==
  IF t.from = Zero THEN used
  ELSE Shift(used, t, Lesser(used[t.from][t.id], t.amount))

Reserve(used, reservations, b) ==
  [w \in Wallets |-> [i \in TokenIds |->
     used[w][i] + Cardinality({r \in reservations :
                                 r.block = b /\ r.wallet = w /\ r.unit = i})]]

(***************************************************************************)
(* Used units per wallet and ID after block `through`: a reservation at    *)
(* block b counts after every transfer in blocks <= b, because its         *)
(* eligibility was read at b.                                              *)
(***************************************************************************)
ReplayUsedUnits(reservations, history, through) ==
  LET nothing == [w \in Wallets |-> [i \in TokenIds |-> 0]]
      used[n \in 0..Len(history)] ==
        IF n = 0 THEN Reserve(nothing, reservations, 0)
        ELSE Reserve(MoveUsed(used[n - 1], history[n]), reservations, n)
  IN  used[through]

(***************************************************************************)
(* unusedUnits throws when the ledger counts more used units of an ID than *)
(* the wallet holds; the request then fails closed.                        *)
(***************************************************************************)
LedgerConsistent(balance, used) == \A i \in TokenIds : used[i] <= balance[i]

(***************************************************************************)
(* The unit a new claim uses: the lowest ID with an unused unit.           *)
(***************************************************************************)
UnitToUse(balance, used) ==
  LET unused == {i \in TokenIds : used[i] < balance[i]}
  IN  IF unused = {} THEN NoUnit
      ELSE CHOOSE i \in unused : \A j \in unused : i <= j

Holds(balance) == \E i \in TokenIds : balance[i] > 0
=============================================================================
