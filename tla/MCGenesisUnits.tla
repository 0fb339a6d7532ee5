---------------------------- MODULE MCGenesisUnits ----------------------------
(***************************************************************************)
(* GenesisClaim from two starts.  Either the second claim contract has     *)
(* just replaced the first, no voucher is out and the bound on time is     *)
(* reached: two token IDs and every kind of transfer.  Or the bound on     *)
(* transfers is reached, two wallets hold a unit each, a first signature   *)
(* was rolled back with its request, the first contract is live and the    *)
(* recovery happens while vouchers are out.                                *)
(***************************************************************************)
EXTENDS MCGenesisClaim

\* w1 burns its unit of token 1 and sends w2 one of its two of token 0.
OneEach == <<[from |-> w1, to |-> Zero, id |-> 1, amount |-> 1],
             [from |-> w1, to |-> w2, id |-> 0, amount |-> 1]>>

InitFrom(transfers, time, contract, signatures) ==
  /\ history = transfers /\ now = time /\ live = contract /\ signed = signatures
  /\ claimedAt = [c \in Contracts |-> [w \in Wallets |-> Never]]
  /\ minted = 0 /\ usedNonces = {}
  /\ rows = [k \in Keys |-> NoRow] /\ vouchers = {}
  /\ lock = NoServer /\ sess = [s \in Servers |-> Idle]

SpecUnits ==
  (InitFrom(<<>>, MaxTime, 2, 0) \/ InitFrom(OneEach, 0, 1, 1)) /\ [][Next]_vars

\* What a recovery ends (see GenesisRecoveryLedger): while every row is of the live
\* contract no unit backs two claims, and the ledger replays.
UnitsBackOneClaim == OneContract => UnitBacksOneClaim /\ LedgerNeverThrows
=============================================================================
