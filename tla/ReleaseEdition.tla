---------------------------- MODULE ReleaseEdition ----------------------------
(***************************************************************************)
(* One edition of a release token contract (VoidCollection1155 and its     *)
(* V6Sequential subclass): the storage a mint or a transfer reads and      *)
(* writes, as a record, with each function's checks and effects.           *)
(*                                                                         *)
(* An edition record has the fields                                        *)
(*   maxSupply  0 for an open edition         balance  copies per account  *)
(*   minted     mintedSupply                  issuers  ISSUER_ROLE holders *)
(*   mintEnd    0 for no deadline             paused   the contract is     *)
(*                                                     paused              *)
(***************************************************************************)
EXTENDS Naturals

CONSTANTS
  Accounts,  \* wallets and contracts that may own copies
  Issuers    \* accounts that can be given ISSUER_ROLE

Edition == [maxSupply : Nat, minted : Nat, mintEnd : Nat,
            balance : [Accounts -> Nat], issuers : SUBSET Issuers, paused : BOOLEAN]

NewEdition(maxSupply, mintEnd, issuers) ==
  [maxSupply |-> maxSupply, minted |-> 0, mintEnd |-> mintEnd,
   balance |-> [a \in Accounts |-> 0], issuers |-> issuers, paused |-> FALSE]

\* The checks of mint and _consumeSupply.
CanMint(e, issuer, n, now) ==
  /\ issuer \in e.issuers /\ ~e.paused /\ n > 0
  /\ e.mintEnd = 0 \/ now <= e.mintEnd
  /\ e.maxSupply = 0 \/ e.minted + n <= e.maxSupply

Minted(e, to, n) == [e EXCEPT !.minted = @ + n, !.balance[to] = @ + n]

\* safeTransferFrom by the owner; an approved operator moves the same copies.
CanTransfer(e, from, n) == ~e.paused /\ n <= e.balance[from]

\* Mutant: the recipient's new balance is computed before the sender's is written.
TransferredStale(e, from, to, n) ==
  [e EXCEPT !.balance = [e.balance EXCEPT ![from] = @ - n, ![to] = e.balance[to] + n]]

Transferred(e, from, to, n) ==
  [e EXCEPT !.balance = [[e.balance EXCEPT ![from] = @ - n] EXCEPT ![to] = @ + n]]
=============================================================================
