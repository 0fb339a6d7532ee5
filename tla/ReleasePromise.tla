---------------------------- MODULE ReleasePromise ----------------------------
(***************************************************************************)
(* What a release promises its holders, whatever contracts implement it:   *)
(* every copy was paid for, was somebody's one free copy, or is an extra   *)
(* the artist accounts for; none is ever taken back, and the edition never *)
(* exceeds its cap.  One step is one whole transaction.                    *)
(***************************************************************************)
EXTENDS Totals

CONSTANTS
  Wallets,
  Cap  \* 0 for an open edition

VARIABLES
  copies,  \* copies that exist
  paid,    \* copies each wallet paid for
  free,    \* wallets that took their free copy
  extra    \* early-access copies and copies the artist minted

vars == <<copies, paid, free, extra>>

Init ==
  /\ copies = 0
  /\ paid = [w \in Wallets |-> 0]
  /\ free = {}
  /\ extra = 0

Transaction ==
  /\ \A w \in Wallets : paid'[w] >= paid[w]
  /\ free \subseteq free'
  /\ extra' >= extra
  /\ copies' + Total(paid) = copies + Total(paid') + Cardinality(free' \ free) + (extra' - extra)
  /\ Cap # 0 => copies' <= Cap

Spec == Init /\ [][Transaction]_vars
=============================================================================
