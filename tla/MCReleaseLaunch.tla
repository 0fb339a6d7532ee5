--------------------------- MODULE MCReleaseLaunch ---------------------------
EXTENDS ReleaseLaunch, TLC

CONSTANTS a, b, c

Offer(price, max, limit, start, end) ==
  [price |-> price, max |-> max, limit |-> limit, start |-> start, end |-> end, paused |-> FALSE]

\* Wallets are interchangeable.
Sym == Permutations(Accounts)

\* 2.5% of 40 is 1 coin, of 39 it rounds to none.
SaleOffers == {Offer(40, 2, 2, 2, 4), Offer(39, 1, 1, 0, 0)}
CappedOffer == {Offer(40, 2, 2, 1, 5)}
OpenOffer == {Offer(40, 0, 0, 1, 5)}
LaterOffer == {Offer(40, 2, 2, 3, 5)}

ClaimIssuers == Claims \cup {SaleContract, Artist}
OnlySale == {SaleContract}
Minters == Claims \cup {SaleContract}
=============================================================================
