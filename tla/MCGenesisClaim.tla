---------------------------- MODULE MCGenesisClaim ----------------------------
EXTENDS GenesisClaim, TLC

CONSTANTS s1, s2, w1, w2, w3

\* Servers are interchangeable.
Sym == Permutations(Servers)

\* w2 and w3 start with nothing and are interchangeable.
Buyers == Permutations({w2, w3})

\* One claimable unit that can be resold, and a wallet with two of it.
OneSeller == [w \in Wallets |-> [i \in TokenIds |-> IF w = w1 THEN 1 ELSE 0]]
Collection == [w \in Wallets |-> [i \in TokenIds |-> IF w = w1 THEN 2 - i ELSE 0]]

ClosesAt3 == [c \in Contracts |-> 3]
ClosesTwice == [c \in Contracts |-> 1 + 2 * c]
=============================================================================
