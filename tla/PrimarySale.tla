----------------------------- MODULE PrimarySale -----------------------------
(***************************************************************************)
(* VoidPrimarySaleSettled: the sale of one edition, as the storage of the  *)
(* sale contract and each function's checks and effects.  The platform's   *)
(* cut is pushed within the purchase, the artist's is credited and pulled. *)
(*                                                                         *)
(* A sale record holds the terms, `sold`, `bought` per wallet              *)
(* (walletPurchased), `owed` to the payout (balances) and `cash`, the      *)
(* contract's own coins.                                                   *)
(***************************************************************************)
EXTENDS ReleaseEdition

CONSTANTS FeeBps, BpsBase  \* PLATFORM_FEE_BPS and BPS_DENOMINATOR

ASSUME FeeAssumption == FeeBps \in Nat /\ BpsBase \in Nat \ {0} /\ FeeBps <= BpsBase

Terms == [price : Nat, max : Nat, limit : Nat, start : Nat, end : Nat, paused : BOOLEAN]

NoTerms == [price |-> 0, max |-> 0, limit |-> 0, start |-> 0, end |-> 0, paused |-> FALSE]

Sale == [configured : BOOLEAN, terms : Terms, sold : Nat,
         bought : [Accounts -> Nat], owed : Nat, cash : Nat]

NewSale == [configured |-> FALSE, terms |-> NoTerms, sold |-> 0,
            bought |-> [a \in Accounts |-> 0], owed |-> 0, cash |-> 0]

\* Mutant: a new cap is not compared with the copies already sold.
CanConfigureUnsold(s, t, editionCap) ==
  /\ t.price > 0
  /\ IF editionCap = 0
     THEN t.end # 0 /\ (t.max # 0 => t.limit <= t.max)
     ELSE t.max \in 1..editionCap /\ t.limit \in 1..t.max
  /\ t.end # 0 /\ t.start # 0 => t.start <= t.end

(***************************************************************************)
(* configureSale: an open edition (cap 0) needs an end and may leave cap   *)
(* and wallet limit at 0; a capped one needs both, within its cap.         *)
(***************************************************************************)
CanConfigure(s, t, editionCap) ==
  /\ t.price > 0
  /\ IF editionCap = 0
     THEN t.end # 0 /\ (t.max # 0 => t.limit <= t.max)
     ELSE t.max \in 1..editionCap /\ t.limit \in 1..t.max
  /\ t.max # 0 => s.sold <= t.max
  /\ t.end # 0 /\ t.start # 0 => t.start <= t.end

Configured(s, t) == [s EXCEPT !.configured = TRUE, !.terms = t]

\* purchase: the checks before any effect.
CanBuy(s, a, n, now) ==
  /\ s.configured /\ ~s.terms.paused /\ n > 0
  /\ s.terms.start # 0 => s.terms.start <= now
  /\ s.terms.end # 0 => now <= s.terms.end
  /\ s.terms.max # 0 => n <= s.terms.max - s.sold
  /\ s.terms.limit # 0 => s.bought[a] + n <= s.terms.limit

PlatformCut(paid) == (paid * FeeBps) \div BpsBase

\* Mutant: the artist is credited with the whole payment.
BoughtWhole(s, a, n) ==
  LET paid == s.terms.price * n
  IN  [s EXCEPT !.sold = @ + n, !.bought[a] = @ + n, !.cash = @ + paid, !.owed = @ + paid]

\* The payment arrives, the counters move and the artist is credited.
Bought(s, a, n) ==
  LET paid == s.terms.price * n
  IN  [s EXCEPT !.sold = @ + n, !.bought[a] = @ + n,
                !.cash = @ + paid, !.owed = @ + (paid - PlatformCut(paid))]

PlatformPaid(s, cut) == [s EXCEPT !.cash = @ - cut]

\* withdraw zeroes the balance before it sends the coins.
Withdrawn(s) == [s EXCEPT !.owed = 0, !.cash = @ - s.owed]
=============================================================================
