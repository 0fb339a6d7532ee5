------------------------------ MODULE Marketplace ------------------------------
(***************************************************************************)
(* Resale on chain: contracts/VoidUnifiedMarketplace.sol, over a token of  *)
(* a factory release and one of the Genesis collection.  Nothing is held   *)
(* for a listing: a sale moves the tokens, then pays the platform, the     *)
(* royalty and the seller.  Whoever is reached may be a contract, which    *)
(* runs before its call returns and may do anything but buy again, and     *)
(* may refuse: then the world is as it was before the sale.                *)
(*                                                                         *)
(* Left out: registries and royalty policy (both tokens are supported and  *)
(* keep the royalty they were created with), chain ids.  What a callback   *)
(* does is steps of its own, between the call and its return.  `listed`,   *)
(* `sold`, `ends`, `paid` are history: what was listed, delivered and      *)
(* paid, and how often the listing ended.                                  *)
(***************************************************************************)
EXTENDS Integers

CONSTANTS
  Accounts,     \* sellers and buyers
  Ids,          \* bound: listings ever made
  Classes,      \* asset classes traded, of "release" and "genesis"
  Copies,       \* copies of each token every account begins with
  Prices,       \* bound: prices per copy
  Amounts,      \* bound: copies listed or bought at once
  Expiries,     \* bound: expiry times, 0 = none
  MaxTime       \* bound: last timestamp

MarketplaceAssumption ==
  /\ Classes \subseteq {"release", "genesis"}
  /\ Copies \in Nat /\ MaxTime \in Nat
  /\ Prices \subseteq Nat \ {0} /\ Amounts \subseteq Nat \ {0} /\ Expiries \subseteq Nat

VARIABLES
  world,  \* storage of the contracts, and the coins that moved
  sale,   \* the buy that has not returned, and what the world was before it
  now     \* block time

vars == <<world, sale, now>>

-----------------------------------------------------------------------------
Payees == {"platform", "royalty", "seller"}
Before == [platform |-> 1, royalty |-> 2, seller |-> 3]  \* the order in which they are paid
NoListing == [seller |-> "nobody", class |-> "none", amount |-> 0, price |-> 0, expires |-> 0, status |-> "NONE",
              listed |-> 0, sold |-> 0, ends |-> 0, paid |-> [p \in Payees |-> 0]]
NoSale == [call |-> "none"]

Init ==
  /\ world = [listings |-> [l \in Ids |-> NoListing],
              tokens |-> [c \in Classes |-> [a \in Accounts |-> Copies]],
              approved |-> [a \in Accounts |-> FALSE],
              till |-> 0]           \* coins this contract holds
  /\ sale = NoSale
  /\ now = 0

Set(w) == world' = w /\ UNCHANGED <<sale, now>>

-----------------------------------------------------------------------------
\* _settlement: what a sale pays, in basis points rounded down; the rest is the seller's.
Bps(price, bps) == (price * bps) \div 10000

Fee(class, price) == IF class = "release" THEN Bps(price, 250) ELSE 0
Royalty(class, price) == Bps(price, IF class = "release" THEN 250 ELSE 500)

Split(class, price) ==
  [platform |-> Fee(class, price), royalty |-> Royalty(class, price),
   seller |-> price - Fee(class, price) - Royalty(class, price)]

-----------------------------------------------------------------------------
\* Listings.

Lapsed(listing) == listing.expires # 0 /\ now > listing.expires

CreateListing(l, a, c, n, price, expires) ==
  /\ world.listings[l] = NoListing
  /\ expires # 0 => now < expires
  /\ world.tokens[c][a] >= n /\ world.approved[a]
  /\ Set([world EXCEPT !.listings[l] =
            [NoListing EXCEPT !.seller = a, !.class = c, !.amount = n, !.price = price,
                              !.expires = expires, !.status = "ACTIVE", !.listed = n]])

\* The listing l of the world w is over.
Ended(w, l, status) == [w EXCEPT !.listings[l].status = status, !.listings[l].ends = @ + 1]

CancelListing(l) == world.listings[l].status = "ACTIVE" /\ Set(Ended(world, l, "CANCELLED"))

ExpireListing(l) ==
  /\ world.listings[l].status = "ACTIVE" /\ Lapsed(world.listings[l])
  /\ Set(Ended(world, l, "EXPIRED"))

-----------------------------------------------------------------------------
\* The tokens and their owners.

Moved(balances, from, to, n) == [balances EXCEPT ![from] = @ - n, ![to] = @ + n]

Transfer(c, from, to, n) ==
  /\ from # to /\ world.tokens[c][from] >= n
  /\ Set([world EXCEPT !.tokens[c] = Moved(@, from, to, n)])

Approve(a, yes) == world.approved[a] # yes /\ Set([world EXCEPT !.approved[a] = yes])

-----------------------------------------------------------------------------
\* Buying.

\* The effects, before any call.
Reduced(w, l, n) ==
  LET left == [w EXCEPT !.listings[l].amount = @ - n] IN
  IF left.listings[l].amount = 0 THEN Ended(left, l, "SOLD") ELSE left

Delivered(w, l, buyer, n) ==
  [w EXCEPT !.tokens[w.listings[l].class] = Moved(@, w.listings[l].seller, buyer, n), !.listings[l].sold = @ + n]

\* safeTransferFrom moves the tokens and calls the buyer.
Buy(l, buyer, n) ==
  LET listing == world.listings[l]
      due == Split(listing.class, listing.price * n)
  IN  /\ sale = NoSale
      /\ listing.status = "ACTIVE" /\ listing.seller # buyer
      /\ ~Lapsed(listing)
      /\ n <= listing.amount
      /\ world.tokens[listing.class][listing.seller] >= n /\ world.approved[listing.seller]
      /\ world' = Delivered(Reduced([world EXCEPT !.till = @ + listing.price * n], l, n), l, buyer, n)
      /\ sale' = [call |-> "deliver", listing |-> l, buyer |-> buyer, due |-> due,
                  owed |-> world.tokens[listing.class][buyer] + n,
                  left |-> {p \in Payees : due[p] # 0}, before |-> world]
      /\ UNCHANGED now

\* The buyer holds what was bought when the delivery returns.
InHand == world.tokens[world.listings[sale.listing].class][sale.buyer] >= sale.owed

Returned == sale # NoSale /\ (sale.call = "deliver" => InHand)

\* A call returns, and the next payee is called with the coins.
Pay ==
  /\ Returned
  /\ \E p \in sale.left :
       /\ \A q \in sale.left : Before[p] <= Before[q]
       /\ world' = [world EXCEPT !.till = @ - sale.due[p], !.listings[sale.listing].paid[p] = @ + sale.due[p]]
       /\ sale' = [sale EXCEPT !.call = p, !.left = @ \ {p}]
  /\ UNCHANGED now

\* The last call returns, and so does the sale.
Settle ==
  /\ Returned /\ sale.left = {}
  /\ sale' = NoSale
  /\ UNCHANGED <<world, now>>

\* Mutant: what a refused sale did stays done.
RefusedKept == world

Refused == sale.before

\* A receiver refuses, or the buyer has moved the tokens on: the sale is undone.
Revert ==
  /\ sale # NoSale
  /\ world' = Refused
  /\ sale' = NoSale
  /\ UNCHANGED now

Tick == sale = NoSale /\ now < MaxTime /\ now' = now + 1 /\ UNCHANGED <<world, sale>>

MarketNext ==
  \/ \E l \in Ids, a \in Accounts, c \in Classes, n \in Amounts, price \in Prices, expires \in Expiries :
       CreateListing(l, a, c, n, price, expires)
  \/ \E l \in Ids : CancelListing(l) \/ ExpireListing(l)
  \/ \E l \in Ids, a \in Accounts, n \in Amounts : Buy(l, a, n)
  \/ \E c \in Classes, a, b \in Accounts, n \in Amounts : Transfer(c, a, b, n)
  \/ \E a \in Accounts, yes \in BOOLEAN : Approve(a, yes)
  \/ Pay \/ Settle \/ Revert \/ Tick

MarketSpec == Init /\ [][MarketNext]_vars

-----------------------------------------------------------------------------
Listed ==
  [seller : Accounts, class : Classes, amount : Nat, price : Nat, expires : Nat,
   status : {"ACTIVE", "SOLD", "CANCELLED", "EXPIRED"}, listed : Nat, sold : Nat, ends : Nat, paid : [Payees -> Nat]]
World ==
  [listings : [Ids -> Listed \cup {NoListing}], tokens : [Classes -> [Accounts -> Nat]], approved : [Accounts -> BOOLEAN], till : Nat]
Sale ==
  [call : {"deliver"} \cup Payees, listing : Ids, buyer : Accounts, due : [Payees -> Nat], owed : Nat,
   left : SUBSET Payees, before : World]

\* Type correctness of the listings, the balances and the sale under way.
MarketTypeOK == world \in World /\ sale \in Sale \cup {NoSale} /\ now \in 0..MaxTime

Balanced(listing, paid) ==
  /\ paid["platform"] + paid["royalty"] + paid["seller"] = listing.price * listing.sold
  /\ listing.amount + listing.sold = listing.listed
  /\ 100 * paid["seller"] >= 95 * (listing.price * listing.sold)
  /\ listing.class = "genesis" => paid["platform"] = 0
  /\ listing.status \in {"NONE", "ACTIVE"} <=> listing.ends = 0
  /\ listing.ends <= 1
  /\ listing.status = "SOLD" <=> listing.listed > 0 /\ listing.amount = 0

(***************************************************************************)
(* Whatever the receivers of a sale did inside it, and whichever of them   *)
(* refused: nothing stays in the contract, what was paid for a listing is  *)
(* the price of the copies delivered and no more copies than were listed,  *)
(* the seller has 95% of it and the platform nothing of Genesis, and a     *)
(* listing has ended once, as SOLD if its last copy was sold.              *)
(***************************************************************************)
SettledIn(w) == w.till = 0 /\ \A l \in Ids : Balanced(w.listings[l], w.listings[l].paid)

SalesSettle == sale = NoSale => SettledIn(world)

(***************************************************************************)
(* Why: inside a sale the contract holds what its payees have still to     *)
(* get (nobody is called for nothing), the books balance once they have    *)
(* it, and the world the sale would be undone to is one between sales.     *)
(***************************************************************************)
Owing(p) == IF sale # NoSale /\ p \in sale.left THEN sale.due[p] ELSE 0

PaidAfter(l) ==
  [p \in Payees |-> world.listings[l].paid[p] + (IF sale # NoSale /\ sale.listing = l THEN Owing(p) ELSE 0)]

MarketIInv ==
  /\ MarketTypeOK
  /\ world.till = Owing("platform") + Owing("royalty") + Owing("seller")
  /\ \A l \in Ids : Balanced(world.listings[l], PaidAfter(l))
  /\ sale # NoSale => SettledIn(sale.before) /\ \A p \in sale.left : sale.due[p] # 0
=============================================================================
