----------------------------- MODULE MarketProofs -----------------------------
(***************************************************************************)
(* Proofs about Marketplace and Resale as MCRequests runs them: that the   *)
(* contract's books hold through every sale, and that the database mirrors *)
(* the marketplace while two passes write it, for every value of the       *)
(* constants.                                                              *)
(***************************************************************************)
EXTENDS MCRequests, Sequences, FiniteSetTheorems, TLAPS

-----------------------------------------------------------------------------
(***************************************************************************)
(* Marketplace.  Sound says of a world, the sale in flight and the time    *)
(* what MarketIInv says of the state.                                      *)
(***************************************************************************)
LEMMA ShopStep ==
  part = "shop" /\ [NextOne]_allVars => part' = "shop" /\ [Shop!MarketNext]_(Shop!vars)
BY DEF NextOne, Steps, allVars, vVars, Shop!vars

\* Rounding down never gives the platform or the royalty more than their share.
LEMMA BpsRoundDown ==
  ASSUME NEW price \in Nat
  PROVE  /\ Shop!Bps(price, 250) \in Nat /\ 10000 * Shop!Bps(price, 250) <= 250 * price
         /\ Shop!Bps(price, 500) \in Nat /\ 10000 * Shop!Bps(price, 500) <= 500 * price
BY DEF Shop!Bps

LEMMA SplitSums ==
  ASSUME NEW class, NEW price \in Nat
  PROVE  LET due == Shop!Split(class, price) IN
         /\ due \in [Shop!Payees -> Nat]
         /\ due["platform"] + due["royalty"] + due["seller"] = price
         /\ 100 * due["seller"] >= 95 * price
         /\ class = "genesis" => due["platform"] = 0
<1> DEFINE fee == Shop!Fee(class, price)
           royalty == Shop!Royalty(class, price)
           due == Shop!Split(class, price)
<1>1. /\ fee \in Nat /\ royalty \in Nat /\ 10000 * (fee + royalty) <= 500 * price
      /\ class = "genesis" => fee = 0
  <2>1. CASE class = "release"
    BY <2>1, BpsRoundDown DEF Shop!Fee, Shop!Royalty
  <2>2. CASE class # "release"
    BY <2>2, BpsRoundDown DEF Shop!Fee, Shop!Royalty
  <2> QED BY <2>1, <2>2
<1> HIDE DEF fee, royalty
<1>2. price - fee - royalty \in Nat /\ 100 * (price - fee - royalty) >= 95 * price
  BY <1>1
<1>3. due = [platform |-> fee, royalty |-> royalty, seller |-> price - fee - royalty]
  BY DEF Shop!Split, fee, royalty
<1> HIDE DEF due
<1>4. due["platform"] = fee /\ due["royalty"] = royalty /\ due["seller"] = price - fee - royalty
  BY <1>3
<1>5. due = [p \in Shop!Payees |-> CASE p = "platform" -> fee [] p = "royalty" -> royalty [] OTHER -> price - fee - royalty]
  BY <1>3 DEF Shop!Payees
<1> QED BY <1>1, <1>2, <1>4, <1>5 DEF due

LEMMA Products ==
  /\ \A a, b, c \in Nat : a * (b + c) = a * b + a * c /\ a * b \in Nat
  /\ \A a \in Nat : a * 0 = 0
OBVIOUS

\* One listing of a world is written.
LEMMA WorldWith ==
  ASSUME NEW w \in Shop!World, NEW l \in Listings, NEW x \in Shop!Listed
  PROVE  LET v == [w EXCEPT !.listings[l] = x] IN
         /\ v \in Shop!World /\ v.listings[l] = x /\ (\A k \in Listings : k # l => v.listings[k] = w.listings[k])
         /\ v.till = w.till /\ v.tokens = w.tokens /\ v.approved = w.approved
BY DEF Shop!World

LEMMA TokensWith ==
  ASSUME NEW w \in Shop!World, NEW tokens \in [{"release", "genesis"} -> [Wallets -> Nat]]
  PROVE  LET v == [w EXCEPT !.tokens = tokens] IN
         v \in Shop!World /\ v.listings = w.listings /\ v.till = w.till /\ v.tokens = tokens
BY DEF Shop!World

LEMMA EndedWith ==
  \A x \in Shop!Listed, status \in {"SOLD", "CANCELLED", "EXPIRED"} :
    LET y == [x EXCEPT !.status = status, !.ends = x.ends + 1] IN
    /\ y \in Shop!Listed /\ y.status = status /\ y.ends = x.ends + 1 /\ y.amount = x.amount /\ y.sold = x.sold
    /\ y.listed = x.listed /\ y.price = x.price /\ y.class = x.class /\ y.paid = x.paid /\ y.seller = x.seller
<1> SUFFICES ASSUME NEW x \in Shop!Listed, NEW status \in {"SOLD", "CANCELLED", "EXPIRED"}
             PROVE  LET y == [x EXCEPT !.status = status, !.ends = x.ends + 1] IN
                    /\ y \in Shop!Listed /\ y.status = status /\ y.ends = x.ends + 1 /\ y.amount = x.amount /\ y.sold = x.sold
                    /\ y.listed = x.listed /\ y.price = x.price /\ y.class = x.class /\ y.paid = x.paid /\ y.seller = x.seller
  OBVIOUS
<1>1. x.ends + 1 \in Nat
  BY DEF Shop!Listed
<1> DEFINE y == [x EXCEPT !.status = status, !.ends = x.ends + 1]
<1>2. y \in Shop!Listed
  BY <1>1 DEF Shop!Listed
<1>3. /\ y.status = status /\ y.ends = x.ends + 1 /\ y.amount = x.amount /\ y.sold = x.sold
      /\ y.listed = x.listed /\ y.price = x.price /\ y.class = x.class /\ y.paid = x.paid /\ y.seller = x.seller
  BY DEF Shop!Listed
<1> QED BY <1>2, <1>3

LEMMA AmountWith ==
  \A x \in Shop!Listed, n \in Nat :
    LET y == [x EXCEPT !.amount = n] IN
    /\ y \in Shop!Listed /\ y.amount = n /\ y.sold = x.sold /\ y.status = x.status /\ y.ends = x.ends
    /\ y.listed = x.listed /\ y.price = x.price /\ y.class = x.class /\ y.paid = x.paid /\ y.seller = x.seller
BY DEF Shop!Listed

LEMMA SoldWith ==
  \A x \in Shop!Listed, n \in Nat :
    LET y == [x EXCEPT !.sold = n] IN
    /\ y \in Shop!Listed /\ y.amount = x.amount /\ y.sold = n /\ y.status = x.status /\ y.ends = x.ends
    /\ y.listed = x.listed /\ y.price = x.price /\ y.class = x.class /\ y.paid = x.paid /\ y.seller = x.seller
BY DEF Shop!Listed

LEMMA PaidWith ==
  \A x \in Shop!Listed, paid \in [Shop!Payees -> Nat] :
    LET y == [x EXCEPT !.paid = paid] IN
    /\ y \in Shop!Listed /\ y.amount = x.amount /\ y.sold = x.sold /\ y.status = x.status /\ y.ends = x.ends
    /\ y.listed = x.listed /\ y.price = x.price /\ y.class = x.class /\ y.paid = paid /\ y.seller = x.seller
BY DEF Shop!Listed

\* A listing ends.
EndOf(v, w, l, status) ==
  LET x == w.listings[l]
      y == v.listings[l]
  IN  /\ v \in Shop!World /\ y \in Shop!Listed /\ (\A k \in Listings : k # l => v.listings[k] = w.listings[k])
      /\ v.till = w.till /\ v.tokens = w.tokens
      /\ y.status = status /\ y.ends = x.ends + 1 /\ y.amount = x.amount /\ y.sold = x.sold
      /\ y.listed = x.listed /\ y.price = x.price /\ y.class = x.class /\ y.paid = x.paid /\ y.seller = x.seller

LEMMA EndedWorld ==
  ASSUME NEW w \in Shop!World, NEW l \in Listings, w.listings[l] \in Shop!Listed,
         NEW status \in {"SOLD", "CANCELLED", "EXPIRED"}
  PROVE  EndOf(Shop!Ended(w, l, status), w, l, status)
<1> DEFINE x == w.listings[l]
           y == [x EXCEPT !.status = status, !.ends = x.ends + 1]
           v == Shop!Ended(w, l, status)
<1>1. v = [w EXCEPT !.listings[l] = y]
  BY DEF Shop!Ended, Shop!World
<1> HIDE DEF v
<1>2. /\ y \in Shop!Listed /\ y.status = status /\ y.ends = x.ends + 1 /\ y.amount = x.amount /\ y.sold = x.sold
      /\ y.listed = x.listed /\ y.price = x.price /\ y.class = x.class /\ y.paid = x.paid /\ y.seller = x.seller
  BY EndedWith
<1> HIDE DEF y
<1>3. /\ v \in Shop!World /\ v.listings[l] = y /\ (\A k \in Listings : k # l => v.listings[k] = w.listings[k])
      /\ v.till = w.till /\ v.tokens = w.tokens
  BY <1>1, <1>2, WorldWith
<1> QED BY <1>2, <1>3 DEF v, EndOf

\* Tokens change hands.
LEMMA MovedTokens ==
  ASSUME NEW balances \in [Wallets -> Nat], NEW from \in Wallets, NEW to \in Wallets, from # to,
         NEW n \in Nat, balances[from] >= n
  PROVE  Shop!Moved(balances, from, to, n) \in [Wallets -> Nat]
<1>1. balances[from] - n \in Nat /\ balances[to] + n \in Nat
  OBVIOUS
<1> QED BY <1>1 DEF Shop!Moved

\* What buying n copies of the listing l makes of the world.
Bought(v, w, l, n) ==
  LET x == w.listings[l]
      y == v.listings[l]
  IN  /\ v \in Shop!World /\ y \in Shop!Listed /\ (\A k \in Listings : k # l => v.listings[k] = w.listings[k])
      /\ v.till = w.till
      /\ y.amount = x.amount - n /\ y.sold = x.sold + n /\ y.listed = x.listed /\ y.price = x.price
      /\ y.class = x.class /\ y.paid = x.paid
      /\ IF y.amount = 0 THEN y.status = "SOLD" /\ y.ends = x.ends + 1 ELSE y.status = x.status /\ y.ends = x.ends

LEMMA BoughtWorld ==
  ASSUME NEW w \in Shop!World, NEW l \in Listings, w.listings[l] \in Shop!Listed, NEW buyer \in Wallets, NEW n \in Nat,
         w.listings[l].seller # buyer, w.listings[l].amount >= n, w.tokens[w.listings[l].class][w.listings[l].seller] >= n
  PROVE  Bought(Shop!Delivered(Shop!Reduced(w, l, n), l, buyer, n), w, l, n)
<1> DEFINE x == w.listings[l]
           left == x.amount - n
           xa == [x EXCEPT !.amount = left]
           wa == [w EXCEPT !.listings[l] = xa]
           wb == Shop!Reduced(w, l, n)
           xb == wb.listings[l]
<1>1. x.amount \in Nat /\ x.sold \in Nat /\ x.ends \in Nat /\ x.class \in {"release", "genesis"} /\ x.seller \in Wallets
  BY DEF Shop!Listed
<1>2. /\ xa \in Shop!Listed /\ xa.amount = x.amount - n /\ xa.sold = x.sold /\ xa.listed = x.listed /\ xa.price = x.price
      /\ xa.class = x.class /\ xa.paid = x.paid /\ xa.seller = x.seller /\ xa.status = x.status /\ xa.ends = x.ends
  <2>1. left \in Nat
    BY <1>1
  <2> HIDE DEF left, x
  <2>2. x \in Shop!Listed
    BY DEF x
  <2>3. /\ xa \in Shop!Listed /\ xa.amount = left /\ xa.sold = x.sold /\ xa.listed = x.listed /\ xa.price = x.price
        /\ xa.class = x.class /\ xa.paid = x.paid /\ xa.seller = x.seller /\ xa.status = x.status /\ xa.ends = x.ends
    BY <2>1, <2>2, AmountWith
  <2> QED BY <2>3 DEF left
<1>3. /\ wa \in Shop!World /\ wa.listings[l] = xa /\ (\A k \in Listings : k # l => wa.listings[k] = w.listings[k])
      /\ wa.till = w.till /\ wa.tokens = w.tokens
  <2> HIDE DEF xa
  <2> QED BY <1>2, WorldWith
<1>4. [w EXCEPT !.listings[l].amount = @ - n] = wa
  BY DEF Shop!World
<1>5. wb = IF xa.amount = 0 THEN Shop!Ended(wa, l, "SOLD") ELSE wa
  <2> HIDE DEF xa, wa
  <2> QED BY <1>3, <1>4 DEF Shop!Reduced
<1> HIDE DEF xa, wa, wb
<1>6. /\ wb \in Shop!World /\ xb \in Shop!Listed /\ (\A k \in Listings : k # l => wb.listings[k] = w.listings[k])
      /\ wb.till = w.till /\ wb.tokens = w.tokens
      /\ xb.amount = x.amount - n /\ xb.sold = x.sold /\ xb.listed = x.listed /\ xb.price = x.price
      /\ xb.class = x.class /\ xb.paid = x.paid /\ xb.seller = x.seller
      /\ IF xb.amount = 0 THEN xb.status = "SOLD" /\ xb.ends = x.ends + 1 ELSE xb.status = x.status /\ xb.ends = x.ends
  <2>1. CASE xa.amount = 0
    <3>1. wb = Shop!Ended(wa, l, "SOLD")
      BY <1>5, <2>1
    <3>2. EndOf(wb, wa, l, "SOLD")
      <4>1. wa \in Shop!World /\ wa.listings[l] \in Shop!Listed /\ "SOLD" \in {"SOLD", "CANCELLED", "EXPIRED"}
        BY <1>2, <1>3
      <4> QED BY <3>1, <4>1, EndedWorld
    <3> QED BY <1>2, <1>3, <2>1, <3>2 DEF EndOf
  <2>2. CASE xa.amount # 0
    BY <1>2, <1>3, <1>5, <2>2
  <2> QED BY <2>1, <2>2
<1> DEFINE c == x.class
           seller == x.seller
           sum == xb.sold + n
           y == [xb EXCEPT !.sold = sum]
           row == Shop!Moved(wb.tokens[c], seller, buyer, n)
           tokens == [wb.tokens EXCEPT ![c] = row]
           v == Shop!Delivered(wb, l, buyer, n)
           w3 == [wb EXCEPT !.tokens = tokens]
<1>7. v = [wb EXCEPT !.tokens[c] = row, !.listings[l].sold = @ + n]
  BY <1>6 DEF Shop!Delivered
<1>8. tokens \in [{"release", "genesis"} -> [Wallets -> Nat]]
  <2>1. row \in [Wallets -> Nat]
    BY <1>1, <1>6, MovedTokens DEF Shop!World
  <2> HIDE DEF row
  <2>2. wb.tokens \in [{"release", "genesis"} -> [Wallets -> Nat]]
    BY <1>6 DEF Shop!World
  <2> QED BY <2>1, <2>2, <1>1
<1> HIDE DEF row
<1>9. v = [w3 EXCEPT !.listings[l] = y]
  <2>1. [wb EXCEPT !.tokens[c] = row] = w3
    BY <1>6 DEF Shop!World
  <2>2. v = [w3 EXCEPT !.listings[l].sold = @ + n]
    BY <1>7, <2>1
  <2>3. w3 \in Shop!World /\ w3.listings = wb.listings
    <3> HIDE DEF tokens
    <3> QED BY <1>6, <1>8, TokensWith
  <2> HIDE DEF w3, v
  <2>4. w3.listings[l] = xb
    BY <2>3
  <2> QED BY <2>2, <2>3, <2>4 DEF Shop!World
<1> HIDE DEF tokens, xb
<1>10. /\ y \in Shop!Listed /\ y.sold = xb.sold + n /\ y.amount = xb.amount /\ y.listed = xb.listed /\ y.price = xb.price
       /\ y.class = xb.class /\ y.paid = xb.paid /\ y.status = xb.status /\ y.ends = xb.ends
  <2>1. sum \in Nat
    BY <1>1, <1>6
  <2> HIDE DEF sum
  <2>2. /\ y \in Shop!Listed /\ y.sold = sum /\ y.amount = xb.amount /\ y.listed = xb.listed /\ y.price = xb.price
        /\ y.class = xb.class /\ y.paid = xb.paid /\ y.status = xb.status /\ y.ends = xb.ends
    BY <1>6, <2>1, SoldWith
  <2> QED BY <2>2 DEF sum
<1> HIDE DEF y
<1>11. w3 \in Shop!World /\ w3.listings = wb.listings /\ w3.till = wb.till
  BY <1>6, <1>8, TokensWith
<1> HIDE DEF w3, v
<1>12. /\ v \in Shop!World /\ v.listings[l] = y /\ (\A k \in Listings : k # l => v.listings[k] = wb.listings[k])
       /\ v.till = wb.till
  BY <1>9, <1>10, <1>11, WorldWith
<1>13. /\ y.amount = x.amount - n /\ y.sold = x.sold + n /\ y.listed = x.listed /\ y.price = x.price
       /\ y.class = x.class /\ y.paid = x.paid
       /\ IF y.amount = 0 THEN y.status = "SOLD" /\ y.ends = x.ends + 1 ELSE y.status = x.status /\ y.ends = x.ends
  BY <1>6, <1>10
<1> QED BY <1>6, <1>10, <1>12, <1>13 DEF v, wb, Bought

-----------------------------------------------------------------------------
\* The invariant, of a world w, a sale s and a time t: the lemmas below are about two of each.
OwingIn(s, p) == IF s # Shop!NoSale /\ p \in s.left THEN s.due[p] ELSE 0

PaidIn(w, s, l) ==
  [p \in Shop!Payees |-> w.listings[l].paid[p] + (IF s # Shop!NoSale /\ s.listing = l THEN OwingIn(s, p) ELSE 0)]

SoundTypes(w, s, t) == w \in Shop!World /\ s \in Shop!Sale \cup {Shop!NoSale} /\ t \in 0..ShopEnd
SoundTill(w, s) == w.till = OwingIn(s, "platform") + OwingIn(s, "royalty") + OwingIn(s, "seller")
SoundBooks(w, s) == \A l \in Listings : Shop!Balanced(w.listings[l], PaidIn(w, s, l))
SoundBefore(s) == s # Shop!NoSale => Shop!SettledIn(s.before) /\ \A p \in s.left : s.due[p] # 0
Sound(w, s, t) == SoundTypes(w, s, t) /\ SoundTill(w, s) /\ SoundBooks(w, s) /\ SoundBefore(s)

LEMMA SoundIs ==
  /\ Shop!MarketIInv <=> Sound(v1, v2, v3)
  /\ Shop!MarketIInv' <=> Sound(v1', v2', v3')
BY DEF Shop!MarketIInv, Shop!MarketTypeOK, Shop!Owing, Shop!PaidAfter,
       Sound, SoundTypes, SoundTill, SoundBooks, SoundBefore, OwingIn, PaidIn

LEMMA SaleIsNot == \A s \in Shop!Sale : s # Shop!NoSale
BY DEF Shop!Sale, Shop!NoSale, Shop!Payees

LEMMA PaidTyped ==
  ASSUME NEW w \in Shop!World, NEW l \in Listings
  PROVE  w.listings[l].paid \in [Shop!Payees -> Nat]
BY DEF Shop!World, Shop!Listed, Shop!NoListing

LEMMA OwingTyped ==
  ASSUME NEW s \in Shop!Sale \cup {Shop!NoSale}, NEW p \in Shop!Payees
  PROVE  OwingIn(s, p) \in Nat
BY DEF OwingIn, Shop!Sale

\* A listing's books depend on what was paid for it and not on how that is written.
LEMMA BalancedAlike ==
  ASSUME NEW x, NEW paid, NEW same, \A p \in Shop!Payees : same[p] = paid[p], Shop!Balanced(x, paid)
  PROVE  Shop!Balanced(x, same)
BY DEF Shop!Balanced, Shop!Payees

\* Between sales nothing is owed.
LEMMA BooksBetweenSales ==
  ASSUME NEW w \in Shop!World
  PROVE  SoundTill(w, Shop!NoSale) /\ SoundBooks(w, Shop!NoSale) <=> Shop!SettledIn(w)
<1>1. SoundTill(w, Shop!NoSale) <=> w.till = 0
  BY DEF SoundTill, OwingIn
<1>2. \A l \in Listings, p \in Shop!Payees : PaidIn(w, Shop!NoSale, l)[p] = w.listings[l].paid[p]
  BY PaidTyped DEF PaidIn
<1>3. ASSUME NEW l \in Listings
      PROVE  Shop!Balanced(w.listings[l], PaidIn(w, Shop!NoSale, l)) <=> Shop!Balanced(w.listings[l], w.listings[l].paid)
  BY <1>2, BalancedAlike
<1> QED BY <1>1, <1>3 DEF SoundBooks, Shop!SettledIn

LEMMA ShopParameters ==
  /\ Copies \in Nat /\ ShopEnd \in Nat /\ Prices \subseteq Nat \ {0} /\ Amounts \subseteq Nat \ {0} /\ Expiries \subseteq Nat
BY Parameters DEF Shop!MarketplaceAssumption

LEMMA ShopStarts == Shop!Init => Sound(v1, v2, v3)
<1> SUFFICES ASSUME Shop!Init PROVE Sound(v1, v2, v3)
  OBVIOUS
<1>1. v1 \in Shop!World /\ v1.till = 0 /\ (\A l \in Listings : v1.listings[l] = Shop!NoListing)
  BY ShopParameters DEF Shop!Init, Shop!World
<1>2. Shop!Balanced(Shop!NoListing, Shop!NoListing.paid)
  BY DEF Shop!Balanced, Shop!NoListing, Shop!Payees
<1>3. Shop!SettledIn(v1)
  BY <1>1, <1>2 DEF Shop!SettledIn
<1>4. v2 = Shop!NoSale /\ v3 = 0
  BY DEF Shop!Init
<1>5. SoundTypes(v1, v2, v3)
  BY <1>1, <1>4, ShopParameters DEF SoundTypes
<1>6. SoundTill(v1, v2) /\ SoundBooks(v1, v2)
  BY <1>1, <1>3, <1>4, BooksBetweenSales
<1> QED BY <1>4, <1>5, <1>6 DEF Sound, SoundBefore

\* The tokens, the approvals and the time are no part of the books.
LEMMA ListingsKept ==
  ASSUME NEW w, NEW s, NEW t, Sound(w, s, t), NEW wb \in Shop!World, NEW t2 \in 0..ShopEnd,
         wb.listings = w.listings, wb.till = w.till
  PROVE  Sound(wb, s, t2)
BY DEF Sound, SoundTypes, SoundTill, SoundBooks, SoundBefore, PaidIn

\* One listing is rewritten, and its payments are not.
LEMMA ListingWritten ==
  ASSUME NEW w, NEW s, NEW t, Sound(w, s, t), NEW wb \in Shop!World, NEW l \in Listings,
         wb.till = w.till, \A k \in Listings : k # l => wb.listings[k] = w.listings[k],
         wb.listings[l].paid = w.listings[l].paid, Shop!Balanced(wb.listings[l], PaidIn(w, s, l))
  PROVE  Sound(wb, s, t)
<1>1. \A k \in Listings : wb.listings[k].paid = w.listings[k].paid
  OBVIOUS
<1>2. \A k \in Listings : PaidIn(wb, s, k) = PaidIn(w, s, k)
  BY <1>1 DEF PaidIn
<1>3. \A k \in Listings : Shop!Balanced(wb.listings[k], PaidIn(wb, s, k))
  BY <1>2 DEF Sound, SoundBooks
<1> QED BY <1>3 DEF Sound, SoundTypes, SoundTill, SoundBooks, SoundBefore

LEMMA CreateStep ==
  ASSUME Sound(v1, v2, v3), NEW l \in Listings, NEW a \in Wallets, NEW c \in {"release", "genesis"}, NEW n \in Amounts,
         NEW price \in Prices, NEW expires \in Expiries, Shop!CreateListing(l, a, c, n, price, expires)
  PROVE  Sound(v1', v2', v3')
<1> DEFINE x == [Shop!NoListing EXCEPT !.seller = a, !.class = c, !.amount = n, !.price = price,
                              !.expires = expires, !.status = "ACTIVE", !.listed = n]
           paid == PaidIn(v1, v2, l)
<1>1. n \in Nat /\ n > 0 /\ price \in Nat /\ expires \in Nat
  BY ShopParameters
<1>2. /\ x \in Shop!Listed /\ x.amount = n /\ x.listed = n /\ x.sold = 0 /\ x.ends = 0 /\ x.price = price
      /\ x.status = "ACTIVE" /\ x.paid = Shop!NoListing.paid
  BY <1>1 DEF Shop!NoListing, Shop!Listed
<1>3. v1.listings[l] = Shop!NoListing /\ v1' = [v1 EXCEPT !.listings[l] = x] /\ v2' = v2 /\ v3' = v3
  BY DEF Shop!CreateListing, Shop!Set
<1> HIDE DEF x
<1>4. v1 \in Shop!World /\ v2 \in Shop!Sale \cup {Shop!NoSale}
  BY DEF Sound, SoundTypes
<1>5. /\ v1' \in Shop!World /\ v1'.listings[l] = x /\ (\A k \in Listings : k # l => v1'.listings[k] = v1.listings[k])
      /\ v1'.till = v1.till
  BY <1>2, <1>3, <1>4, WorldWith
<1>6. \A p \in Shop!Payees : paid[p] \in Nat
  BY <1>4, PaidTyped, OwingTyped DEF PaidIn
<1>7. Shop!Balanced(Shop!NoListing, paid)
  BY <1>3 DEF Sound, SoundBooks
<1> HIDE DEF paid
<1>8. paid["platform"] = 0 /\ paid["royalty"] = 0 /\ paid["seller"] = 0
  BY <1>6, <1>7 DEF Shop!Balanced, Shop!NoListing, Shop!Payees
<1>9. Shop!Balanced(x, paid)
  BY <1>1, <1>2, <1>8 DEF Shop!Balanced
<1>10. Sound(v1', v2, v3)
  BY <1>2, <1>3, <1>5, <1>9, ListingWritten DEF paid
<1> QED BY <1>3, <1>10

LEMMA EndStep ==
  ASSUME Sound(v1, v2, v3), NEW l \in Listings, NEW status \in {"CANCELLED", "EXPIRED"}, v1.listings[l].status = "ACTIVE",
         v1' = Shop!Ended(v1, l, status), v2' = v2, v3' = v3
  PROVE  Sound(v1', v2', v3')
<1> DEFINE x == v1.listings[l]
           y == v1'.listings[l]
           paid == PaidIn(v1, v2, l)
<1>1. v1 \in Shop!World
  BY DEF Sound, SoundTypes
<1>2. x \in Shop!Listed
  BY <1>1 DEF Shop!World, Shop!NoListing
<1>3. EndOf(v1', v1, l, status)
  BY <1>1, <1>2, EndedWorld
<1>4. Shop!Balanced(x, paid)
  BY DEF Sound, SoundBooks
<1>5. /\ y.status = status /\ y.ends = x.ends + 1 /\ y.amount = x.amount /\ y.sold = x.sold
      /\ y.listed = x.listed /\ y.price = x.price /\ y.class = x.class /\ y.paid = x.paid
  BY <1>3 DEF EndOf
<1>6. Shop!Balanced(y, paid)
  <2> HIDE DEF x, y, paid
  <2>1. x.status = "ACTIVE"
    BY DEF x
  <2> QED BY <1>4, <1>5, <2>1 DEF Shop!Balanced
<1>7. Sound(v1', v2, v3)
  BY <1>3, <1>5, <1>6, ListingWritten DEF EndOf
<1> QED BY <1>7

LEMMA TokensStep ==
  ASSUME Sound(v1, v2, v3)
  PROVE  /\ \A c \in {"release", "genesis"}, a, b \in Wallets, n \in Amounts : Shop!Transfer(c, a, b, n) => Sound(v1', v2', v3')
         /\ \A a \in Wallets, yes \in BOOLEAN : Shop!Approve(a, yes) => Sound(v1', v2', v3')
         /\ Shop!Tick => Sound(v1', v2', v3')
<1>1. v1 \in Shop!World /\ v3 \in 0..ShopEnd
  BY DEF Sound, SoundTypes
<1>2. ASSUME NEW c \in {"release", "genesis"}, NEW a \in Wallets, NEW b \in Wallets, NEW n \in Amounts, Shop!Transfer(c, a, b, n)
      PROVE  Sound(v1', v2', v3')
  <2> DEFINE row == Shop!Moved(v1.tokens[c], a, b, n)
             tokens == [v1.tokens EXCEPT ![c] = row]
  <2>1. row \in [Wallets -> Nat]
    <3>1. v1.tokens[c] \in [Wallets -> Nat] /\ a # b /\ v1.tokens[c][a] >= n /\ n \in Nat
      BY <1>1, <1>2, ShopParameters DEF Shop!Transfer, Shop!World
    <3> QED BY <3>1, MovedTokens
  <2>2. v1' = [v1 EXCEPT !.tokens[c] = row] /\ v2' = v2 /\ v3' = v3
    BY <1>2 DEF Shop!Transfer, Shop!Set
  <2> HIDE DEF row
  <2>3. tokens \in [{"release", "genesis"} -> [Wallets -> Nat]]
    BY <1>1, <2>1 DEF Shop!World
  <2>4. v1' = [v1 EXCEPT !.tokens = tokens]
    BY <1>1, <2>2 DEF Shop!World
  <2> HIDE DEF tokens
  <2>5. v1' \in Shop!World /\ v1'.listings = v1.listings /\ v1'.till = v1.till
    BY <1>1, <2>3, <2>4, TokensWith
  <2>6. Sound(v1', v2, v3)
    BY <1>1, <2>5, ListingsKept
  <2> QED BY <2>2, <2>6
<1>3. ASSUME NEW a \in Wallets, NEW yes \in BOOLEAN, Shop!Approve(a, yes)
      PROVE  Sound(v1', v2', v3')
  <2>1. v1' = [v1 EXCEPT !.approved[a] = yes] /\ v2' = v2 /\ v3' = v3
    BY <1>3 DEF Shop!Approve, Shop!Set
  <2>2. v1' \in Shop!World /\ v1'.listings = v1.listings /\ v1'.till = v1.till
    BY <1>1, <2>1 DEF Shop!World
  <2>3. Sound(v1', v2, v3)
    BY <1>1, <2>2, ListingsKept
  <2> QED BY <2>1, <2>3
<1>4. ASSUME Shop!Tick PROVE Sound(v1', v2', v3')
  <2>1. v1' = v1 /\ v2' = v2 /\ v3' \in 0..ShopEnd
    BY <1>1, <1>4, ShopParameters DEF Shop!Tick
  <2>2. Sound(v1, v2, v3')
    BY <1>1, <2>1, ListingsKept
  <2> QED BY <2>1, <2>2
<1> QED BY <1>2, <1>3, <1>4

\* The books of a listing n of whose copies were delivered, once they are paid for.
LEMMA BoughtBooks ==
  ASSUME NEW x \in Shop!Listed, NEW y \in Shop!Listed, NEW n \in Nat, n > 0, x.status = "ACTIVE", n <= x.amount,
         y.amount = x.amount - n, y.sold = x.sold + n, y.listed = x.listed, y.price = x.price, y.class = x.class,
         IF y.amount = 0 THEN y.status = "SOLD" /\ y.ends = x.ends + 1 ELSE y.status = x.status /\ y.ends = x.ends,
         NEW paid \in [Shop!Payees -> Nat], Shop!Balanced(x, paid),
         NEW due \in [Shop!Payees -> Nat],
         due["platform"] + due["royalty"] + due["seller"] = x.price * n,
         100 * due["seller"] >= 95 * (x.price * n), x.class = "genesis" => due["platform"] = 0,
         NEW after, \A p \in Shop!Payees : after[p] = paid[p] + due[p]
  PROVE  Shop!Balanced(y, after)
<1>1. x.amount \in Nat /\ x.sold \in Nat /\ x.price \in Nat /\ x.ends \in Nat /\ x.listed \in Nat /\ y.amount \in Nat
  BY DEF Shop!Listed
<1>2. /\ paid["platform"] \in Nat /\ paid["royalty"] \in Nat /\ paid["seller"] \in Nat
      /\ due["platform"] \in Nat /\ due["royalty"] \in Nat /\ due["seller"] \in Nat
      /\ after["platform"] = paid["platform"] + due["platform"] /\ after["royalty"] = paid["royalty"] + due["royalty"]
      /\ after["seller"] = paid["seller"] + due["seller"]
  BY DEF Shop!Payees
<1>3. y.price * y.sold = x.price * x.sold + x.price * n
  BY <1>1, Products
<1>4. x.price * x.sold \in Nat /\ x.price * n \in Nat
  BY <1>1, Products
<1> DEFINE owed == x.price * x.sold
           more == x.price * n
<1> HIDE DEF owed, more
<1>5. /\ paid["platform"] + paid["royalty"] + paid["seller"] = owed /\ 100 * paid["seller"] >= 95 * owed
      /\ x.class = "genesis" => paid["platform"] = 0
      /\ x.amount + x.sold = x.listed /\ x.ends = 0
  BY DEF Shop!Balanced, owed
<1>6. /\ after["platform"] + after["royalty"] + after["seller"] = owed + more /\ 100 * after["seller"] >= 95 * (owed + more)
      /\ y.class = "genesis" => after["platform"] = 0
  BY <1>2, <1>4, <1>5 DEF more, owed
<1>7. y.amount + y.sold = y.listed /\ y.listed > 0 /\ x.ends + 1 = 1
  BY <1>1, <1>5
<1>8. /\ y.status \in {"NONE", "ACTIVE"} <=> y.ends = 0
      /\ y.ends <= 1
      /\ y.status = "SOLD" <=> y.listed > 0 /\ y.amount = 0
  BY <1>5, <1>7
<1> QED BY <1>3, <1>6, <1>7, <1>8 DEF Shop!Balanced, owed, more

LEMMA TillWith ==
  ASSUME NEW w \in Shop!World, NEW n \in Nat
  PROVE  LET v == [w EXCEPT !.till = n] IN
         v \in Shop!World /\ v.listings = w.listings /\ v.tokens = w.tokens /\ v.till = n
BY DEF Shop!World

LEMMA BuyStep ==
  ASSUME Sound(v1, v2, v3), NEW l \in Listings, NEW buyer \in Wallets, NEW n \in Amounts, Shop!Buy(l, buyer, n)
  PROVE  Sound(v1', v2', v3')
<1> DEFINE x == v1.listings[l]
           y == v1'.listings[l]
           price == x.price * n
           due == Shop!Split(x.class, price)
           w0 == [v1 EXCEPT !.till = price]
           paid == PaidIn(v1, v2, l)
<1>1. v1 \in Shop!World /\ v3 \in 0..ShopEnd /\ n \in Nat /\ n > 0
  BY ShopParameters DEF Sound, SoundTypes
<1>2. /\ v2 = Shop!NoSale /\ x.status = "ACTIVE" /\ x.seller # buyer /\ n <= x.amount /\ v1.tokens[x.class][x.seller] >= n
      /\ v1' = Shop!Delivered(Shop!Reduced([v1 EXCEPT !.till = @ + x.price * n], l, n), l, buyer, n)
      /\ v2' = [call |-> "deliver", listing |-> l, buyer |-> buyer, due |-> due, owed |-> v1.tokens[x.class][buyer] + n,
                left |-> {p \in Shop!Payees : due[p] # 0}, before |-> v1]
      /\ v3' = v3
  BY DEF Shop!Buy
<1>3. x \in Shop!Listed
  BY <1>1, <1>2 DEF Shop!World, Shop!NoListing
<1>4. price \in Nat /\ x.amount \in Nat
  BY <1>1, <1>3, Products DEF Shop!Listed
<1>5. Shop!SettledIn(v1) /\ v1.till = 0
  BY <1>1, <1>2, BooksBetweenSales DEF Sound, Shop!SettledIn
<1>6. w0 \in Shop!World /\ w0.listings = v1.listings /\ w0.tokens = v1.tokens /\ w0.till = price
  <2> HIDE DEF price
  <2> QED BY <1>1, <1>4, TillWith
<1>7. [v1 EXCEPT !.till = @ + x.price * n] = w0
  BY <1>1, <1>4, <1>5
<1> HIDE DEF w0
<1>8. Bought(v1', w0, l, n)
  BY <1>1, <1>2, <1>3, <1>6, <1>7, BoughtWorld
<1>9. /\ due \in [Shop!Payees -> Nat] /\ due["platform"] + due["royalty"] + due["seller"] = price
      /\ 100 * due["seller"] >= 95 * price /\ (x.class = "genesis" => due["platform"] = 0)
  <2> HIDE DEF price
  <2> QED BY <1>4, SplitSums
<1> HIDE DEF due
<1>10. \A p \in Shop!Payees : OwingIn(v2', p) = due[p]
  BY <1>2, <1>9 DEF OwingIn, Shop!NoSale
<1>11. \A k \in Listings : k # l => PaidIn(v1', v2', k) = PaidIn(v1, v2, k)
  BY <1>2, <1>6, <1>8 DEF PaidIn, Bought, Shop!NoSale
<1>12. \A p \in Shop!Payees : PaidIn(v1', v2', l)[p] = paid[p] + due[p] /\ paid[p] = x.paid[p]
  <2>1. v2' # Shop!NoSale /\ v2'.listing = l
    BY <1>2 DEF Shop!NoSale
  <2>2. y.paid = x.paid
    BY <1>6, <1>8 DEF Bought
  <2>3. \A p \in Shop!Payees : PaidIn(v1', v2', l)[p] = x.paid[p] + due[p]
    BY <1>10, <2>1, <2>2 DEF PaidIn
  <2>4. \A p \in Shop!Payees : paid[p] = x.paid[p]
    BY <1>1, <1>2, PaidTyped DEF PaidIn
  <2> QED BY <2>3, <2>4
<1>13. x.paid \in [Shop!Payees -> Nat] /\ Shop!Balanced(x, x.paid)
  BY <1>3, <1>5 DEF Shop!Listed, Shop!SettledIn
<1>14. Shop!Balanced(y, PaidIn(v1', v2', l))
  <2>1. /\ y \in Shop!Listed /\ y.amount = x.amount - n /\ y.sold = x.sold + n /\ y.listed = x.listed /\ y.price = x.price
        /\ y.class = x.class
        /\ IF y.amount = 0 THEN y.status = "SOLD" /\ y.ends = x.ends + 1 ELSE y.status = x.status /\ y.ends = x.ends
    BY <1>6, <1>8 DEF Bought
  <2>2. \A p \in Shop!Payees : PaidIn(v1', v2', l)[p] = x.paid[p] + due[p]
    BY <1>12
  <2> HIDE DEF x, y
  <2> QED BY <1>1, <1>2, <1>3, <1>9, <1>13, <2>1, <2>2, BoughtBooks
<1>15. SoundBooks(v1', v2')
  <2>1. \A k \in Listings : k # l => Shop!Balanced(v1'.listings[k], PaidIn(v1', v2', k))
    BY <1>6, <1>8, <1>11 DEF Sound, SoundBooks, Bought
  <2> QED BY <1>14, <2>1 DEF SoundBooks
<1>16. SoundTill(v1', v2')
  <2>1. v1'.till = price
    BY <1>6, <1>8 DEF Bought
  <2> QED BY <1>9, <1>10, <2>1 DEF SoundTill, Shop!Payees
<1>17. SoundTypes(v1', v2', v3')
  <2>1. v1.tokens[x.class][buyer] + n \in Nat
    BY <1>1, <1>3 DEF Shop!World, Shop!Listed
  <2>2. v2' \in Shop!Sale
    BY <1>1, <1>2, <1>9, <2>1 DEF Shop!Sale
  <2> QED BY <1>1, <1>2, <1>8, <2>2 DEF SoundTypes, Bought
<1>18. SoundBefore(v2')
  BY <1>2, <1>5, <1>9 DEF SoundBefore
<1> QED BY <1>15, <1>16, <1>17, <1>18 DEF Sound

LEMMA PayStep ==
  ASSUME Sound(v1, v2, v3), Shop!Pay
  PROVE  Sound(v1', v2', v3')
<1>1. PICK p \in v2.left :
        /\ v1' = [v1 EXCEPT !.till = @ - v2.due[p], !.listings[v2.listing].paid[p] = @ + v2.due[p]]
        /\ v2' = [v2 EXCEPT !.call = p, !.left = @ \ {p}]
  BY DEF Shop!Pay
<1>2. v2 # Shop!NoSale /\ v3' = v3
  BY DEF Shop!Pay, Shop!Returned
<1>3. v1 \in Shop!World /\ v2 \in Shop!Sale /\ v3 \in 0..ShopEnd
  BY <1>2 DEF Sound, SoundTypes
<1>4. p \in Shop!Payees /\ v2.listing \in Listings /\ v2.due \in [Shop!Payees -> Nat] /\ v2.due[p] \in Nat
  BY <1>3 DEF Shop!Sale
<1> DEFINE l == v2.listing
           x == v1.listings[l]
           sum == x.paid[p] + v2.due[p]
           paid == [x.paid EXCEPT ![p] = sum]
           y == [x EXCEPT !.paid = paid]
           rest == v1.till - v2.due[p]
           wa == [v1 EXCEPT !.till = rest]
<1>5. v2' \in Shop!Sale /\ v2'.listing = l /\ v2'.due = v2.due /\ v2'.left = v2.left \ {p} /\ v2'.before = v2.before
  BY <1>1, <1>3, <1>4 DEF Shop!Sale
<1>6. v2' # Shop!NoSale
  BY <1>5, SaleIsNot
<1>7. /\ OwingIn(v2, p) = v2.due[p] /\ OwingIn(v2', p) = 0
      /\ \A q \in Shop!Payees : q # p => OwingIn(v2', q) = OwingIn(v2, q)
  BY <1>2, <1>5, <1>6 DEF OwingIn
<1>8. /\ rest \in Nat
      /\ rest = OwingIn(v2', "platform") + OwingIn(v2', "royalty") + OwingIn(v2', "seller")
  <2>1. v1.till = OwingIn(v2, "platform") + OwingIn(v2, "royalty") + OwingIn(v2, "seller")
    BY DEF Sound, SoundTill
  <2>2. /\ OwingIn(v2, "platform") \in Nat /\ OwingIn(v2, "royalty") \in Nat /\ OwingIn(v2, "seller") \in Nat
    BY <1>3, OwingTyped DEF Shop!Payees
  <2> QED BY <1>4, <1>7, <2>1, <2>2 DEF Shop!Payees
<1>9. x.paid \in [Shop!Payees -> Nat] /\ sum \in Nat /\ paid \in [Shop!Payees -> Nat]
  <2>1. x.paid \in [Shop!Payees -> Nat]
    BY <1>3, <1>4, PaidTyped
  <2> QED BY <1>4, <2>1
\* The listing sold from is no empty slot: its books hold what is owed for it, which is not nothing.
<1>10. x \in Shop!Listed
  <2>1. ASSUME x = Shop!NoListing PROVE FALSE
    <3> DEFINE all == PaidIn(v1, v2, l)
    <3>1. Shop!Balanced(Shop!NoListing, all)
      BY <1>4, <2>1 DEF Sound, SoundBooks
    <3>2. \A q \in Shop!Payees : all[q] = x.paid[q] + OwingIn(v2, q)
      BY <1>2 DEF PaidIn
    <3>3. \A q \in Shop!Payees : OwingIn(v2, q) \in Nat
      BY <1>3, OwingTyped
    <3>4. v2.due[p] # 0
      BY <1>2 DEF Sound, SoundBefore
    <3> HIDE DEF all
    <3>5. \A q \in Shop!Payees : all[q] \in Nat
      BY <1>9, <3>2, <3>3
    <3>6. all[p] > 0
      BY <1>4, <1>7, <1>9, <3>2, <3>4
    <3>7. all["platform"] + all["royalty"] + all["seller"] = 0
      BY <3>1 DEF Shop!Balanced, Shop!NoListing
    <3>8. all["platform"] \in Nat /\ all["royalty"] \in Nat /\ all["seller"] \in Nat
      BY <3>5 DEF Shop!Payees
    <3>9. all["platform"] = 0 /\ all["royalty"] = 0 /\ all["seller"] = 0
      BY <3>7, <3>8
    <3>10. p = "platform" \/ p = "royalty" \/ p = "seller"
      BY <1>4 DEF Shop!Payees
    <3>11. all[p] = 0
      BY <3>9, <3>10
    <3> QED BY <3>6, <3>11
  <2> QED BY <1>3, <1>4, <2>1 DEF Shop!World
<1> HIDE DEF x
<1>11. /\ y \in Shop!Listed /\ y.amount = x.amount /\ y.sold = x.sold /\ y.status = x.status /\ y.ends = x.ends
       /\ y.listed = x.listed /\ y.price = x.price /\ y.class = x.class /\ y.paid = paid
  <2> HIDE DEF paid
  <2> QED BY <1>9, <1>10, PaidWith
<1>12. wa \in Shop!World /\ wa.listings = v1.listings /\ wa.till = rest
  <2> HIDE DEF rest
  <2> QED BY <1>3, <1>8, TillWith
<1>13. v1' = [wa EXCEPT !.listings[l] = y]
  <2>1. v1' = [wa EXCEPT !.listings[l].paid[p] = @ + v2.due[p]]
    BY <1>1, <1>3 DEF Shop!World
  <2> HIDE DEF wa
  <2> QED BY <1>4, <1>9, <1>10, <1>12, <2>1 DEF x, Shop!World, Shop!Listed
<1> HIDE DEF wa, y
<1>14. /\ v1' \in Shop!World /\ v1'.listings[l] = y /\ (\A k \in Listings : k # l => v1'.listings[k] = v1.listings[k])
       /\ v1'.till = rest
  BY <1>4, <1>11, <1>12, <1>13, WorldWith
<1>15. \A q \in Shop!Payees : PaidIn(v1', v2', l)[q] = PaidIn(v1, v2, l)[q]
  <2>1. \A q \in Shop!Payees : /\ PaidIn(v1', v2', l)[q] = paid[q] + OwingIn(v2', q)
                               /\ PaidIn(v1, v2, l)[q] = x.paid[q] + OwingIn(v2, q)
    BY <1>2, <1>5, <1>6, <1>11, <1>14 DEF PaidIn, x
  <2>2. paid[p] + OwingIn(v2', p) = x.paid[p] + OwingIn(v2, p)
    BY <1>4, <1>7, <1>9
  <2>3. \A q \in Shop!Payees : q # p => paid[q] = x.paid[q]
    BY <1>9
  <2> QED BY <1>7, <2>1, <2>2, <2>3
<1>16. SoundBooks(v1', v2')
  <2>1. Shop!Balanced(x, PaidIn(v1, v2, l))
    BY <1>4 DEF Sound, SoundBooks, x
  <2>2. Shop!Balanced(x, PaidIn(v1', v2', l))
    BY <1>15, <2>1, BalancedAlike
  <2>3. Shop!Balanced(y, PaidIn(v1', v2', l))
    BY <1>11, <2>2 DEF Shop!Balanced
  <2>4. \A k \in Listings : k # l => PaidIn(v1', v2', k) = PaidIn(v1, v2, k)
    BY <1>2, <1>5, <1>6, <1>14 DEF PaidIn
  <2>5. \A k \in Listings : k # l => Shop!Balanced(v1'.listings[k], PaidIn(v1', v2', k))
    BY <1>14, <2>4 DEF Sound, SoundBooks
  <2> QED BY <1>14, <2>3, <2>5 DEF SoundBooks
<1>17. SoundTill(v1', v2') /\ SoundTypes(v1', v2', v3') /\ SoundBefore(v2')
  BY <1>2, <1>3, <1>5, <1>8, <1>14 DEF Sound, SoundTill, SoundTypes, SoundBefore
<1> QED BY <1>16, <1>17 DEF Sound

LEMMA SettleStep ==
  ASSUME Sound(v1, v2, v3), Shop!Settle
  PROVE  Sound(v1', v2', v3')
<1>1. v2 # Shop!NoSale /\ v2.left = {} /\ v2' = Shop!NoSale /\ v1' = v1 /\ v3' = v3
  BY DEF Shop!Settle, Shop!Returned
<1>2. v1 \in Shop!World
  BY DEF Sound, SoundTypes
<1>3. \A p \in Shop!Payees : OwingIn(v2, p) = 0 /\ OwingIn(Shop!NoSale, p) = 0
  BY <1>1 DEF OwingIn
<1>4. \A l \in Listings, p \in Shop!Payees : PaidIn(v1, Shop!NoSale, l)[p] = PaidIn(v1, v2, l)[p]
  BY <1>3 DEF PaidIn
<1>5. SoundBooks(v1, Shop!NoSale)
  BY <1>4, BalancedAlike DEF Sound, SoundBooks
<1>6. SoundTill(v1, Shop!NoSale)
  BY <1>3 DEF Sound, SoundTill, Shop!Payees
<1> QED BY <1>1, <1>5, <1>6 DEF Sound, SoundTypes, SoundBefore

LEMMA RevertStep ==
  ASSUME Sound(v1, v2, v3), Shop!Revert
  PROVE  Sound(v1', v2', v3')
<1>1. v2 # Shop!NoSale /\ v1' = v2.before /\ v2' = Shop!NoSale /\ v3' = v3
  BY DEF Shop!Revert, Shop!Refused
<1>2. v2.before \in Shop!World /\ Shop!SettledIn(v2.before)
  BY <1>1 DEF Sound, SoundTypes, SoundBefore, Shop!Sale
<1>3. SoundTill(v1', Shop!NoSale) /\ SoundBooks(v1', Shop!NoSale)
  BY <1>1, <1>2, BooksBetweenSales
<1> QED BY <1>1, <1>2, <1>3 DEF Sound, SoundTypes, SoundBefore

LEMMA ShopNextKeeps ==
  Sound(v1, v2, v3) /\ [Shop!MarketNext]_(Shop!vars) => Sound(v1', v2', v3')
<1> SUFFICES ASSUME Sound(v1, v2, v3), [Shop!MarketNext]_(Shop!vars)
             PROVE  Sound(v1', v2', v3')
  OBVIOUS
<1>1. ASSUME NEW l \in Listings, NEW a \in Wallets, NEW c \in {"release", "genesis"}, NEW n \in Amounts,
             NEW price \in Prices, NEW expires \in Expiries, Shop!CreateListing(l, a, c, n, price, expires)
      PROVE  Sound(v1', v2', v3')
  BY <1>1, CreateStep
<1>2. ASSUME NEW l \in Listings, Shop!CancelListing(l) \/ Shop!ExpireListing(l)
      PROVE  Sound(v1', v2', v3')
  <2>1. PICK status \in {"CANCELLED", "EXPIRED"} :
          v1.listings[l].status = "ACTIVE" /\ v1' = Shop!Ended(v1, l, status) /\ v2' = v2 /\ v3' = v3
    BY <1>2 DEF Shop!CancelListing, Shop!ExpireListing, Shop!Set
  <2> QED BY <2>1, EndStep
<1>3. ASSUME NEW l \in Listings, NEW a \in Wallets, NEW n \in Amounts, Shop!Buy(l, a, n)
      PROVE  Sound(v1', v2', v3')
  BY <1>3, BuyStep
<1>4. CASE UNCHANGED Shop!vars
  BY <1>4 DEF Shop!vars
<1> QED BY <1>1, <1>2, <1>3, <1>4, TokensStep, PayStep, SettleStep, RevertStep DEF Shop!MarketNext

\* The invariant of the primary marketplace holds in every behaviour.
LEMMA ShopInvariant == SpecOne => [](part = "shop" => Shop!MarketIInv)
<1> DEFINE Inv == part = "shop" => Shop!MarketIInv
<1>1. InitOne => Inv
  BY ShopStarts, SoundIs DEF InitOne, Starts
<1>2. Inv /\ [NextOne]_allVars => Inv'
  <2> SUFFICES ASSUME Inv, [NextOne]_allVars PROVE Inv'
    OBVIOUS
  <2>1. CASE part = "shop"
    BY <2>1, ShopStep, ShopNextKeeps, SoundIs
  <2>2. CASE part # "shop"
    BY <2>2 DEF NextOne, Steps, allVars, vVars
  <2> QED BY <2>1, <2>2
<1> QED BY <1>1, <1>2, PTL DEF SpecOne

(***************************************************************************)
(* The marketplace's books hold: whatever receivers do inside a sale, and  *)
(* whichever of them refuses, between sales nothing is left in the         *)
(* contract and every listing is paid for as it was sold                   *)
(* (contracts/VoidUnifiedMarketplace.sol, buy and _settle).                *)
(***************************************************************************)
THEOREM SalesAlwaysSettle == SpecOne => []SalesSettle
<1> DEFINE Inv == part = "shop" => Shop!MarketIInv
<1>1. Inv => SalesSettle
  <2>1. Sound(v1, Shop!NoSale, v3) => Shop!SettledIn(v1)
    BY BooksBetweenSales DEF Sound, SoundTypes
  <2> QED BY <2>1, SoundIs DEF SalesSettle, Shop!SalesSettle
<1>2. SpecOne => []Inv
  BY ShopInvariant
<1> QED BY <1>1, <1>2, PTL

-----------------------------------------------------------------------------
(***************************************************************************)
(* Resale.  The operators named In say of the logs and rows what the       *)
(* parts of ResaleIInv say of the state, so that a lemma can speak of      *)
(* those before and after a step.                                          *)
(***************************************************************************)
LEMMA MarketStep ==
  part = "market" /\ [NextOne]_allVars => part' = "market" /\ [Market!Next]_(Market!vars)
BY DEF NextOne, Steps, allVars, vVars, Market!vars

LEMMA MarketCount == \A S : Market!Cardinality(S) = Cardinality(S)
BY DEF Market!Cardinality, Cardinality

LEMMA MarketParameters == Amount \in Nat /\ MaxAttempts \in Nat /\ MaxLogs \in Nat /\ MaxFaults \in Nat
BY Parameters DEF Market!ResaleAssumption

\* The invariant, of logs L up to block h, rows R, marked logs M, passes s and t and perils P.
LogOf == [listing : Listings, kind : Market!Kinds, block : Nat]
OfIn(L, l, kind) == {i \in DOMAIN L : L[i].listing = l /\ L[i].kind = kind}
BeforeIn(L, i, kind) == {j \in OfIn(L, L[i].listing, kind) : j < i}
LoggedIn(L, l, kind, b) == {i \in DOMAIN L : L[i].listing = l /\ L[i].kind = kind /\ L[i].block <= b}
AtIn(L, l, b) ==
  Market!ListingFrom(LoggedIn(L, l, "Created", b), LoggedIn(L, l, "Cancelled", b), LoggedIn(L, l, "Expired", b), LoggedIn(L, l, "Sold", b))
SnapIn(L, i) == AtIn(L, L[i].listing, L[i].block)
ClosedIn(L, h, i) == i \in DOMAIN L /\ L[i].block < h
PassedIn(s, i) == i < s.at \/ (i = s.at /\ s.step = "done")
ByClock(E, l, snap) == IF snap.status = "ACTIVE" /\ l \in E THEN [snap EXCEPT !.status = "EXPIRED"] ELSE snap

ScanOf == [from : 1..(MaxLogs + 1), at : 1..(MaxLogs + 1), step : {"apply", "read", "write", "done"}, snap : Market!Rows]
SettleOf == [at : 1..MaxLogs, step : {"idle", "apply", "read", "write", "done"}, snap : Market!Rows]

LogsOK(L, h) == L \in Seq(LogOf) /\ Len(L) <= MaxLogs /\ h \in Nat
RowsOK(L, R, M) == R \in [Listings -> Market!Rows] /\ M \subseteq DOMAIN L
PassesOK(s, t) == s \in ScanOf /\ t \in SettleOf
ChainIn(L, h) ==
  /\ \A i \in DOMAIN L : L[i].block <= h
  /\ \A i, j \in DOMAIN L : i <= j => L[i].block <= L[j].block
  /\ \A l \in Listings : Cardinality(OfIn(L, l, "Sold")) <= Amount
  /\ \A i \in DOMAIN L : L[i].kind # "Created" =>
       /\ BeforeIn(L, i, "Created") # {} /\ BeforeIn(L, i, "Cancelled") = {} /\ BeforeIn(L, i, "Expired") = {}
       /\ Cardinality(BeforeIn(L, i, "Sold")) < Amount
MarksIn(L, h, M) == \A i \in M : ClosedIn(L, h, i)
ScanIn(L, M, s) ==
  /\ s.from <= s.at /\ s.at <= Len(L) + 1
  /\ \A i \in DOMAIN L : i < s.at => i \in M
  /\ s.step # "apply" => s.at \in M
  /\ s.step = "write" => s.snap = SnapIn(L, s.at)
SettleIn(L, h, M, t) ==
  /\ t.step # "idle" => ClosedIn(L, h, t.at)
  /\ t.step \in {"read", "write", "done"} => t.at \in M
  /\ t.step = "write" => t.snap = SnapIn(L, t.at)
TriesIn(t, A) == t.step = "apply" => A[t.at] < MaxAttempts
MirroredOf(L, h, E, R, s, l) ==
  (\A i \in DOMAIN L : L[i].listing = l /\ ClosedIn(L, h, i) => PassedIn(s, i)) =>
     R[l] = AtIn(L, l, h - 1) \/ R[l] = ByClock(E, l, AtIn(L, l, h - 1))
MirroredIn(L, h, E, R, s, P) == "overtaken" \notin P => \A l \in Listings : MirroredOf(L, h, E, R, s, l)
SeparateIn(L, P) ==
  "same block" \notin P => \A i, j \in DOMAIN L : i # j /\ L[i].listing = L[j].listing => L[i].block # L[j].block
InTurnIn(L, M, P) == "ahead" \notin P => \A i \in M, j \in DOMAIN L : j < i /\ L[j].listing = L[i].listing => j \in M
ReadyOf(L, R, M, l) ==
  OfIn(L, l, "Created") \cap M # {} =>
    /\ R[l].left >= Amount - Cardinality(OfIn(L, l, "Sold") \cap M)
    /\ R[l].status = "ACTIVE" \/ R[l].left = 0 \/ OfIn(L, l, "Cancelled") \cap M # {} \/ OfIn(L, l, "Expired") \cap M # {}
ReadyIn(L, R, M, P) == P \cap {"same block", "ahead", "elapsed"} = {} => \A l \in Listings : ReadyOf(L, R, M, l)

LEMMA OfIs ==
  ASSUME NEW l, NEW kind
  PROVE  Market!Of(l, kind) = OfIn(v1, l, kind) /\ Market!Of(l, kind)' = OfIn(v1', l, kind)
BY DEF Market!Of, OfIn, Market!Ids

LEMMA BeforeIs ==
  ASSUME NEW i, NEW kind
  PROVE  Market!Before(i, kind) = BeforeIn(v1, i, kind) /\ Market!Before(i, kind)' = BeforeIn(v1', i, kind)
<1>1. Market!Before(i, kind) = BeforeIn(v1, i, kind)
  BY DEF Market!Of, OfIn, Market!Ids, Market!Before, BeforeIn
<1>2. Market!Before(i, kind)' = BeforeIn(v1', i, kind)
  BY DEF Market!Of, OfIn, Market!Ids, Market!Before, BeforeIn
<1> QED BY <1>1, <1>2

LEMMA MarkedIs ==
  ASSUME NEW l, NEW kind
  PROVE  /\ Market!MarkedOf(l, kind) = OfIn(v1, l, kind) \cap v6
         /\ Market!MarkedOf(l, kind)' = OfIn(v1', l, kind) \cap v6'
BY OfIs DEF Market!MarkedOf

LEMMA LoggedIs ==
  ASSUME NEW l, NEW kind, NEW b
  PROVE  Market!Logged(l, kind, b) = LoggedIn(v1, l, kind, b) /\ Market!Logged(l, kind, b)' = LoggedIn(v1', l, kind, b)
BY DEF Market!Logged, LoggedIn, Market!Ids

LEMMA ListingIs ==
  ASSUME NEW l, NEW b
  PROVE  Market!ListingAt(l, b) = AtIn(v1, l, b) /\ Market!ListingAt(l, b)' = AtIn(v1', l, b)
<1>1. Market!ListingAt(l, b) = AtIn(v1, l, b)
  BY LoggedIs DEF Market!ListingAt, AtIn
<1>2. Market!ListingAt(l, b)' = AtIn(v1', l, b)
  BY LoggedIs DEF Market!ListingAt, AtIn
<1> QED BY <1>1, <1>2

LEMMA SnapshotIs ==
  ASSUME NEW i
  PROVE  Market!Snapshot(i) = SnapIn(v1, i) /\ Market!Snapshot(i)' = SnapIn(v1', i)
<1>1. Market!Snapshot(i) = SnapIn(v1, i)
  BY ListingIs DEF Market!Snapshot, SnapIn
<1>2. Market!Snapshot(i)' = SnapIn(v1', i)
  BY ListingIs DEF Market!Snapshot, SnapIn
<1> QED BY <1>1, <1>2

LEMMA PassesAre ==
  ASSUME NEW l, NEW i, NEW snap
  PROVE  /\ Market!Closed(i) <=> ClosedIn(v1, v2, i)
         /\ Market!Closed(i)' <=> ClosedIn(v1', v2', i)
         /\ Market!Passed(i) <=> PassedIn(v7, i)
         /\ Market!Passed(i)' <=> PassedIn(v7', i)
         /\ Market!Reconciled(l, snap) = ByClock(v3, l, snap) /\ Market!Reconciled(l, snap)' = ByClock(v3', l, snap)
BY DEF Market!Ids, Market!Closed, ClosedIn, Market!Passed, PassedIn, Market!Reconciled, ByClock

InvIn(L, h, E, R, M, s, t, A, P) ==
  /\ LogsOK(L, h) /\ RowsOK(L, R, M) /\ PassesOK(s, t) /\ A \in [1..MaxLogs -> 0..MaxAttempts]
  /\ ChainIn(L, h) /\ MarksIn(L, h, M) /\ ScanIn(L, M, s) /\ SettleIn(L, h, M, t) /\ TriesIn(t, A)
  /\ MirroredIn(L, h, E, R, s, P) /\ SeparateIn(L, P) /\ InTurnIn(L, M, P) /\ ReadyIn(L, R, M, P)

LEMMA ResaleIs == Market!ResaleIInv <=> InvIn(v1, v2, v3, v5, v6, v7, v8, v9, v10)
<1>1. Market!TypeOK <=> LogsOK(v1, v2) /\ RowsOK(v1, v5, v6) /\ PassesOK(v7, v8) /\ v9 \in [1..MaxLogs -> 0..MaxAttempts]
  BY DEF Market!TypeOK, LogsOK, RowsOK, PassesOK, LogOf, ScanOf, SettleOf, Market!Ids
<1>2. Market!ChainTrue <=> ChainIn(v1, v2)
  <2>1. ASSUME NEW l PROVE Cardinality(Market!Of(l, "Sold")) <= Amount <=> Cardinality(OfIn(v1, l, "Sold")) <= Amount
    BY OfIs, MarketCount
  <2>2. ASSUME NEW i
        PROVE  /\ Market!Before(i, "Created") = BeforeIn(v1, i, "Created") /\ Market!Before(i, "Cancelled") = BeforeIn(v1, i, "Cancelled")
               /\ Market!Before(i, "Expired") = BeforeIn(v1, i, "Expired") /\ Market!Before(i, "Sold") = BeforeIn(v1, i, "Sold")
    BY BeforeIs
  <2> QED BY <2>1, <2>2, MarketCount DEF Market!ChainTrue, ChainIn, Market!Ids
<1>3. Market!InHand <=> MarksIn(v1, v2, v6) /\ ScanIn(v1, v6, v7) /\ SettleIn(v1, v2, v6, v8) /\ TriesIn(v8, v9)
  BY PassesAre, SnapshotIs DEF Market!InHand, MarksIn, ScanIn, SettleIn, TriesIn, Market!Ids
<1>4. Market!Mirrored <=> MirroredIn(v1, v2, v3, v5, v7, v10)
  BY PassesAre, ListingIs DEF Market!Mirrored, MirroredIn, MirroredOf, Market!AsOnChain, Market!Ids
<1>5. Market!Separate <=> SeparateIn(v1, v10)
  BY DEF Market!Separate, SeparateIn, Market!Ids
<1>6. Market!InTurn <=> InTurnIn(v1, v6, v10)
  BY DEF Market!InTurn, InTurnIn, Market!Ids
<1>7. Market!Ready <=> ReadyIn(v1, v5, v6, v10)
  <2>1. ASSUME NEW l
        PROVE  /\ Market!MarkedOf(l, "Created") = OfIn(v1, l, "Created") \cap v6 /\ Market!MarkedOf(l, "Sold") = OfIn(v1, l, "Sold") \cap v6
               /\ Market!MarkedOf(l, "Cancelled") = OfIn(v1, l, "Cancelled") \cap v6 /\ Market!MarkedOf(l, "Expired") = OfIn(v1, l, "Expired") \cap v6
    BY MarkedIs
  <2> QED BY <2>1, MarketCount DEF Market!Ready, ReadyIn, ReadyOf
<1> QED BY <1>1, <1>2, <1>3, <1>4, <1>5, <1>6, <1>7 DEF Market!ResaleIInv, InvIn

LEMMA ResaleIsNext == Market!ResaleIInv' <=> InvIn(v1', v2', v3', v5', v6', v7', v8', v9', v10')
<1>1. Market!TypeOK' <=> LogsOK(v1', v2') /\ RowsOK(v1', v5', v6') /\ PassesOK(v7', v8') /\ v9' \in [1..MaxLogs -> 0..MaxAttempts]
  BY DEF Market!TypeOK, LogsOK, RowsOK, PassesOK, LogOf, ScanOf, SettleOf, Market!Ids
<1>2. Market!ChainTrue' <=> ChainIn(v1', v2')
  <2>1. ASSUME NEW l PROVE Cardinality(Market!Of(l, "Sold")') <= Amount <=> Cardinality(OfIn(v1', l, "Sold")) <= Amount
    BY OfIs, MarketCount
  <2>2. ASSUME NEW i
        PROVE  /\ Market!Before(i, "Created")' = BeforeIn(v1', i, "Created") /\ Market!Before(i, "Cancelled")' = BeforeIn(v1', i, "Cancelled")
               /\ Market!Before(i, "Expired")' = BeforeIn(v1', i, "Expired") /\ Market!Before(i, "Sold")' = BeforeIn(v1', i, "Sold")
    BY BeforeIs
  <2> QED BY <2>1, <2>2, MarketCount DEF Market!ChainTrue, ChainIn, Market!Ids
<1>3. Market!InHand' <=> MarksIn(v1', v2', v6') /\ ScanIn(v1', v6', v7') /\ SettleIn(v1', v2', v6', v8') /\ TriesIn(v8', v9')
  BY PassesAre, SnapshotIs DEF Market!InHand, MarksIn, ScanIn, SettleIn, TriesIn, Market!Ids
<1>4. Market!Mirrored' <=> MirroredIn(v1', v2', v3', v5', v7', v10')
  BY PassesAre, ListingIs DEF Market!Mirrored, MirroredIn, MirroredOf, Market!AsOnChain, Market!Ids
<1>5. Market!Separate' <=> SeparateIn(v1', v10')
  BY DEF Market!Separate, SeparateIn, Market!Ids
<1>6. Market!InTurn' <=> InTurnIn(v1', v6', v10')
  BY DEF Market!InTurn, InTurnIn, Market!Ids
<1>7. Market!Ready' <=> ReadyIn(v1', v5', v6', v10')
  <2>1. ASSUME NEW l
        PROVE  /\ Market!MarkedOf(l, "Created")' = OfIn(v1', l, "Created") \cap v6' /\ Market!MarkedOf(l, "Sold")' = OfIn(v1', l, "Sold") \cap v6'
               /\ Market!MarkedOf(l, "Cancelled")' = OfIn(v1', l, "Cancelled") \cap v6' /\ Market!MarkedOf(l, "Expired")' = OfIn(v1', l, "Expired") \cap v6'
    BY MarkedIs
  <2> QED BY <2>1, MarketCount DEF Market!Ready, ReadyIn, ReadyOf
<1> QED BY <1>1, <1>2, <1>3, <1>4, <1>5, <1>6, <1>7 DEF Market!ResaleIInv, InvIn

-----------------------------------------------------------------------------
\* Logs and the listings they tell of.
LEMMA LogFacts ==
  ASSUME NEW L, NEW h, LogsOK(L, h)
  PROVE  /\ Len(L) \in Nat /\ DOMAIN L = 1..Len(L) /\ IsFiniteSet(DOMAIN L)
         /\ \A i \in DOMAIN L : i \in Nat /\ L[i] \in LogOf /\ L[i].listing \in Listings /\ L[i].kind \in Market!Kinds /\ L[i].block \in Nat
<1>1. L \in Seq(LogOf)
  BY DEF LogsOK
<1>2. Len(L) \in Nat /\ DOMAIN L = 1..Len(L) /\ \A i \in DOMAIN L : L[i] \in LogOf
  BY <1>1
<1>3. IsFiniteSet(1..Len(L))
  BY <1>2, FS_Interval
<1>4. \A i \in DOMAIN L : L[i].listing \in Listings /\ L[i].kind \in Market!Kinds /\ L[i].block \in Nat
  BY <1>2 DEF LogOf
<1>5. \A i \in DOMAIN L : i \in Nat
  BY <1>2
<1> QED BY <1>2, <1>3, <1>4, <1>5

\* Sets of logs can be counted.
LEMMA CountLogs ==
  ASSUME NEW L, NEW h, LogsOK(L, h)
  PROVE  \A S, T : S \subseteq T /\ T \subseteq DOMAIN L =>
           /\ IsFiniteSet(S) /\ Cardinality(S) \in Nat /\ Cardinality(T) \in Nat /\ Cardinality(S) <= Cardinality(T)
           /\ \A i : i \notin S => Cardinality(S \cup {i}) = Cardinality(S) + 1
<1> SUFFICES ASSUME NEW S, NEW T, S \subseteq T, T \subseteq DOMAIN L
             PROVE  /\ IsFiniteSet(S) /\ Cardinality(S) \in Nat /\ Cardinality(T) \in Nat /\ Cardinality(S) <= Cardinality(T)
                    /\ \A i : i \notin S => Cardinality(S \cup {i}) = Cardinality(S) + 1
  OBVIOUS
<1>1. IsFiniteSet(T)
  BY LogFacts, FS_Subset
<1>2. IsFiniteSet(S) /\ Cardinality(S) <= Cardinality(T)
  BY <1>1, FS_Subset
<1>3. Cardinality(S) \in Nat /\ Cardinality(T) \in Nat
  BY <1>1, <1>2, FS_CardinalityType
<1>4. \A i : i \notin S => Cardinality(S \cup {i}) = Cardinality(S) + 1
  BY <1>2, FS_AddElement
<1> QED BY <1>2, <1>3, <1>4

LEMMA AtSame ==
  ASSUME NEW L, NEW l, NEW b, NEW L2, NEW b2, \A kind \in Market!Kinds : LoggedIn(L2, l, kind, b2) = LoggedIn(L, l, kind, b)
  PROVE  AtIn(L2, l, b2) = AtIn(L, l, b)
<1>1. /\ LoggedIn(L2, l, "Created", b2) = LoggedIn(L, l, "Created", b)
      /\ LoggedIn(L2, l, "Cancelled", b2) = LoggedIn(L, l, "Cancelled", b)
      /\ LoggedIn(L2, l, "Expired", b2) = LoggedIn(L, l, "Expired", b)
      /\ LoggedIn(L2, l, "Sold", b2) = LoggedIn(L, l, "Sold", b)
  BY DEF Market!Kinds
<1> QED BY <1>1 DEF AtIn

LEMMA AtTyped ==
  ASSUME NEW L, NEW h, LogsOK(L, h), ChainIn(L, h), NEW l \in Listings, NEW b
  PROVE  /\ AtIn(L, l, b) \in Market!Rows
         /\ LoggedIn(L, l, "Created", b) # {} =>
              /\ AtIn(L, l, b).left = Amount - Cardinality(LoggedIn(L, l, "Sold", b))
              /\ \/ AtIn(L, l, b).status = "ACTIVE" \/ AtIn(L, l, b).left = 0
                 \/ LoggedIn(L, l, "Cancelled", b) # {} \/ LoggedIn(L, l, "Expired", b) # {}
         /\ AtIn(L, l, b).status = "ACTIVE" =>
              /\ LoggedIn(L, l, "Created", b) # {} /\ LoggedIn(L, l, "Cancelled", b) = {} /\ LoggedIn(L, l, "Expired", b) = {}
              /\ Cardinality(LoggedIn(L, l, "Sold", b)) < Amount
<1> DEFINE sold == LoggedIn(L, l, "Sold", b)
           left == Amount - Cardinality(sold)
<1>1. sold \subseteq OfIn(L, l, "Sold") /\ OfIn(L, l, "Sold") \subseteq DOMAIN L
  BY DEF LoggedIn, OfIn
<1>2. Cardinality(sold) \in Nat /\ Cardinality(sold) <= Cardinality(OfIn(L, l, "Sold")) /\ Cardinality(OfIn(L, l, "Sold")) \in Nat
  BY <1>1, CountLogs
<1>3. left \in 0..Amount
  BY <1>2, MarketParameters DEF ChainIn
<1>4. AtIn(L, l, b) = IF LoggedIn(L, l, "Created", b) = {} THEN Market!NoListing
                      ELSE [left |-> left, status |-> CASE LoggedIn(L, l, "Cancelled", b) # {} -> "CANCELLED"
                     [] LoggedIn(L, l, "Cancelled", b) = {} /\ LoggedIn(L, l, "Expired", b) # {} -> "EXPIRED"
                     [] LoggedIn(L, l, "Cancelled", b) = {} /\ LoggedIn(L, l, "Expired", b) = {} -> IF left = 0 THEN "SOLD" ELSE "ACTIVE"]
  BY MarketCount DEF AtIn, Market!ListingFrom
<1>5. left = 0 <=> Cardinality(sold) = Amount
  BY <1>2, MarketParameters
<1>6. Cardinality(sold) <= Amount
  BY <1>2, MarketParameters DEF ChainIn
<1> HIDE DEF left
<1>7. AtIn(L, l, b) \in Market!Rows
  BY <1>3, <1>4, MarketParameters DEF Market!Rows, Market!NoListing
<1>8. ASSUME LoggedIn(L, l, "Created", b) # {}
      PROVE  /\ AtIn(L, l, b).left = left
             /\ \/ AtIn(L, l, b).status = "ACTIVE" \/ AtIn(L, l, b).left = 0
                \/ LoggedIn(L, l, "Cancelled", b) # {} \/ LoggedIn(L, l, "Expired", b) # {}
  BY <1>4, <1>8
<1>9. ASSUME AtIn(L, l, b).status = "ACTIVE"
      PROVE  /\ LoggedIn(L, l, "Created", b) # {} /\ LoggedIn(L, l, "Cancelled", b) = {} /\ LoggedIn(L, l, "Expired", b) = {}
             /\ Cardinality(sold) < Amount
  <2>1. LoggedIn(L, l, "Created", b) # {}
    BY <1>4, <1>9 DEF Market!NoListing
  <2>2. LoggedIn(L, l, "Cancelled", b) = {} /\ LoggedIn(L, l, "Expired", b) = {} /\ left # 0
    BY <1>4, <1>9, <2>1
  <2>3. Cardinality(sold) < Amount
    BY <1>2, <1>5, <1>6, <2>2, MarketParameters
  <2> QED BY <2>1, <2>2, <2>3
<1> QED BY <1>7, <1>8, <1>9 DEF left

\* The last closed log of a listing leaves it as it is now.
LEMMA AtLast ==
  ASSUME NEW L, NEW h, LogsOK(L, h), ChainIn(L, h), NEW i, ClosedIn(L, h, i),
         \A j \in DOMAIN L : L[j].listing = L[i].listing /\ ClosedIn(L, h, j) => j <= i
  PROVE  SnapIn(L, i) = AtIn(L, L[i].listing, h - 1)
<1>1. i \in DOMAIN L /\ L[i].block \in Nat /\ h \in Nat /\ L[i].block <= h - 1
  BY LogFacts DEF ClosedIn, LogsOK
<1>2. ASSUME NEW kind \in Market!Kinds, NEW j \in DOMAIN L, L[j].listing = L[i].listing
      PROVE  L[j].block <= L[i].block <=> L[j].block <= h - 1
  <2>1. L[j].block \in Nat
    BY LogFacts
  <2>2. L[j].block <= h - 1 => j <= i
    BY <1>1, <1>2, <2>1 DEF ClosedIn
  <2> QED BY <1>1, <2>1, <2>2 DEF ChainIn
<1>3. \A kind \in Market!Kinds : LoggedIn(L, L[i].listing, kind, L[i].block) = LoggedIn(L, L[i].listing, kind, h - 1)
  BY <1>2 DEF LoggedIn
<1> QED BY <1>3, AtSame DEF SnapIn

\* A block without a log of the listing leaves it as it was.
LEMMA AtQuiet ==
  ASSUME NEW L, NEW h, LogsOK(L, h), NEW l, \A i \in DOMAIN L : L[i].listing = l => L[i].block # h
  PROVE  AtIn(L, l, h) = AtIn(L, l, h - 1)
<1>1. \A i \in DOMAIN L : L[i].listing = l => (L[i].block <= h <=> L[i].block <= h - 1)
  BY LogFacts DEF LogsOK
<1>2. \A kind \in Market!Kinds : LoggedIn(L, l, kind, h) = LoggedIn(L, l, kind, h - 1)
  BY <1>1 DEF LoggedIn
<1> QED BY <1>2, AtSame

LEMMA Appended ==
  ASSUME NEW L, NEW h, LogsOK(L, h), NEW e \in LogOf
  PROVE  LET n == Len(L) + 1
             L2 == Append(L, e)
         IN  /\ L2 \in Seq(LogOf) /\ Len(L2) = n /\ n \in Nat /\ n \notin DOMAIN L /\ DOMAIN L2 = DOMAIN L \cup {n}
             /\ \A i \in DOMAIN L : L2[i] = L[i] /\ i < n
             /\ L2[n] = e
<1>1. L \in Seq(LogOf)
  BY DEF LogsOK
<1> QED BY <1>1

LEMMA AtAppended ==
  ASSUME NEW L, NEW h, LogsOK(L, h), NEW e \in LogOf, NEW l, NEW b \in Int, b < e.block
  PROVE  AtIn(Append(L, e), l, b) = AtIn(L, l, b)
<1> DEFINE n == Len(L) + 1
           L2 == Append(L, e)
<1>1. n \notin DOMAIN L /\ DOMAIN L2 = DOMAIN L \cup {n} /\ (\A i \in DOMAIN L : L2[i] = L[i]) /\ L2[n] = e
  BY Appended
<1>2. e.block \in Nat
  BY DEF LogOf
<1> HIDE DEF n, L2
<1>3. \A kind \in Market!Kinds : LoggedIn(L2, l, kind, b) = LoggedIn(L, l, kind, b)
  BY <1>1, <1>2 DEF LoggedIn
<1>4. AtIn(L2, l, b) = AtIn(L, l, b)
  BY <1>3, AtSame
<1> QED BY <1>4 DEF L2

-----------------------------------------------------------------------------
\* The marketplace logs something.
LEMMA ChainLogged ==
  ASSUME NEW L, NEW h, LogsOK(L, h), ChainIn(L, h), NEW l \in Listings, NEW kind \in Market!Kinds,
         kind # "Created" => AtIn(L, l, h).status = "ACTIVE"
  PROVE  ChainIn(Append(L, [listing |-> l, kind |-> kind, block |-> h]), h)
<1> DEFINE e == [listing |-> l, kind |-> kind, block |-> h]
           n == Len(L) + 1
           L2 == Append(L, e)
<1>1. e \in LogOf /\ e.listing = l /\ e.kind = kind /\ e.block = h /\ h \in Nat
  BY DEF LogOf, LogsOK
<1> HIDE DEF e
<1>2. /\ n \in Nat /\ n \notin DOMAIN L /\ DOMAIN L2 = DOMAIN L \cup {n} /\ L2[n] = e
      /\ \A i \in DOMAIN L : L2[i] = L[i] /\ i < n /\ i \in Nat /\ L[i].block \in Nat
  BY <1>1, Appended, LogFacts
<1> HIDE DEF n, L2
<1>3. \A i \in DOMAIN L2 : L2[i].block <= h
  BY <1>1, <1>2 DEF ChainIn
<1>4. \A i, j \in DOMAIN L2 : i <= j => L2[i].block <= L2[j].block
  BY <1>1, <1>2, <1>3 DEF ChainIn
<1>5. \A k : LoggedIn(L, k, "Sold", h) = OfIn(L, k, "Sold") /\ LoggedIn(L, k, "Created", h) = OfIn(L, k, "Created")
            /\ LoggedIn(L, k, "Cancelled", h) = OfIn(L, k, "Cancelled") /\ LoggedIn(L, k, "Expired", h) = OfIn(L, k, "Expired")
  BY DEF ChainIn, LoggedIn, OfIn
<1>6. kind # "Created" => /\ OfIn(L, l, "Created") # {} /\ OfIn(L, l, "Cancelled") = {} /\ OfIn(L, l, "Expired") = {}
                          /\ Cardinality(OfIn(L, l, "Sold")) < Amount
  BY <1>5, AtTyped
<1>7. ASSUME NEW k \in Listings
      PROVE  Cardinality(OfIn(L2, k, "Sold")) <= Amount
  <2>1. OfIn(L, k, "Sold") \subseteq DOMAIN L /\ Cardinality(OfIn(L, k, "Sold")) <= Amount
    BY DEF OfIn, ChainIn
  <2>2. Cardinality(OfIn(L, k, "Sold")) \in Nat /\ Cardinality(OfIn(L, k, "Sold") \cup {n}) = Cardinality(OfIn(L, k, "Sold")) + 1
    BY <1>2, <2>1, CountLogs
  <2>3. CASE k = l /\ kind = "Sold"
    <3>1. OfIn(L2, k, "Sold") = OfIn(L, k, "Sold") \cup {n}
      BY <1>1, <1>2, <2>3 DEF OfIn
    <3>2. Cardinality(OfIn(L, k, "Sold")) < Amount
      BY <1>6, <2>3
    <3> QED BY <2>2, <3>1, <3>2, MarketParameters
  <2>4. CASE ~(k = l /\ kind = "Sold")
    <3>1. OfIn(L2, k, "Sold") = OfIn(L, k, "Sold")
      BY <1>1, <1>2, <2>4 DEF OfIn
    <3> QED BY <2>1, <3>1
  <2> QED BY <2>3, <2>4
<1>8. \A what : \A i \in DOMAIN L : BeforeIn(L2, i, what) = BeforeIn(L, i, what)
  BY <1>2 DEF BeforeIn, OfIn
<1>9. \A what : BeforeIn(L2, n, what) = OfIn(L, l, what)
  BY <1>1, <1>2 DEF BeforeIn, OfIn
<1>10. \A i \in DOMAIN L2 : L2[i].kind # "Created" =>
        /\ BeforeIn(L2, i, "Created") # {} /\ BeforeIn(L2, i, "Cancelled") = {} /\ BeforeIn(L2, i, "Expired") = {}
        /\ Cardinality(BeforeIn(L2, i, "Sold")) < Amount
  <2>1. ASSUME NEW i \in DOMAIN L, L[i].kind # "Created"
        PROVE  /\ BeforeIn(L2, i, "Created") # {} /\ BeforeIn(L2, i, "Cancelled") = {} /\ BeforeIn(L2, i, "Expired") = {}
               /\ Cardinality(BeforeIn(L2, i, "Sold")) < Amount
    BY <1>8, <2>1 DEF ChainIn
  <2>2. kind # "Created" =>
           /\ BeforeIn(L2, n, "Created") # {} /\ BeforeIn(L2, n, "Cancelled") = {} /\ BeforeIn(L2, n, "Expired") = {}
           /\ Cardinality(BeforeIn(L2, n, "Sold")) < Amount
    BY <1>6, <1>9
  <2> QED BY <1>1, <1>2, <2>1, <2>2
<1>11. ChainIn(L2, h)
  BY <1>3, <1>4, <1>7, <1>10 DEF ChainIn
<1> QED BY <1>11 DEF L2, e

MarketInv == InvIn(v1, v2, v3, v5, v6, v7, v8, v9, v10)

LEMMA LogStep ==
  ASSUME MarketInv, NEW l \in Listings, NEW kind \in Market!Kinds, Market!Log(l, kind),
         kind # "Created" => AtIn(v1, l, v2).status = "ACTIVE"
  PROVE  InvIn(v1', v2', v3', v5', v6', v7', v8', v9', v10')
<1> DEFINE e == [listing |-> l, kind |-> kind, block |-> v2]
           n == Len(v1) + 1
<1>0. v1' = Append(v1, e)
  BY DEF Market!Log
<1>1. /\ v2' = v2 /\ v3' = v3 /\ v5' = v5 /\ v6' = v6 /\ v7' = v7 /\ v8' = v8 /\ v9' = v9
      /\ Len(v1) < MaxLogs
  BY DEF Market!Log, Market!mirror
<1>17. v10' = IF \E i \in DOMAIN v1 : v1[i].listing = l /\ v1[i].block = v2 THEN v10 \cup {"same block"} ELSE v10
  BY DEF Market!Log, Market!Ids
<1>2. LogsOK(v1, v2) /\ ChainIn(v1, v2) /\ RowsOK(v1, v5, v6) /\ PassesOK(v7, v8) /\ v9 \in [1..MaxLogs -> 0..MaxAttempts]
  BY DEF MarketInv, InvIn
<1>3. e \in LogOf /\ e.listing = l /\ e.block = v2 /\ v2 \in Nat
  BY <1>2 DEF LogOf, LogsOK
<1>4. ChainIn(v1', v2')
  BY <1>0, <1>1, <1>2, ChainLogged
<1> HIDE DEF e
<1>5. /\ v1' \in Seq(LogOf) /\ Len(v1') = n /\ n \in Nat /\ n \notin DOMAIN v1 /\ DOMAIN v1' = DOMAIN v1 \cup {n} /\ v1'[n] = e
      /\ Len(v1) \in Nat
      /\ \A i \in DOMAIN v1 : v1'[i] = v1[i] /\ i < n /\ i \in Nat /\ v1[i].block \in Nat
  <2>1. v1' = Append(v1, e) /\ LogsOK(v1, v2) /\ e \in LogOf
    BY <1>0, <1>2, <1>3
  <2>2. /\ v1' \in Seq(LogOf) /\ Len(v1') = n /\ n \in Nat /\ n \notin DOMAIN v1 /\ DOMAIN v1' = DOMAIN v1 \cup {n} /\ v1'[n] = e
        /\ \A i \in DOMAIN v1 : v1'[i] = v1[i] /\ i < n
    BY ONLY <2>1, Appended
  <2>3. Len(v1) \in Nat /\ \A i \in DOMAIN v1 : i \in Nat /\ v1[i].block \in Nat
    BY ONLY <2>1, LogFacts
  <2> QED BY <2>2, <2>3
<1> HIDE DEF n
<1>6. LogsOK(v1', v2') /\ RowsOK(v1', v5', v6')
  <2>1. Len(v1') <= MaxLogs
    <3>1. Len(v1') = Len(v1) + 1
      BY <1>5 DEF n
    <3> QED BY ONLY <3>1, <1>1, <1>5, MarketParameters
  <2> QED BY <1>1, <1>2, <1>5, <2>1 DEF LogsOK, RowsOK
<1>7. \A i : ClosedIn(v1', v2', i) <=> ClosedIn(v1, v2, i)
  BY <1>1, <1>3, <1>5 DEF ClosedIn
<1>8. \A k : AtIn(v1', k, v2 - 1) = AtIn(v1, k, v2 - 1)
  <2>1. v1' = Append(v1, e) /\ LogsOK(v1, v2) /\ e \in LogOf /\ v2 - 1 \in Int /\ v2 - 1 < e.block
    BY <1>0, <1>2, <1>3
  <2> QED BY ONLY <2>1, AtAppended
<1>9. ASSUME NEW i, ClosedIn(v1, v2, i)
      PROVE  SnapIn(v1', i) = SnapIn(v1, i)
  <2>1. i \in DOMAIN v1 /\ v1[i].block < v2 /\ v1'[i] = v1[i] /\ v1[i].block \in Int
    BY <1>5, <1>9 DEF ClosedIn
  <2>2. AtIn(v1', v1[i].listing, v1[i].block) = AtIn(v1, v1[i].listing, v1[i].block)
    BY <1>0, <1>2, <1>3, <2>1, AtAppended
  <2> QED BY <2>1, <2>2 DEF SnapIn
<1>10. MarksIn(v1', v2', v6')
  BY <1>1, <1>7 DEF MarketInv, InvIn, MarksIn
<1>11. ScanIn(v1', v6', v7')
  <2>1. ScanIn(v1, v6, v7) /\ MarksIn(v1, v2, v6) /\ v7.at \in Nat
    BY <1>2 DEF MarketInv, InvIn, PassesOK, ScanOf
  <2>2. v7.step # "apply" => ClosedIn(v1, v2, v7.at)
    BY <2>1 DEF ScanIn, MarksIn
  <2>3. \A i \in DOMAIN v1' : i < v7.at => i \in v6
    BY <1>5, <2>1 DEF ScanIn
  <2>4. v7.step = "write" => v7.snap = SnapIn(v1', v7.at)
    BY <1>9, <2>1, <2>2 DEF ScanIn
  <2>5. v7.at <= Len(v1') + 1
    BY <1>5, <2>1 DEF ScanIn, n
  <2>6. ScanIn(v1', v6, v7)
    BY <2>1, <2>3, <2>4, <2>5 DEF ScanIn
  <2> QED BY <1>1, <2>6
<1>12. SettleIn(v1', v2', v6', v8')
  <2>1. SettleIn(v1, v2, v6, v8)
    BY DEF MarketInv, InvIn
  <2> QED BY <1>1, <1>7, <1>9, <2>1 DEF SettleIn
<1>18. TriesIn(v8', v9')
  BY <1>1 DEF MarketInv, InvIn
<1>13. MirroredIn(v1', v2', v3', v5', v7', v10')
  <2>1. "overtaken" \notin v10' => MirroredIn(v1, v2, v3, v5, v7, v10) /\ "overtaken" \notin v10
    BY <1>17 DEF MarketInv, InvIn
  <2>2. ASSUME NEW k \in Listings, MirroredOf(v1, v2, v3, v5, v7, k)
        PROVE  MirroredOf(v1', v2', v3', v5', v7', k)
    <3>1. \A i \in DOMAIN v1 : v1[i].listing = k /\ ClosedIn(v1, v2, i) => i \in DOMAIN v1' /\ v1'[i].listing = k /\ ClosedIn(v1', v2', i)
      BY <1>5, <1>7
    <3> QED BY <1>1, <1>8, <2>2, <3>1 DEF MirroredOf
  <2> QED BY <2>1, <2>2 DEF MirroredIn
<1>14. SeparateIn(v1', v10')
  <2>1. ASSUME "same block" \notin v10'
        PROVE  /\ SeparateIn(v1, v10) /\ "same block" \notin v10
               /\ \A i \in DOMAIN v1 : v1[i].listing = l => v1[i].block # v2
    BY <1>17, <2>1 DEF MarketInv, InvIn
  <2> QED BY <1>3, <1>5, <2>1 DEF SeparateIn
<1>15. InTurnIn(v1', v6', v10')
  <2>1. InTurnIn(v1, v6, v10) /\ v6 \subseteq DOMAIN v1 /\ ("ahead" \notin v10' => "ahead" \notin v10)
    BY <1>17, <1>2 DEF MarketInv, InvIn, RowsOK
  <2>2. \A i \in v6, j \in DOMAIN v1' : j < i => j \in DOMAIN v1
    BY <1>5, <2>1
  <2> QED BY <1>1, <1>5, <2>1, <2>2 DEF InTurnIn
<1>16. ReadyIn(v1', v5', v6', v10')
  <2>1. ReadyIn(v1, v5, v6, v10) /\ v6 \subseteq DOMAIN v1
    BY <1>2 DEF MarketInv, InvIn, RowsOK
  <2>2. \A k, what : OfIn(v1', k, what) \cap v6 = OfIn(v1, k, what) \cap v6
    BY <1>5, <2>1 DEF OfIn
  <2>3. v10 \subseteq v10'
    BY <1>17
  <2> QED BY <1>1, <2>1, <2>2, <2>3 DEF ReadyIn, ReadyOf
<1> QED BY <1>1, <1>2, <1>4, <1>6, <1>10, <1>11, <1>12, <1>13, <1>14, <1>15, <1>16, <1>18 DEF InvIn

LEMMA BlockStep ==
  ASSUME MarketInv, Market!CloseBlock
  PROVE  InvIn(v1', v2', v3', v5', v6', v7', v8', v9', v10')
<1>1. /\ v1' = v1 /\ v2' = v2 + 1 /\ v3' = v3 /\ v5' = v5 /\ v6' = v6 /\ v7' = v7 /\ v8' = v8 /\ v9' = v9 /\ v10' = v10
  BY DEF Market!CloseBlock, Market!mirror
<1>2. LogsOK(v1, v2) /\ ChainIn(v1, v2) /\ v2 \in Nat /\ MarksIn(v1, v2, v6) /\ ScanIn(v1, v6, v7)
  BY DEF MarketInv, InvIn, LogsOK
<1>3. \A i \in DOMAIN v1 : v1[i].block \in Nat /\ v1[i].block <= v2
  BY <1>2, LogFacts DEF ChainIn
<1>4. LogsOK(v1, v2 + 1) /\ ChainIn(v1, v2 + 1)
  BY <1>2, <1>3 DEF LogsOK, ChainIn
<1>5. \A i : ClosedIn(v1, v2, i) => ClosedIn(v1, v2 + 1, i)
  BY <1>2, <1>3 DEF ClosedIn
<1>6. MarksIn(v1, v2 + 1, v6) /\ SettleIn(v1, v2 + 1, v6, v8)
  BY <1>2, <1>5 DEF MarketInv, InvIn, MarksIn, SettleIn
<1>7. ASSUME NEW l \in Listings, MirroredOf(v1, v2, v3, v5, v7, l)
      PROVE  MirroredOf(v1, v2 + 1, v3, v5, v7, l)
  <2> SUFFICES ASSUME \A i \in DOMAIN v1 : v1[i].listing = l /\ ClosedIn(v1, v2 + 1, i) => PassedIn(v7, i)
               PROVE  v5[l] = AtIn(v1, l, v2) \/ v5[l] = ByClock(v3, l, AtIn(v1, l, v2))
    BY <1>2 DEF MirroredOf
  <2>1. \A i \in DOMAIN v1 : PassedIn(v7, i) => v1[i].block < v2
    BY <1>2 DEF PassedIn, ScanIn, MarksIn, ClosedIn
  <2>2. \A i \in DOMAIN v1 : ClosedIn(v1, v2 + 1, i)
    BY <1>2, <1>3 DEF ClosedIn
  <2>3. AtIn(v1, l, v2) = AtIn(v1, l, v2 - 1)
    BY <1>2, <2>1, <2>2, AtQuiet
  <2>4. \A i \in DOMAIN v1 : v1[i].listing = l /\ ClosedIn(v1, v2, i) => PassedIn(v7, i)
    BY <1>5
  <2> QED BY <1>7, <2>3, <2>4 DEF MirroredOf
<1>8. MirroredIn(v1, v2 + 1, v3, v5, v7, v10)
  BY <1>7 DEF MarketInv, InvIn, MirroredIn
<1> QED BY <1>1, <1>4, <1>6, <1>8 DEF MarketInv, InvIn

LEMMA ElapseStep ==
  ASSUME MarketInv, NEW l \in Listings, Market!Elapse(l)
  PROVE  InvIn(v1', v2', v3', v5', v6', v7', v8', v9', v10')
<1>1. /\ v1' = v1 /\ v2' = v2 /\ v3' = v3 \cup {l} /\ v5' = v5 /\ v6' = v6 /\ v7' = v7 /\ v8' = v8 /\ v9' = v9 /\ v10' = v10
  BY DEF Market!Elapse, Market!mirror
<1>2. ASSUME NEW k \in Listings, MirroredOf(v1, v2, v3, v5, v7, k)
      PROVE  MirroredOf(v1, v2, v3 \cup {l}, v5, v7, k)
  BY <1>2 DEF MirroredOf, ByClock
<1>3. MirroredIn(v1, v2, v3 \cup {l}, v5, v7, v10)
  BY <1>2 DEF MarketInv, InvIn, MirroredIn
<1> QED BY <1>1, <1>3 DEF MarketInv, InvIn

\* Steps of the passes that write nothing.
LEMMA PassesStep ==
  ASSUME MarketInv, v1' = v1, v2' = v2, v3' = v3, v5' = v5, v6' = v6, v10' = v10,
         PassesOK(v7', v8'), v9' \in [1..MaxLogs -> 0..MaxAttempts],
         ScanIn(v1, v6, v7'), SettleIn(v1, v2, v6, v8'), TriesIn(v8', v9'), \A i \in DOMAIN v1 : PassedIn(v7', i) => PassedIn(v7, i)
  PROVE  InvIn(v1', v2', v3', v5', v6', v7', v8', v9', v10')
<1>1. \A l \in Listings : MirroredOf(v1, v2, v3, v5, v7, l) => MirroredOf(v1, v2, v3, v5, v7', l)
  BY DEF MirroredOf
<1>2. MirroredIn(v1, v2, v3, v5, v7', v10)
  BY <1>1 DEF MarketInv, InvIn, MirroredIn
<1> QED BY <1>2 DEF MarketInv, InvIn

-----------------------------------------------------------------------------
\* A log is projected.
LEMMA ProjectRows ==
  ASSUME MarketInv, NEW i, ClosedIn(v1, v2, i), Market!Project(i)
  PROVE  /\ RowsOK(v1, v5', v6') /\ MarksIn(v1, v2, v6') /\ v6 \subseteq v6' /\ v6' \subseteq v6 \cup {i} /\ i \in v6'
         /\ MirroredIn(v1, v2, v3, v5', v7, v10)
         /\ ReadyIn(v1, v5', v6', v10)
<1>1. /\ LogsOK(v1, v2) /\ RowsOK(v1, v5, v6) /\ MarksIn(v1, v2, v6) /\ ScanIn(v1, v6, v7)
      /\ MirroredIn(v1, v2, v3, v5, v7, v10) /\ ReadyIn(v1, v5, v6, v10)
  BY DEF MarketInv, InvIn
<1>2. CASE i \in v6
  BY <1>1, <1>2 DEF Market!Project, Market!mirror
<1>3. CASE i \notin v6
  <2> DEFINE l == v1[i].listing
             row == v5[l]
             new == Market!Applied(i)
             kind == v1[i].kind
  <2>1. Market!Applies(i) /\ v5' = [v5 EXCEPT ![l] = new] /\ v6' = v6 \cup {i}
    BY <1>3 DEF Market!Project
  <2>2. i \in DOMAIN v1 /\ l \in Listings /\ kind \in Market!Kinds /\ row \in Market!Rows /\ v6 \subseteq DOMAIN v1
    BY <1>1, LogFacts DEF ClosedIn, RowsOK
  <2>3. row.left \in 0..Amount
    BY <2>2 DEF Market!Rows
  <2>4. /\ new \in Market!Rows
        /\ kind = "Created" => new.status = "ACTIVE" /\ new.left = Amount
        /\ kind \in {"Cancelled", "Expired"} => new.left = row.left
        /\ kind = "Sold" => new.left = row.left - 1 /\ (new.status = "ACTIVE" \/ new.left = 0)
    <3>1. CASE kind = "Created"
      BY <3>1, MarketParameters DEF Market!Applied, Market!Rows
    <3>2. CASE kind = "Cancelled"
      BY <2>2, <3>2 DEF Market!Applied, Market!Rows
    <3>3. CASE kind = "Expired"
      BY <2>2, <3>3 DEF Market!Applied, Market!Rows
    <3>4. CASE kind = "Sold"
      <4>1. row.left > 0
        BY <2>1, <3>4 DEF Market!Applies
      <4>2. row.left - 1 \in 0..Amount /\ (row.left = 1 => row.left - 1 = 0)
        BY <2>3, <4>1, MarketParameters
      <4>3. new = [status |-> IF row.left = 1 THEN "SOLD" ELSE "ACTIVE", left |-> row.left - 1]
        BY <3>4 DEF Market!Applied
      <4> HIDE DEF new, row
      <4> QED BY <3>4, <4>2, <4>3 DEF Market!Rows
    <3> QED BY <2>2, <3>1, <3>2, <3>3, <3>4 DEF Market!Kinds
  <2> HIDE DEF new
  <2>5. RowsOK(v1, v5', v6') /\ v5'[l] = new /\ \A k \in Listings : k # l => v5'[k] = v5[k]
    BY <1>1, <2>1, <2>2, <2>4 DEF RowsOK
  <2>6. MarksIn(v1, v2, v6')
    BY <1>1, <2>1 DEF MarksIn
  <2>7. ~PassedIn(v7, i)
    BY <1>1, <1>3, <2>2 DEF PassedIn, ScanIn
  <2>8. MirroredIn(v1, v2, v3, v5', v7, v10)
    <3>1. MirroredOf(v1, v2, v3, v5', v7, l)
      BY <2>2, <2>7 DEF MirroredOf
    <3>2. \A k \in Listings : k # l /\ MirroredOf(v1, v2, v3, v5, v7, k) => MirroredOf(v1, v2, v3, v5', v7, k)
      BY <2>5 DEF MirroredOf
    <3> QED BY <1>1, <3>1, <3>2 DEF MirroredIn
  <2>9. \A k, what : k # l \/ what # kind => OfIn(v1, k, what) \cap v6' = OfIn(v1, k, what) \cap v6
    BY <2>1 DEF OfIn
  <2>10. OfIn(v1, l, kind) \cap v6' = (OfIn(v1, l, kind) \cap v6) \cup {i}
    BY <2>1, <2>2 DEF OfIn
  <2>11. ASSUME ReadyOf(v1, v5, v6, l)
         PROVE  ReadyOf(v1, v5', v6', l)
    <3> DEFINE sold == OfIn(v1, l, "Sold") \cap v6
               sold2 == OfIn(v1, l, "Sold") \cap v6'
    <3>1. sold \subseteq DOMAIN v1 /\ sold2 \subseteq DOMAIN v1 /\ i \notin sold
      BY <1>3 DEF OfIn
    <3>2. Cardinality(sold) \in Nat /\ Cardinality(sold2) \in Nat /\ Cardinality(sold \cup {i}) = Cardinality(sold) + 1
      BY <1>1, <3>1, CountLogs
    <3>3. new.left \in 0..Amount
      BY <2>4 DEF Market!Rows
    <3>4. kind # "Sold" => sold2 = sold
      BY <2>9
    <3>5. kind = "Sold" => sold2 = sold \cup {i}
      BY <2>10
    <3>6. kind # "Created" => OfIn(v1, l, "Created") \cap v6' = OfIn(v1, l, "Created") \cap v6
      BY <2>9
    <3> SUFFICES ASSUME OfIn(v1, l, "Created") \cap v6' # {}
                 PROVE  /\ new.left >= Amount - Cardinality(sold2)
                        /\ \/ new.status = "ACTIVE" \/ new.left = 0
                           \/ OfIn(v1, l, "Cancelled") \cap v6' # {} \/ OfIn(v1, l, "Expired") \cap v6' # {}
      BY <2>5 DEF ReadyOf
    <3>7. kind # "Created" => row.left >= Amount - Cardinality(sold)
      BY <2>11, <3>6 DEF ReadyOf
    <3> HIDE DEF sold, sold2, row, l, kind
    <3>8. CASE kind = "Created"
      BY <2>4, <3>2, <3>3, <3>8, MarketParameters
    <3>9. CASE kind = "Sold"
      <4>1. Cardinality(sold2) = Cardinality(sold) + 1
        BY <3>2, <3>5, <3>9
      <4> QED BY <2>3, <2>4, <3>2, <3>7, <3>9, <4>1, MarketParameters
    <3>10. CASE kind \in {"Cancelled", "Expired"}
      <4>1. i \in OfIn(v1, l, kind) \cap v6'
        BY <2>10
      <4> QED BY <2>4, <3>4, <3>7, <3>10, <4>1
    <3> QED BY <2>2, <3>8, <3>9, <3>10 DEF Market!Kinds
  <2>12. \A k \in Listings : k # l /\ ReadyOf(v1, v5, v6, k) => ReadyOf(v1, v5', v6', k)
    BY <2>5, <2>9 DEF ReadyOf
  <2>13. ReadyIn(v1, v5', v6', v10)
    BY <1>1, <2>11, <2>12 DEF ReadyIn
  <2> QED BY <2>1, <2>5, <2>6, <2>8, <2>13
<1> QED BY <1>2, <1>3

LEMMA ScanApplyStep ==
  ASSUME MarketInv, Market!ScanApply
  PROVE  InvIn(v1', v2', v3', v5', v6', v7', v8', v9', v10')
<1> DEFINE i == v7.at
<1>1. /\ v7.step = "apply" /\ Market!Closed(i) /\ Market!Project(i) /\ v7' = [v7 EXCEPT !.step = "read"]
      /\ v1' = v1 /\ v2' = v2 /\ v3' = v3 /\ v8' = v8 /\ v9' = v9 /\ v10' = v10
  BY DEF Market!ScanApply, Market!onChain, Market!Next1, Market!FollowedByRead
<1>2. /\ LogsOK(v1, v2) /\ RowsOK(v1, v5, v6) /\ PassesOK(v7, v8) /\ ScanIn(v1, v6, v7) /\ SettleIn(v1, v2, v6, v8)
      /\ InTurnIn(v1, v6, v10)
  BY DEF MarketInv, InvIn
<1>3. ClosedIn(v1, v2, i)
  BY <1>1, PassesAre
<1>4. /\ RowsOK(v1, v5', v6') /\ MarksIn(v1, v2, v6') /\ v6 \subseteq v6' /\ v6' \subseteq v6 \cup {i} /\ i \in v6'
      /\ MirroredIn(v1, v2, v3, v5', v7, v10) /\ ReadyIn(v1, v5', v6', v10)
  BY <1>1, <1>3, ProjectRows
<1>5. v7' \in ScanOf /\ v7'.at = i /\ v7'.from = v7.from /\ v7'.step = "read"
  BY <1>1, <1>2 DEF PassesOK, ScanOf
<1>6. ScanIn(v1, v6', v7')
  BY <1>2, <1>4, <1>5 DEF ScanIn
<1>7. SettleIn(v1, v2, v6', v8)
  BY <1>2, <1>4 DEF SettleIn
<1>8. MirroredIn(v1, v2, v3, v5', v7', v10)
  BY <1>1, <1>4, <1>5 DEF MirroredIn, MirroredOf, PassedIn
<1>9. InTurnIn(v1, v6', v10)
  <2>1. \A j \in DOMAIN v1 : j < i => j \in v6
    BY <1>2 DEF ScanIn
  <2> HIDE DEF i
  <2> QED BY <1>2, <1>4, <2>1 DEF InTurnIn
<1>10. PassesOK(v7', v8)
  BY <1>2, <1>5 DEF PassesOK
<1> QED BY <1>1, <1>4, <1>6, <1>7, <1>8, <1>9, <1>10 DEF MarketInv, InvIn

LEMMA SettleApplyStep ==
  ASSUME MarketInv, Market!SettleApply
  PROVE  InvIn(v1', v2', v3', v5', v6', v7', v8', v9', v10')
<1> DEFINE i == v8.at
<1>1. v8.step = "apply" /\ v1' = v1 /\ v2' = v2 /\ v3' = v3 /\ v7' = v7
  BY DEF Market!SettleApply, Market!onChain
<1>2. /\ LogsOK(v1, v2) /\ RowsOK(v1, v5, v6) /\ PassesOK(v7, v8) /\ ScanIn(v1, v6, v7) /\ SettleIn(v1, v2, v6, v8)
      /\ InTurnIn(v1, v6, v10) /\ v9 \in [1..MaxLogs -> 0..MaxAttempts]
  BY DEF MarketInv, InvIn
<1>3. ClosedIn(v1, v2, i)
  BY <1>1, <1>2 DEF SettleIn
<1>4. CASE i \in v6 \/ Market!Applies(i)
  <2>1. /\ Market!Project(i) /\ v8' = [v8 EXCEPT !.step = "read"] /\ v9' = v9
        /\ v10' = IF Market!Earlier(i) # {} THEN v10 \cup {"ahead"} ELSE v10
    BY <1>4 DEF Market!SettleApply, Market!Next1, Market!FollowedByRead
  <2>2. /\ RowsOK(v1, v5', v6') /\ MarksIn(v1, v2, v6') /\ v6 \subseteq v6' /\ v6' \subseteq v6 \cup {i} /\ i \in v6'
        /\ MirroredIn(v1, v2, v3, v5', v7, v10) /\ ReadyIn(v1, v5', v6', v10)
    BY <1>3, <2>1, ProjectRows
  <2>3. v8' \in SettleOf /\ v8'.at = i /\ v8'.step = "read"
    BY <1>2, <2>1 DEF PassesOK, SettleOf
  <2>4. v10 \subseteq v10' /\ v10' \subseteq v10 \cup {"ahead"} /\ ("ahead" \notin v10' => Market!Earlier(i) = {})
    BY <2>1
  <2>5. MirroredIn(v1, v2, v3, v5', v7, v10') /\ ReadyIn(v1, v5', v6', v10') /\ SeparateIn(v1, v10')
    BY <2>2, <2>4 DEF MarketInv, InvIn, MirroredIn, ReadyIn, SeparateIn
  <2>6. ScanIn(v1, v6', v7)
    BY <1>2, <2>2 DEF ScanIn
  <2>7. SettleIn(v1, v2, v6', v8')
    BY <1>3, <2>2, <2>3 DEF SettleIn
  <2>8. InTurnIn(v1, v6', v10')
    <3> SUFFICES ASSUME "ahead" \notin v10' PROVE InTurnIn(v1, v6', v10')
      BY DEF InTurnIn
    <3>1. \A j \in DOMAIN v1 : j < i /\ v1[j].listing = v1[i].listing => j \in v6
      BY <2>4 DEF Market!Earlier, Market!Ids
    <3>2. "ahead" \notin v10
      BY <2>4
    <3> HIDE DEF i
    <3> QED BY <1>2, <2>2, <3>1, <3>2 DEF InTurnIn
  <2>9. PassesOK(v7, v8')
    BY <1>2, <2>3 DEF PassesOK
  <2>10. TriesIn(v8', v9')
    BY <2>3 DEF TriesIn
  <2> QED BY <1>1, <2>1, <2>2, <2>5, <2>6, <2>7, <2>8, <2>9, <2>10 DEF MarketInv, InvIn
<1>5. CASE ~(i \in v6 \/ Market!Applies(i))
  <2>1. v8' = [v8 EXCEPT !.step = "idle"] /\ v9' = [v9 EXCEPT ![i] = @ + 1] /\ v5' = v5 /\ v6' = v6 /\ v10' = v10
    BY <1>5 DEF Market!SettleApply, Market!mirror
  <2>2. v8' \in SettleOf /\ v8'.step = "idle"
    BY <1>2, <2>1 DEF PassesOK, SettleOf
  <2>3. PassesOK(v7', v8') /\ ScanIn(v1, v6, v7') /\ SettleIn(v1, v2, v6, v8') /\ TriesIn(v8', v9')
    BY <1>1, <1>2, <2>2 DEF PassesOK, SettleIn, TriesIn
  <2>4. v9' \in [1..MaxLogs -> 0..MaxAttempts]
    <3>1. i \in 1..MaxLogs
      BY <1>2 DEF PassesOK, SettleOf
    <3>2. v9[i] \in 0..MaxAttempts /\ v9[i] < MaxAttempts
      BY <1>1, <1>2, <3>1 DEF MarketInv, InvIn, TriesIn
    <3>3. v9[i] + 1 \in 0..MaxAttempts
      BY <3>2, MarketParameters
    <3> QED BY <1>2, <2>1, <3>3
  <2> QED BY <1>1, <2>1, <2>3, <2>4, PassesStep
<1> QED BY <1>4, <1>5

\* What a listing was after a marked log, when all its logs until then are marked.
LEMMA SnapReady ==
  ASSUME NEW L, NEW h, LogsOK(L, h), ChainIn(L, h), NEW M, NEW i \in DOMAIN L, i \in M,
         \A j \in DOMAIN L : j # i /\ L[j].listing = L[i].listing => L[j].block # L[i].block,
         \A j \in DOMAIN L : j < i /\ L[j].listing = L[i].listing => j \in M
  PROVE  LET l == L[i].listing
             snap == SnapIn(L, i)
         IN  /\ snap.left >= Amount - Cardinality(OfIn(L, l, "Sold") \cap M)
             /\ \/ snap.status = "ACTIVE" \/ snap.left = 0
                \/ OfIn(L, l, "Cancelled") \cap M # {} \/ OfIn(L, l, "Expired") \cap M # {}
<1> DEFINE l == L[i].listing
           b == L[i].block
           snap == SnapIn(L, i)
<1>1. /\ l \in Listings /\ b \in Nat /\ i \in Nat
      /\ \A j \in DOMAIN L : j \in Nat /\ L[j].block \in Nat
  BY LogFacts
<1>2. \A j \in DOMAIN L : j <= i => L[j].block <= b
  BY DEF ChainIn
<1>3. \A j \in DOMAIN L : i <= j => b <= L[j].block
  BY DEF ChainIn
<1>4. \A j \in DOMAIN L : L[j].listing = l /\ L[j].block <= b => j \in M
  <2> SUFFICES ASSUME NEW j \in DOMAIN L, L[j].listing = l, L[j].block <= b, j # i PROVE j \in M
    OBVIOUS
  <2>1. L[j].block < b /\ j \in Nat
    BY <1>1
  <2>2. ~(i <= j)
    BY <1>1, <1>3, <2>1
  <2> QED BY <1>1, <2>1, <2>2
<1>5. \A kind : LoggedIn(L, l, kind, b) \subseteq OfIn(L, l, kind) \cap M
  BY <1>4 DEF LoggedIn, OfIn
<1>6. LoggedIn(L, l, "Created", b) # {}
  <2>1. CASE L[i].kind = "Created"
    <3>1. b <= b
      BY <1>1
    <3>2. i \in LoggedIn(L, l, "Created", b)
      BY <2>1, <3>1 DEF LoggedIn
    <3> QED BY <3>2
  <2>2. CASE L[i].kind # "Created"
    <3>1. PICK j \in BeforeIn(L, i, "Created") : TRUE
      BY <2>2 DEF ChainIn
    <3>2. j \in DOMAIN L /\ L[j].listing = l /\ L[j].kind = "Created" /\ j < i
      BY <3>1 DEF BeforeIn, OfIn
    <3>3. L[j].block <= b
      BY <1>1, <1>2, <3>2
    <3>4. j \in LoggedIn(L, l, "Created", b)
      BY <3>2, <3>3 DEF LoggedIn
    <3> QED BY <3>4
  <2> QED BY <2>1, <2>2
<1> DEFINE sold == LoggedIn(L, l, "Sold", b)
           gone == OfIn(L, l, "Sold") \cap M
<1>7. sold \subseteq gone /\ gone \subseteq DOMAIN L
  BY <1>5 DEF OfIn
<1>8. Cardinality(sold) \in Nat /\ Cardinality(gone) \in Nat /\ Cardinality(sold) <= Cardinality(gone)
  BY <1>7, CountLogs
<1>9. snap = AtIn(L, l, b)
  BY DEF SnapIn
<1> HIDE DEF snap
<1>10. /\ snap.left = Amount - Cardinality(sold)
       /\ \/ snap.status = "ACTIVE" \/ snap.left = 0
          \/ LoggedIn(L, l, "Cancelled", b) # {} \/ LoggedIn(L, l, "Expired", b) # {}
  <2> HIDE DEF l, b
  <2> QED BY <1>1, <1>6, <1>9, AtTyped
<1> HIDE DEF sold, gone
<1>11. snap.left >= Amount - Cardinality(gone)
  BY <1>8, <1>10, MarketParameters
<1>12. \/ snap.status = "ACTIVE" \/ snap.left = 0
       \/ OfIn(L, l, "Cancelled") \cap M # {} \/ OfIn(L, l, "Expired") \cap M # {}
  BY <1>5, <1>10
<1> QED BY <1>11, <1>12 DEF gone, snap

\* A row becomes the listing as of a marked log.
LEMMA ReconcileRows ==
  ASSUME MarketInv, NEW i \in v6, NEW P2, v10 \subseteq P2,
         v5' = [v5 EXCEPT ![v1[i].listing] = ByClock(v3, v1[i].listing, SnapIn(v1, i))],
         ByClock(v3, v1[i].listing, SnapIn(v1, i)) # SnapIn(v1, i) => "elapsed" \in P2
  PROVE  /\ i \in DOMAIN v1 /\ v1[i].listing \in Listings /\ SnapIn(v1, i) \in Market!Rows
         /\ RowsOK(v1, v5', v6) /\ ReadyIn(v1, v5', v6, P2)
         /\ \A k \in Listings : k # v1[i].listing => v5'[k] = v5[k]
         /\ (\A j \in DOMAIN v1 : v1[j].listing = v1[i].listing /\ ClosedIn(v1, v2, j) => j <= i) =>
              v5'[v1[i].listing] = ByClock(v3, v1[i].listing, AtIn(v1, v1[i].listing, v2 - 1))
<1> DEFINE l == v1[i].listing
           b == v1[i].block
           snap == SnapIn(v1, i)
           new == ByClock(v3, l, snap)
<1>1. /\ LogsOK(v1, v2) /\ ChainIn(v1, v2) /\ RowsOK(v1, v5, v6) /\ MarksIn(v1, v2, v6)
      /\ SeparateIn(v1, v10) /\ InTurnIn(v1, v6, v10) /\ ReadyIn(v1, v5, v6, v10)
  BY DEF MarketInv, InvIn
<1>2. i \in DOMAIN v1 /\ l \in Listings /\ b \in Nat /\ ClosedIn(v1, v2, i) /\ v1[i].kind \in Market!Kinds
  BY <1>1, LogFacts DEF MarksIn, ClosedIn
<1>3. snap = AtIn(v1, l, b)
  BY DEF SnapIn
<1>4. snap \in Market!Rows
  BY <1>1, <1>2, <1>3, AtTyped
<1>5. new \in Market!Rows
  <2> HIDE DEF snap
  <2> QED BY <1>4 DEF ByClock, Market!Rows
<1>6. RowsOK(v1, v5', v6) /\ v5'[l] = new /\ \A k \in Listings : k # l => v5'[k] = v5[k]
  <2> HIDE DEF new, l
  <2> QED BY <1>1, <1>2, <1>5 DEF RowsOK, new, l
<1>7. ASSUME \A j \in DOMAIN v1 : v1[j].listing = l /\ ClosedIn(v1, v2, j) => j <= i
      PROVE  v5'[l] = ByClock(v3, l, AtIn(v1, l, v2 - 1))
  <2>1. snap = AtIn(v1, l, v2 - 1)
    BY <1>1, <1>2, <1>7, AtLast
  <2> QED BY <1>6, <2>1
<1>8. ReadyIn(v1, v5', v6, P2)
  <2> SUFFICES ASSUME P2 \cap {"same block", "ahead", "elapsed"} = {}, NEW k \in Listings PROVE ReadyOf(v1, v5', v6, k)
    BY DEF ReadyIn
  <2>1. "same block" \notin v10 /\ "ahead" \notin v10 /\ v10 \cap {"same block", "ahead", "elapsed"} = {} /\ new = snap
    OBVIOUS
  <2>2. CASE k # l
    BY <1>1, <1>6, <2>1, <2>2 DEF ReadyIn, ReadyOf
  <2>3. CASE k = l
    <3>1. \A j \in DOMAIN v1 : j # i /\ v1[j].listing = l => v1[j].block # b
      BY <1>1, <1>2, <2>1 DEF SeparateIn
    <3>2. \A j \in DOMAIN v1 : j < i /\ v1[j].listing = l => j \in v6
      BY <1>1, <1>2, <2>1 DEF InTurnIn
    <3>3. /\ snap.left >= Amount - Cardinality(OfIn(v1, l, "Sold") \cap v6)
          /\ \/ snap.status = "ACTIVE" \/ snap.left = 0
             \/ OfIn(v1, l, "Cancelled") \cap v6 # {} \/ OfIn(v1, l, "Expired") \cap v6 # {}
      BY <1>1, <1>2, <3>1, <3>2, SnapReady
    <3> HIDE DEF snap, new
    <3> QED BY <1>6, <2>1, <2>3, <3>3 DEF ReadyOf
  <2> QED BY <2>2, <2>3
<1> QED BY <1>2, <1>4, <1>6, <1>7, <1>8

LEMMA NoListingTyped == Market!NoListing \in Market!Rows
BY MarketParameters DEF Market!Rows, Market!NoListing

LEMMA ScanWriteStep ==
  ASSUME MarketInv, Market!ScanWrite
  PROVE  InvIn(v1', v2', v3', v5', v6', v7', v8', v9', v10')
<1> DEFINE i == v7.at
           l == v1[i].listing
           snap == SnapIn(v1, i)
           new == ByClock(v3, l, snap)
<1>1. /\ LogsOK(v1, v2) /\ RowsOK(v1, v5, v6) /\ PassesOK(v7, v8) /\ ScanIn(v1, v6, v7) /\ MirroredIn(v1, v2, v3, v5, v7, v10)
  BY DEF MarketInv, InvIn
<1>2. v7.step = "write" /\ v7.snap = snap /\ i \in v6
  BY <1>1 DEF Market!ScanWrite, ScanIn
<1>3. /\ v5' = [v5 EXCEPT ![l] = new] /\ v6' = v6 /\ v10' = v10 \cup (IF new # snap THEN {"elapsed"} ELSE {})
  BY <1>2, PassesAre DEF Market!ScanWrite, Market!Reconcile
<1>4. /\ v7' = [v7 EXCEPT !.step = "done", !.snap = Market!NoListing]
      /\ v1' = v1 /\ v2' = v2 /\ v3' = v3 /\ v8' = v8 /\ v9' = v9
  BY DEF Market!ScanWrite, Market!onChain
<1>5. /\ i \in DOMAIN v1 /\ l \in Listings
      /\ RowsOK(v1, v5', v6) /\ ReadyIn(v1, v5', v6, v10') /\ \A k \in Listings : k # l => v5'[k] = v5[k]
      /\ (\A j \in DOMAIN v1 : v1[j].listing = l /\ ClosedIn(v1, v2, j) => j <= i) => v5'[l] = ByClock(v3, l, AtIn(v1, l, v2 - 1))
  <2>1. v10 \subseteq v10' /\ (new # snap => "elapsed" \in v10')
    BY <1>3
  <2> QED BY <1>2, <1>3, <2>1, ReconcileRows
<1> HIDE DEF new, snap
<1>6. v7' \in ScanOf /\ v7'.at = i /\ v7'.from = v7.from /\ v7'.step = "done"
  BY <1>1, <1>4, NoListingTyped DEF PassesOK, ScanOf
<1>7. ScanIn(v1, v6, v7')
  BY <1>1, <1>2, <1>6 DEF ScanIn
<1>8. \A j \in DOMAIN v1 : PassedIn(v7', j) <=> PassedIn(v7, j) \/ j = i
  BY <1>2, <1>6 DEF PassedIn
<1>9. \A j \in DOMAIN v1 : PassedIn(v7', j) => j <= i
  BY <1>1, <1>6, LogFacts DEF PassedIn, PassesOK, ScanOf
<1>10. MirroredIn(v1, v2, v3, v5', v7', v10')
  <2>1. "overtaken" \notin v10' => "overtaken" \notin v10
    BY <1>3
  <2>2. MirroredOf(v1, v2, v3, v5', v7', l)
    BY <1>5, <1>9 DEF MirroredOf
  <2>3. ASSUME NEW k \in Listings, k # l, MirroredOf(v1, v2, v3, v5, v7, k)
        PROVE  MirroredOf(v1, v2, v3, v5', v7', k)
    BY <1>5, <1>8, <2>3 DEF MirroredOf
  <2> QED BY <1>1, <2>1, <2>2, <2>3 DEF MirroredIn
<1>11. PassesOK(v7', v8)
  BY <1>1, <1>6 DEF PassesOK
<1>12. SeparateIn(v1, v10') /\ InTurnIn(v1, v6, v10')
  BY <1>3 DEF MarketInv, InvIn, SeparateIn, InTurnIn
<1> QED BY <1>3, <1>4, <1>5, <1>7, <1>10, <1>11, <1>12 DEF MarketInv, InvIn

LEMMA SettleWriteStep ==
  ASSUME MarketInv, Market!SettleWrite
  PROVE  InvIn(v1', v2', v3', v5', v6', v7', v8', v9', v10')
<1> DEFINE i == v8.at
           l == v1[i].listing
           snap == SnapIn(v1, i)
           new == ByClock(v3, l, snap)
           late == IF v7.at > i THEN {"overtaken"} ELSE {}
<1>1. /\ LogsOK(v1, v2) /\ RowsOK(v1, v5, v6) /\ PassesOK(v7, v8) /\ ScanIn(v1, v6, v7) /\ SettleIn(v1, v2, v6, v8)
      /\ MirroredIn(v1, v2, v3, v5, v7, v10)
  BY DEF MarketInv, InvIn
<1>2. v8.step = "write" /\ v8.snap = snap /\ i \in v6 /\ ClosedIn(v1, v2, i)
  BY <1>1 DEF Market!SettleWrite, SettleIn
<1>3. /\ v5' = [v5 EXCEPT ![l] = new] /\ v6' = v6 /\ v10' = v10 \cup (IF new # snap THEN {"elapsed"} ELSE {}) \cup late
  BY <1>2, PassesAre DEF Market!SettleWrite, Market!Reconcile
<1>4. /\ v8' = [v8 EXCEPT !.step = "done", !.snap = Market!NoListing]
      /\ v1' = v1 /\ v2' = v2 /\ v3' = v3 /\ v7' = v7 /\ v9' = v9
  BY DEF Market!SettleWrite, Market!onChain
<1>5. /\ i \in DOMAIN v1 /\ l \in Listings
      /\ RowsOK(v1, v5', v6) /\ ReadyIn(v1, v5', v6, v10') /\ \A k \in Listings : k # l => v5'[k] = v5[k]
      /\ (\A j \in DOMAIN v1 : v1[j].listing = l /\ ClosedIn(v1, v2, j) => j <= i) => v5'[l] = ByClock(v3, l, AtIn(v1, l, v2 - 1))
  <2>1. v10 \subseteq v10' /\ (new # snap => "elapsed" \in v10')
    BY <1>3
  <2> QED BY <1>2, <1>3, <2>1, ReconcileRows
<1> HIDE DEF new, snap
<1>6. v8' \in SettleOf /\ v8'.at = i /\ v8'.step = "done"
  BY <1>1, <1>4, NoListingTyped DEF PassesOK, SettleOf
<1>7. SettleIn(v1, v2, v6, v8') /\ TriesIn(v8', v9) /\ PassesOK(v7, v8')
  BY <1>1, <1>2, <1>6 DEF SettleIn, TriesIn, PassesOK
<1>8. v7.at \in Nat /\ \A j \in DOMAIN v1 : j \in Nat
  BY <1>1, LogFacts DEF PassesOK, ScanOf
<1>9. MirroredIn(v1, v2, v3, v5', v7, v10')
  <2> SUFFICES ASSUME "overtaken" \notin v10' PROVE \A k \in Listings : MirroredOf(v1, v2, v3, v5', v7, k)
    BY DEF MirroredIn
  <2>1. "overtaken" \notin v10 /\ v7.at <= i
    BY <1>3, <1>5, <1>8
\* The pass may have the log behind it only as the one it is at, and then all the others come before.
  <2>2. \A j \in DOMAIN v1 : PassedIn(v7, j) => j <= i
    BY <1>5, <1>8, <2>1 DEF PassedIn
  <2>3. MirroredOf(v1, v2, v3, v5', v7, l)
    BY <1>5, <2>2 DEF MirroredOf
  <2>4. ASSUME NEW k \in Listings, k # l, MirroredOf(v1, v2, v3, v5, v7, k)
        PROVE  MirroredOf(v1, v2, v3, v5', v7, k)
    BY <1>5, <2>4 DEF MirroredOf
  <2> QED BY <1>1, <2>1, <2>3, <2>4 DEF MirroredIn
<1>10. SeparateIn(v1, v10') /\ InTurnIn(v1, v6, v10')
  BY <1>3 DEF MarketInv, InvIn, SeparateIn, InTurnIn
<1> QED BY <1>3, <1>4, <1>5, <1>7, <1>9, <1>10 DEF MarketInv, InvIn

-----------------------------------------------------------------------------
\* Steps of the passes that write nothing.
QuietScan == Market!ScanRead \/ Market!ScanNext \/ Market!ScanFails
QuietSettle == Market!SettleRead \/ Market!SettleDone \/ Market!SettleFails \/ \E i \in DOMAIN v1 : Market!SettlePick(i)

LEMMA SnapTyped ==
  ASSUME MarketInv, NEW i \in v6
  PROVE  i \in DOMAIN v1 /\ SnapIn(v1, i) \in Market!Rows
<1>1. LogsOK(v1, v2) /\ ChainIn(v1, v2) /\ i \in DOMAIN v1
  BY DEF MarketInv, InvIn, RowsOK
<1> QED BY <1>1, LogFacts, AtTyped DEF SnapIn

\* The pass starts again at its checkpoint; the loop puts its log down.
LEMMA ScanAgain ==
  ASSUME LogsOK(v1, v2), PassesOK(v7, v8), ScanIn(v1, v6, v7), NEW s, s \in ScanOf, s.at = v7.from, s.from = v7.from, s.step = "apply"
  PROVE  ScanIn(v1, v6, s) /\ \A j \in DOMAIN v1 : PassedIn(s, j) => PassedIn(v7, j)
<1>1. v7.from \in Nat /\ v7.at \in Nat /\ v7.from <= v7.at /\ v7.at <= Len(v1) + 1 /\ Len(v1) \in Nat
  BY LogFacts DEF PassesOK, ScanOf, ScanIn
<1>2. \A j \in DOMAIN v1 : j \in Nat
  BY LogFacts
<1>3. \A j \in DOMAIN v1 : j < s.at => j < v7.at
  BY <1>1, <1>2
<1> QED BY <1>1, <1>3 DEF ScanIn, PassedIn

LEMMA SettleIdle ==
  ASSUME NEW t, t.step = "idle", NEW A
  PROVE  SettleIn(v1, v2, v6, t) /\ TriesIn(t, A)
BY DEF SettleIn, TriesIn

LEMMA ScanQuietStep ==
  ASSUME MarketInv, QuietScan
  PROVE  InvIn(v1', v2', v3', v5', v6', v7', v8', v9', v10')
<1> DEFINE i == v7.at
<1>1. /\ LogsOK(v1, v2) /\ PassesOK(v7, v8) /\ ScanIn(v1, v6, v7) /\ SettleIn(v1, v2, v6, v8) /\ TriesIn(v8, v9)
      /\ v9 \in [1..MaxLogs -> 0..MaxAttempts] /\ v6 \subseteq DOMAIN v1
  BY DEF MarketInv, InvIn, RowsOK
<1>2. v1' = v1 /\ v2' = v2 /\ v3' = v3 /\ v5' = v5 /\ v6' = v6 /\ v8' = v8 /\ v9' = v9 /\ v10' = v10
  BY DEF QuietScan, Market!ScanRead, Market!ScanNext, Market!ScanFails, Market!onChain, Market!mirror
<1>3. /\ v7 \in ScanOf /\ v7.from \in Nat /\ i \in Nat /\ v7.from >= 1 /\ v7.from <= i /\ i <= Len(v1) + 1 /\ Len(v1) \in Nat
      /\ Len(v1) <= MaxLogs /\ DOMAIN v1 = 1..Len(v1)
  BY <1>1, LogFacts DEF PassesOK, ScanOf, ScanIn, LogsOK
<1>4. /\ v7' \in ScanOf /\ ScanIn(v1, v6, v7')
      /\ \A j \in DOMAIN v1 : PassedIn(v7', j) => PassedIn(v7, j)
  <2>1. CASE Market!ScanRead
    <3>1. v7.step = "read" /\ v7' = [v7 EXCEPT !.step = "write", !.snap = SnapIn(v1, i)] /\ i \in v6
      BY <1>1, <2>1, SnapshotIs DEF Market!ScanRead, ScanIn
    <3>2. SnapIn(v1, i) \in Market!Rows
      BY <3>1, SnapTyped
    <3>3. v7' \in ScanOf /\ v7'.at = i /\ v7'.from = v7.from /\ v7'.step = "write" /\ v7'.snap = SnapIn(v1, i)
      <4> DEFINE snap == SnapIn(v1, i)
      <4> HIDE DEF snap
      <4>1. snap \in Market!Rows
        BY <3>2 DEF snap
      <4>2. v7' = [v7 EXCEPT !.step = "write", !.snap = snap]
        BY <3>1 DEF snap
      <4>3. v7' \in ScanOf /\ v7'.at = i /\ v7'.from = v7.from /\ v7'.step = "write" /\ v7'.snap = snap
        BY <1>3, <4>1, <4>2 DEF ScanOf
      <4> QED BY <4>3 DEF snap
    <3>4. ScanIn(v1, v6, v7')
      BY <1>1, <3>1, <3>3 DEF ScanIn
    <3> QED BY <3>1, <3>3, <3>4 DEF PassedIn
  <2>2. CASE Market!ScanNext
    <3>1. v7.step = "done" /\ i \in v6
      BY <1>1, <2>2 DEF Market!ScanNext, ScanIn
    <3>2. v7' = [v7 EXCEPT !.step = "apply", !.at = i + 1,
                   !.from = IF \A j \in Market!BlockOf(i) : j <= i THEN i + 1 ELSE v7.from]
      BY <2>2 DEF Market!ScanNext
    <3>3. i \in 1..Len(v1)
      BY <1>1, <1>3, <3>1
    <3> HIDE DEF i
    <3>4. PICK from \in {i + 1, v7.from} : v7' = [v7 EXCEPT !.step = "apply", !.at = i + 1, !.from = from]
      BY <3>2
    <3>5. i + 1 \in 1..(MaxLogs + 1) /\ from \in 1..(MaxLogs + 1) /\ from <= i + 1
      BY <1>3, <3>3, MarketParameters DEF i
    <3>6. v7' \in ScanOf /\ v7'.at = i + 1 /\ v7'.from = from /\ v7'.step = "apply"
      BY <1>3, <3>4, <3>5 DEF ScanOf
    <3>7. \A j \in DOMAIN v1 : j \in Nat /\ (j < i + 1 => j < i \/ j = i)
      BY <1>3
    <3>8. ScanIn(v1, v6, v7')
      <4>1. \A j \in DOMAIN v1 : j < i + 1 => j \in v6
        BY <1>1, <3>1, <3>7 DEF ScanIn, i
      <4>2. i + 1 <= Len(v1) + 1
        BY <1>3, <3>3
      <4> QED BY <3>5, <3>6, <4>1, <4>2 DEF ScanIn
    <3>9. \A j \in DOMAIN v1 : PassedIn(v7', j) => PassedIn(v7, j)
      BY <3>1, <3>6, <3>7 DEF PassedIn, i
    <3> QED BY <3>6, <3>8, <3>9
  <2>3. CASE Market!ScanFails
    <3>1. v7' = [v7 EXCEPT !.step = "apply", !.at = v7.from, !.snap = Market!NoListing]
      BY <2>3 DEF Market!ScanFails
    <3>2. v7' \in ScanOf /\ v7'.at = v7.from /\ v7'.from = v7.from /\ v7'.step = "apply"
      BY <1>3, <3>1, NoListingTyped DEF ScanOf
    <3> QED BY <1>1, <1>3, <3>2, ScanAgain
  <2> QED BY <2>1, <2>2, <2>3 DEF QuietScan
<1>5. PassesOK(v7', v8')
  BY <1>1, <1>2, <1>4 DEF PassesOK
<1> QED BY <1>1, <1>2, <1>4, <1>5, PassesStep

LEMMA SettleQuietStep ==
  ASSUME MarketInv, QuietSettle
  PROVE  InvIn(v1', v2', v3', v5', v6', v7', v8', v9', v10')
<1> DEFINE i == v8.at
<1>1. /\ LogsOK(v1, v2) /\ PassesOK(v7, v8) /\ ScanIn(v1, v6, v7) /\ SettleIn(v1, v2, v6, v8) /\ TriesIn(v8, v9)
      /\ v9 \in [1..MaxLogs -> 0..MaxAttempts] /\ v6 \subseteq DOMAIN v1
  BY DEF MarketInv, InvIn, RowsOK
<1>2. v1' = v1 /\ v2' = v2 /\ v3' = v3 /\ v5' = v5 /\ v6' = v6 /\ v7' = v7 /\ v10' = v10
  BY DEF QuietSettle, Market!SettleRead, Market!SettleDone, Market!SettleFails, Market!SettlePick, Market!onChain, Market!mirror
<1>3. v8 \in SettleOf /\ i \in 1..MaxLogs /\ DOMAIN v1 \subseteq 1..MaxLogs
  <2>1. v8 \in SettleOf /\ i \in 1..MaxLogs
    BY <1>1 DEF PassesOK, SettleOf
  <2>2. DOMAIN v1 = 1..Len(v1) /\ Len(v1) \in Nat /\ Len(v1) <= MaxLogs
    BY <1>1, LogFacts DEF LogsOK
  <2> QED BY <2>1, <2>2, MarketParameters
<1>4. /\ v8' \in SettleOf /\ SettleIn(v1, v2, v6, v8') /\ TriesIn(v8', v9') /\ v9' \in [1..MaxLogs -> 0..MaxAttempts]
  <2>1. CASE Market!SettleRead
    <3>1. v8.step = "read" /\ v8' = [v8 EXCEPT !.step = "write", !.snap = SnapIn(v1, i)] /\ i \in v6 /\ ClosedIn(v1, v2, i) /\ v9' = v9
      BY <1>1, <2>1, SnapshotIs DEF Market!SettleRead, SettleIn
    <3>2. SnapIn(v1, i) \in Market!Rows
      BY <3>1, SnapTyped
    <3> DEFINE snap == SnapIn(v1, i)
    <3> HIDE DEF snap
    <3>3. snap \in Market!Rows /\ v8' = [v8 EXCEPT !.step = "write", !.snap = snap]
      BY <3>1, <3>2 DEF snap
    <3>4. v8' \in SettleOf /\ v8'.at = i /\ v8'.step = "write" /\ v8'.snap = snap
      BY <1>3, <3>3 DEF SettleOf
    <3>5. SettleIn(v1, v2, v6, v8') /\ TriesIn(v8', v9')
      BY <3>1, <3>4 DEF SettleIn, TriesIn, snap
    <3> QED BY <1>1, <3>1, <3>4, <3>5
  <2>2. CASE Market!SettleDone
    <3>1. v8' = [v8 EXCEPT !.step = "idle"] /\ v9' = v9
      BY <2>2 DEF Market!SettleDone
    <3>2. v8' \in SettleOf /\ v8'.step = "idle"
      BY <1>3, <3>1 DEF SettleOf
    <3> QED BY <1>1, <3>1, <3>2, SettleIdle
  <2>3. CASE Market!SettleFails
    <3>1. /\ v8' = [v8 EXCEPT !.step = "idle", !.snap = Market!NoListing]
          /\ v9' = [v9 EXCEPT ![i] = IF v9[i] < MaxAttempts THEN v9[i] + 1 ELSE v9[i]]
      BY <2>3 DEF Market!SettleFails
    <3>2. v8' \in SettleOf /\ v8'.step = "idle"
      BY <1>3, <3>1, NoListingTyped DEF SettleOf
    <3>3. v9' \in [1..MaxLogs -> 0..MaxAttempts]
      <4>1. (IF v9[i] < MaxAttempts THEN v9[i] + 1 ELSE v9[i]) \in 0..MaxAttempts
        BY <1>1, <1>3, MarketParameters
      <4> QED BY <1>1, <3>1, <4>1
    <3> QED BY <3>2, <3>3, SettleIdle
  <2>4. ASSUME NEW j \in DOMAIN v1, Market!SettlePick(j)
        PROVE  /\ v8' \in SettleOf /\ SettleIn(v1, v2, v6, v8') /\ TriesIn(v8', v9') /\ v9' \in [1..MaxLogs -> 0..MaxAttempts]
    <3>1. v8' = [v8 EXCEPT !.step = "apply", !.at = j] /\ ClosedIn(v1, v2, j) /\ v9[j] < MaxAttempts /\ v9' = v9
      BY <2>4, PassesAre DEF Market!SettlePick
    <3>2. v8' \in SettleOf /\ v8'.at = j /\ v8'.step = "apply"
      BY <1>3, <3>1 DEF SettleOf
    <3> QED BY <1>1, <3>1, <3>2 DEF SettleIn, TriesIn
  <2> QED BY <2>1, <2>2, <2>3, <2>4 DEF QuietSettle
<1>5. PassesOK(v7', v8') /\ ScanIn(v1, v6, v7')
  BY <1>1, <1>2, <1>4 DEF PassesOK
<1>6. \A j \in DOMAIN v1 : PassedIn(v7', j) => PassedIn(v7, j)
  BY <1>2
<1> QED BY <1>2, <1>4, <1>5, <1>6, PassesStep

LEMMA MarketRestartStep ==
  ASSUME MarketInv, Market!Restart
  PROVE  InvIn(v1', v2', v3', v5', v6', v7', v8', v9', v10')
<1>1. /\ LogsOK(v1, v2) /\ PassesOK(v7, v8) /\ ScanIn(v1, v6, v7) /\ v9 \in [1..MaxLogs -> 0..MaxAttempts]
  BY DEF MarketInv, InvIn
<1>2. /\ v1' = v1 /\ v2' = v2 /\ v3' = v3 /\ v5' = v5 /\ v6' = v6 /\ v10' = v10
      /\ v7' = [v7 EXCEPT !.step = "apply", !.at = v7.from, !.snap = Market!NoListing]
      /\ v8' = [v8 EXCEPT !.step = "idle", !.snap = Market!NoListing]
      /\ v9' = [i \in DOMAIN v9 |-> 0]
  BY DEF Market!Restart, Market!onChain, Market!mirror
<1>3. v7' \in ScanOf /\ v7'.at = v7.from /\ v7'.from = v7.from /\ v7'.step = "apply"
  BY <1>1, <1>2, NoListingTyped DEF PassesOK, ScanOf
<1>4. v8' \in SettleOf /\ v8'.step = "idle"
  BY <1>1, <1>2, NoListingTyped DEF PassesOK, SettleOf
<1>5. v9' \in [1..MaxLogs -> 0..MaxAttempts]
  BY <1>1, <1>2, MarketParameters
<1>6. ScanIn(v1, v6, v7') /\ \A j \in DOMAIN v1 : PassedIn(v7', j) => PassedIn(v7, j)
  BY <1>1, <1>3, ScanAgain
<1>7. SettleIn(v1, v2, v6, v8') /\ TriesIn(v8', v9')
  BY <1>4, SettleIdle
<1>8. PassesOK(v7', v8')
  BY <1>3, <1>4 DEF PassesOK
<1> QED BY <1>2, <1>5, <1>6, <1>7, <1>8, PassesStep

-----------------------------------------------------------------------------
LEMMA MarketStarts == Market!Init => MarketInv
<1> SUFFICES ASSUME Market!Init PROVE MarketInv
  OBVIOUS
<1>1. /\ v1 = <<>> /\ v2 = 1 /\ v6 = {} /\ v5 = [l \in Listings |-> Market!NoListing] /\ v9 = [i \in 1..MaxLogs |-> 0]
      /\ v7 = [from |-> 1, at |-> 1, step |-> "apply", snap |-> Market!NoListing]
      /\ v8 = [at |-> 1, step |-> "idle", snap |-> Market!NoListing]
  BY DEF Market!Init
<1>2. DOMAIN v1 = {} /\ Len(v1) = 0 /\ v1 \in Seq(LogOf)
  BY <1>1
<1>3. LogsOK(v1, v2) /\ v9 \in [1..MaxLogs -> 0..MaxAttempts]
  BY <1>1, <1>2, MarketParameters DEF LogsOK
<1>4. RowsOK(v1, v5, v6)
  BY <1>1, NoListingTyped DEF RowsOK
<1>5. PassesOK(v7, v8)
  <2>1. 1 \in 1..(MaxLogs + 1) /\ 1 \in 1..MaxLogs
    BY MarketParameters, Parameters DEF Market!ResaleAssumption
  <2> QED BY <1>1, <2>1, NoListingTyped DEF PassesOK, ScanOf, SettleOf
<1>6. ChainIn(v1, v2)
  <2>1. ASSUME NEW l PROVE Cardinality(OfIn(v1, l, "Sold")) <= Amount
    <3>1. OfIn(v1, l, "Sold") = {}
      BY <1>2 DEF OfIn
    <3>2. Cardinality(OfIn(v1, l, "Sold")) = 0
      BY <3>1, FS_EmptySet
    <3> QED BY <3>2, MarketParameters
  <2> QED BY ONLY <1>2, <2>1 DEF ChainIn
<1>7. ScanIn(v1, v6, v7) /\ SettleIn(v1, v2, v6, v8) /\ TriesIn(v8, v9) /\ MarksIn(v1, v2, v6)
  BY <1>1, <1>2 DEF ScanIn, SettleIn, TriesIn, MarksIn
<1>8. ASSUME NEW l \in Listings
      PROVE  v5[l] = AtIn(v1, l, v2 - 1)
  <2>1. LoggedIn(v1, l, "Created", v2 - 1) = {}
    BY <1>2 DEF LoggedIn
  <2> QED BY <1>1, <2>1 DEF AtIn, Market!ListingFrom
<1>9. MirroredIn(v1, v2, v3, v5, v7, v10)
  BY <1>8 DEF MirroredIn, MirroredOf
<1>10. SeparateIn(v1, v10) /\ InTurnIn(v1, v6, v10) /\ ReadyIn(v1, v5, v6, v10)
  BY <1>1, <1>2 DEF SeparateIn, InTurnIn, ReadyIn, ReadyOf, OfIn
<1> QED BY <1>3, <1>4, <1>5, <1>6, <1>7, <1>9, <1>10 DEF MarketInv, InvIn

LEMMA MarketNextKeeps ==
  ASSUME MarketInv, [Market!Next]_(Market!vars)
  PROVE  InvIn(v1', v2', v3', v5', v6', v7', v8', v9', v10')
<1>1. ASSUME NEW l \in Listings, Market!CreateListing(l) \/ Market!CancelListing(l) \/ Market!ExpireListing(l) \/ Market!Buy(l)
      PROVE  InvIn(v1', v2', v3', v5', v6', v7', v8', v9', v10')
  <2>1. PICK kind \in Market!Kinds : Market!Log(l, kind) /\ (kind # "Created" => Market!Active(l))
    BY <1>1 DEF Market!CreateListing, Market!CancelListing, Market!ExpireListing, Market!Buy, Market!Kinds
  <2>2. kind # "Created" => AtIn(v1, l, v2).status = "ACTIVE"
    BY <2>1, ListingIs DEF Market!Active
  <2> QED BY <2>1, <2>2, LogStep
<1>2. CASE Market!CloseBlock
  BY <1>2, BlockStep
<1>3. ASSUME NEW l \in Listings, Market!Elapse(l)
      PROVE  InvIn(v1', v2', v3', v5', v6', v7', v8', v9', v10')
  BY <1>3, ElapseStep
<1>4. CASE Market!Scan
  BY <1>4, ScanApplyStep, ScanWriteStep, ScanQuietStep DEF Market!Scan, QuietScan
<1>5. CASE Market!Settle
  BY <1>5, SettleApplyStep, SettleWriteStep, SettleQuietStep DEF Market!Settle, QuietSettle, Market!Ids
<1>6. CASE Market!Restart
  BY <1>6, MarketRestartStep
<1>7. CASE UNCHANGED Market!vars
  BY <1>7 DEF Market!vars, Market!onChain, Market!mirror, MarketInv
<1> QED BY <1>1, <1>2, <1>3, <1>4, <1>5, <1>6, <1>7 DEF Market!Next, Market!Market

\* A pass that is through with every closed log left every row true.
LEMMA MirrorIsTrue == MarketInv => Market!MirrorTrue
<1> SUFFICES ASSUME MarketInv, Market!CaughtUp, "overtaken" \notin v10, NEW l \in Listings
             PROVE  \/ v5[l] = Market!ListingAt(l, v2 - 1)
                    \/ v5[l] = Market!Reconciled(l, Market!ListingAt(l, v2 - 1))
  BY DEF Market!MirrorTrue
<1>1. \A i \in DOMAIN v1 : ClosedIn(v1, v2, i) => PassedIn(v7, i)
  BY PassesAre DEF Market!CaughtUp, PassedIn, Market!Ids
<1>2. MirroredOf(v1, v2, v3, v5, v7, l)
  BY DEF MarketInv, InvIn, MirroredIn
<1>3. v5[l] = AtIn(v1, l, v2 - 1) \/ v5[l] = ByClock(v3, l, AtIn(v1, l, v2 - 1))
  BY <1>1, <1>2 DEF MirroredOf
<1> QED BY <1>3, PassesAre, ListingIs

\* What the listing's logs before this one made of its row is what this log needs.
LEMMA PassProceeds == MarketInv => Market!ScanProceeds
<1> SUFFICES ASSUME MarketInv, Market!Throws, v10 \cap {"same block", "ahead", "elapsed"} = {}
             PROVE  FALSE
  BY DEF Market!ScanProceeds
<1> DEFINE i == v7.at
           l == v1[i].listing
           row == v5[l]
           sold == OfIn(v1, l, "Sold") \cap v6
<1>1. ClosedIn(v1, v2, i) /\ i \notin v6 /\ ~Market!Applies(i)
  BY PassesAre DEF Market!Throws
<1>2. /\ LogsOK(v1, v2) /\ RowsOK(v1, v5, v6) /\ ChainIn(v1, v2) /\ ScanIn(v1, v6, v7) /\ InTurnIn(v1, v6, v10) /\ ReadyIn(v1, v5, v6, v10)
  BY DEF MarketInv, InvIn
<1>3. i \in DOMAIN v1 /\ l \in Listings /\ v1[i].kind \in Market!Kinds /\ row \in Market!Rows /\ \A j \in DOMAIN v1 : j \in Nat
  BY <1>1, <1>2, LogFacts DEF ClosedIn, RowsOK
<1>4. v1[i].kind # "Created"
  BY <1>1 DEF Market!Applies
<1>5. /\ BeforeIn(v1, i, "Created") # {} /\ BeforeIn(v1, i, "Cancelled") = {} /\ BeforeIn(v1, i, "Expired") = {}
      /\ Cardinality(BeforeIn(v1, i, "Sold")) < Amount
  BY <1>2, <1>3, <1>4 DEF ChainIn
<1>6. OfIn(v1, l, "Created") \cap v6 # {}
  BY <1>2, <1>5 DEF BeforeIn, OfIn, ScanIn
<1>7. \A kind : OfIn(v1, l, kind) \cap v6 \subseteq BeforeIn(v1, i, kind)
  <2> SUFFICES ASSUME NEW kind, NEW j \in OfIn(v1, l, kind) \cap v6 PROVE j < i
    BY DEF BeforeIn
  <2>1. j \in DOMAIN v1 /\ v1[j].listing = l /\ j # i
    BY <1>1 DEF OfIn
  <2>2. ~(i < j)
    BY <1>1, <1>2, <1>3, <2>1 DEF InTurnIn
  <2>3. j \in Nat /\ i \in Nat
    BY <1>3, <2>1
  <2> QED BY ONLY <2>1, <2>2, <2>3
<1>8. Cardinality(sold) \in Nat /\ Cardinality(sold) < Amount
  <2>1. sold \subseteq BeforeIn(v1, i, "Sold") /\ BeforeIn(v1, i, "Sold") \subseteq DOMAIN v1
    BY <1>7 DEF BeforeIn, OfIn
  <2>2. Cardinality(sold) \in Nat /\ Cardinality(BeforeIn(v1, i, "Sold")) \in Nat /\ Cardinality(sold) <= Cardinality(BeforeIn(v1, i, "Sold"))
    BY <1>2, <2>1, CountLogs
  <2>3. Cardinality(BeforeIn(v1, i, "Sold")) < Amount
    BY <1>5
  <2> QED BY ONLY <2>2, <2>3, MarketParameters
<1>9. ReadyOf(v1, v5, v6, l)
  BY <1>2, <1>3 DEF ReadyIn
<1>10. row.left > 0
  <2>1. row.left \in 0..Amount /\ row.left >= Amount - Cardinality(sold)
    BY <1>3, <1>6, <1>9 DEF ReadyOf, Market!Rows
  <2> QED BY ONLY <1>8, <2>1, MarketParameters
<1>11. row.status = "ACTIVE"
  <2>1. OfIn(v1, l, "Cancelled") \cap v6 = {} /\ OfIn(v1, l, "Expired") \cap v6 = {}
    BY <1>5, <1>7
  <2>2. row.status = "ACTIVE" \/ row.left = 0
    BY <1>6, <1>9, <2>1 DEF ReadyOf
  <2>3. row.left # 0
    BY ONLY <1>10, <1>3 DEF Market!Rows
  <2> QED BY <2>2, <2>3
<1> QED BY <1>1, <1>3, <1>4, <1>10, <1>11 DEF Market!Applies, Market!Kinds

\* The invariant of the resale and its mirror holds in every behaviour.
LEMMA ResaleInvariant == SpecOne => [](part = "market" => Market!ResaleIInv)
<1> DEFINE Inv == part = "market" => Market!ResaleIInv
<1>1. InitOne => Inv
  BY MarketStarts, ResaleIs DEF InitOne, Starts, MarketInv
<1>2. Inv /\ [NextOne]_allVars => Inv'
  <2> SUFFICES ASSUME Inv, [NextOne]_allVars PROVE Inv'
    OBVIOUS
  <2>1. CASE part = "market"
    BY <2>1, MarketStep, MarketNextKeeps, ResaleIs, ResaleIsNext DEF MarketInv
  <2>2. CASE part # "market"
    BY <2>2 DEF NextOne, Steps, allVars, vVars
  <2> QED BY <2>1, <2>2
<1> QED BY <1>1, <1>2, PTL DEF SpecOne

(***************************************************************************)
(* The mirror is kept: however the settlement loop, repeated cycles and    *)
(* restarts interleave with the pass, once it is through every row is the  *)
(* chain's (unless it overtook the loop), and it never meets a log it      *)
(* cannot project outside the three circumstances named there              *)
(* (server/indexer-store.js, applyMarketplaceEvent;                        *)
(* server/marketplace-settlement-reconcile.js).                            *)
(***************************************************************************)
THEOREM MirrorAlwaysKept == SpecOne => []MirrorKept
<1> DEFINE Inv == part = "market" => Market!ResaleIInv
<1>1. Inv => MirrorKept
  BY ResaleIs, MirrorIsTrue, PassProceeds DEF MirrorKept, MarketInv
<1>2. SpecOne => []Inv
  BY ResaleInvariant
<1> QED BY <1>1, <1>2, PTL
=============================================================================
