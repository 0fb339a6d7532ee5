------------------------- MODULE ReleaseLaunchProofs -------------------------
(***************************************************************************)
(* Proofs about ReleaseLaunch, for any number of accounts, claim contracts *)
(* and nested calls, any terms, allocations and fee.                       *)
(***************************************************************************)
EXTENDS ReleaseLaunch, FiniteSetTheorems, TLAPS

(***************************************************************************)
(* Sequences used as a stack: what a push, a pop and a change of the top   *)
(* do to every position.                                                   *)
(***************************************************************************)
LEMMA Pushed ==
  ASSUME NEW S, NEW s \in Seq(S), NEW f \in S
  PROVE  LET t == <<f>> \o s
         IN  /\ t \in Seq(S) /\ Len(t) = Len(s) + 1 /\ t[1] = f
             /\ \A i \in 1..Len(s) : t[i + 1] = s[i]
             /\ \A i \in 2..Len(t) : t[i] = s[i - 1]
OBVIOUS

LEMMA Popped ==
  ASSUME NEW S, NEW s \in Seq(S), s # <<>>
  PROVE  /\ Head(s) = s[1] /\ s[1] \in S /\ Len(s) >= 1
         /\ Tail(s) \in Seq(S) /\ Len(Tail(s)) = Len(s) - 1
         /\ \A i \in 1..Len(Tail(s)) : Tail(s)[i] = s[i + 1]
OBVIOUS

LEMMA TopReplaced ==
  ASSUME NEW S, NEW s \in Seq(S), s # <<>>, NEW f \in S
  PROVE  LET t == <<f>> \o Tail(s)
         IN  t \in Seq(S) /\ Len(t) = Len(s) /\ t[1] = f /\ \A i \in 2..Len(s) : t[i] = s[i]
<1>1. /\ Tail(s) \in Seq(S) /\ Len(Tail(s)) = Len(s) - 1 /\ Len(s) >= 1
      /\ \A i \in 1..Len(Tail(s)) : Tail(s)[i] = s[i + 1]
  BY Popped
<1>2. LET t == <<f>> \o Tail(s)
      IN  /\ t \in Seq(S) /\ Len(t) = Len(Tail(s)) + 1 /\ t[1] = f
          /\ \A i \in 2..Len(t) : t[i] = Tail(s)[i - 1]
  BY <1>1, Pushed
<1> QED BY <1>1, <1>2

(***************************************************************************)
(* Totals: the units of a count are finitely many, and one count higher by *)
(* n at one place has n more of them.                                      *)
(***************************************************************************)
LEMMA UnitsFinite ==
  ASSUME NEW S, IsFiniteSet(S), NEW f \in [S -> Nat]
  PROVE  IsFiniteSet(Units(f)) /\ Total(f) \in Nat
<1> DEFINE part == [x \in S |-> {x} \X (1..f[x])]
           T == {part[x] : x \in S}
<1>1. part \in Surjection(S, T)
  BY DEF Surjection
<1>2. IsFiniteSet(T)
  BY <1>1, FS_Surjection
<1>3. \A x \in S : IsFiniteSet(part[x])
  <2> TAKE x \in S
  <2>0. 1 \in Int /\ f[x] \in Int
    OBVIOUS
  <2>1. IsFiniteSet({x}) /\ IsFiniteSet(1..f[x])
    BY <2>0, FS_Singleton, FS_Interval
  <2> QED BY <2>1, FS_Product
<1>4. Units(f) = UNION T
  BY DEF Units
<1>5. \A U \in T : IsFiniteSet(U)
  BY <1>3
<1> HIDE DEF part, T
<1>6. IsFiniteSet(Units(f))
  BY <1>2, <1>4, <1>5, FS_UNION
<1> QED BY <1>6, FS_CardinalityType DEF Total

LEMMA TotalGrows ==
  ASSUME NEW S, IsFiniteSet(S), NEW f \in [S -> Nat], NEW g \in [S -> Nat], NEW a \in S, NEW n \in Nat,
         g[a] = f[a] + n, \A x \in S \ {a} : g[x] = f[x]
  PROVE  Total(f) \in Nat /\ Total(g) = Total(f) + n
<1> DEFINE more == (f[a] + 1)..(f[a] + n)
           new == {a} \X more
<1>1. f[a] \in Nat /\ g[a] \in Nat
  OBVIOUS
<1>2. IsFiniteSet(more) /\ Cardinality(more) = n
  <2>1. f[a] + 1 \in Int /\ f[a] + n \in Int
    BY <1>1
  <2>2. IsFiniteSet(more) /\ Cardinality(more) = IF f[a] + 1 > f[a] + n THEN 0 ELSE (f[a] + n) - (f[a] + 1) + 1
    BY ONLY <2>1, FS_Interval
  <2>3. (IF f[a] + 1 > f[a] + n THEN 0 ELSE (f[a] + n) - (f[a] + 1) + 1) = n
    BY ONLY <1>1, n \in Nat
  <2> QED BY ONLY <2>2, <2>3
<1>3. IsFiniteSet(new) /\ Cardinality(new) = n
  <2>1. IsFiniteSet({a}) /\ Cardinality({a}) = 1
    BY FS_Singleton
  <2> HIDE DEF more
  <2> QED BY <1>2, <2>1, FS_Product
<1>4. 1..g[a] = (1..f[a]) \cup more /\ (1..f[a]) \cap more = {}
  BY <1>1
<1> HIDE DEF more
<1>5. Units(g) = Units(f) \cup new
  <2>1. DOMAIN f = S /\ DOMAIN g = S
    OBVIOUS
  <2>2. {a} \X (1..g[a]) = ({a} \X (1..f[a])) \cup new
    BY <1>4
  <2>3. Units(g) \subseteq Units(f) \cup new
    <3> SUFFICES ASSUME NEW x \in S, NEW u \in {x} \X (1..g[x]) PROVE u \in Units(f) \cup new
      BY <2>1 DEF Units
    <3>1. u \in {x} \X (1..f[x]) \/ u \in new
      BY <2>2
    <3> QED BY <2>1, <3>1 DEF Units
  <2>4. Units(f) \cup new \subseteq Units(g)
    <3>1. ASSUME NEW x \in S, NEW u \in {x} \X (1..f[x]) PROVE u \in {x} \X (1..g[x])
      BY <2>2
    <3>2. Units(f) \subseteq Units(g)
      BY <2>1, <3>1 DEF Units
    <3>3. new \subseteq {a} \X (1..g[a])
      BY <2>2
    <3> QED BY <2>1, <3>2, <3>3 DEF Units
  <2> QED BY <2>3, <2>4
<1>6. Units(f) \cap new = {}
  <2>1. \A x \in S : \A u \in {x} \X (1..f[x]) : u \notin new
    BY <1>4
  <2> QED BY <2>1 DEF Units
<1>7. IsFiniteSet(Units(f)) /\ Total(f) \in Nat
  BY UnitsFinite
<1> HIDE DEF new
<1>8. Cardinality(Units(f) \cup new) = Cardinality(Units(f)) + Cardinality(new) - Cardinality(Units(f) \cap new)
  BY <1>3, <1>7, FS_Union
<1>9. Cardinality({}) = 0
  BY FS_EmptySet
<1>10. Total(g) = Cardinality(Units(f) \cup new) /\ Total(f) = Cardinality(Units(f))
  BY <1>5 DEF Total
<1>11. Cardinality(Units(f) \cap new) = 0 /\ Cardinality(new) = n
  BY <1>3, <1>6, <1>9
<1> QED BY ONLY <1>7, <1>8, <1>10, <1>11, n \in Nat

LEMMA NothingCounted == ASSUME NEW S, NEW f, DOMAIN f = S, \A x \in S : f[x] = 0 PROVE Total(f) = 0
<1>1. Units(f) = {}
  BY DEF Units
<1> QED BY <1>1, FS_EmptySet DEF Total

\* What moves from one place to another leaves the total as it is.
LEMMA TotalMoves ==
  ASSUME NEW S, IsFiniteSet(S), NEW f \in [S -> Nat], NEW a \in S, NEW b \in S, NEW n \in Nat, n <= f[a]
  PROVE  Total([[f EXCEPT ![a] = @ - n] EXCEPT ![b] = @ + n]) = Total(f)
<1> DEFINE less == [f EXCEPT ![a] = @ - n]
           more == [less EXCEPT ![b] = @ + n]
<1>1. f[a] \in Nat /\ f[a] - n \in Nat /\ f[a] = (f[a] - n) + n
  OBVIOUS
<1>2. less \in [S -> Nat] /\ less[a] = f[a] - n /\ \A x \in S \ {a} : less[x] = f[x]
  BY <1>1
<1> HIDE DEF less
<1>3. more \in [S -> Nat] /\ more[b] = less[b] + n /\ \A x \in S \ {b} : more[x] = less[x]
  BY <1>2
<1> HIDE DEF more
<1>4. Total(less) \in Nat /\ Total(f) = Total(less) + n
  <2>1. f[a] = less[a] + n /\ \A x \in S \ {a} : f[x] = less[x]
    BY <1>1, <1>2
  <2>2. less \in [S -> Nat]
    BY <1>2
  <2> QED BY ONLY <2>1, <2>2, IsFiniteSet(S), f \in [S -> Nat], a \in S, n \in Nat, TotalGrows
<1>5. Total(more) = Total(less) + n
  BY <1>2, <1>3, TotalGrows
<1> QED BY <1>4, <1>5 DEF less, more
(***************************************************************************)
(* The platform's cut rounds down and never exceeds what was paid.         *)
(***************************************************************************)
LEMMA CutWithinPayment ==
  ASSUME NEW paid \in Nat
  PROVE  PlatformCut(paid) \in Nat /\ PlatformCut(paid) <= paid
<1> DEFINE q == (paid * FeeBps) \div BpsBase
<1>1. FeeBps \in Nat /\ BpsBase \in Nat \ {0} /\ FeeBps <= BpsBase
  BY FeeAssumption
<1>2. paid * FeeBps \in Nat /\ paid * FeeBps <= paid * BpsBase
  BY <1>1, Z3
<1>3. q \in Int /\ BpsBase * q <= paid * FeeBps /\ paid * FeeBps < BpsBase * q + BpsBase
  BY <1>1, <1>2, Z3
<1> HIDE DEF q
<1>4. q <= paid
  BY <1>1, <1>2, <1>3, Z3
<1>5. q >= 0
  BY <1>1, <1>2, <1>3, Z3
<1> QED BY <1>3, <1>4, <1>5 DEF PlatformCut, q

(***************************************************************************)
(* Every effect on an edition or a sale yields an edition or a sale.       *)
(***************************************************************************)
LEMMA MintEffect ==
  ASSUME NEW e \in Edition, NEW to, NEW n \in Nat
  PROVE  Minted(e, to, n) \in Edition /\ Minted(e, to, n).minted = e.minted + n
<1> DEFINE balance == [e.balance EXCEPT ![to] = @ + n]
<1>1. balance \in [Accounts -> Nat] /\ e.minted + n \in Nat
  <2>1. e.minted + n \in Nat /\ e.balance \in [Accounts -> Nat]
    BY DEF Edition
  <2>2. CASE to \in Accounts
    BY <2>1, <2>2
  <2>3. CASE to \notin Accounts
    BY <2>1, <2>3
  <2> QED BY <2>1, <2>2, <2>3
<1>2. Minted(e, to, n) = [e EXCEPT !.minted = @ + n, !.balance = balance]
  BY DEF Minted, Edition
<1> HIDE DEF balance
<1> QED BY <1>1, <1>2 DEF Edition

LEMMA TransferEffect ==
  ASSUME NEW e \in Edition, NEW from \in Accounts, NEW to \in Accounts, NEW n \in Nat,
         n <= e.balance[from]
  PROVE  /\ Transferred(e, from, to, n) \in Edition
         /\ Transferred(e, from, to, n).minted = e.minted
<1> DEFINE sent == [e.balance EXCEPT ![from] = @ - n]
           balance == [sent EXCEPT ![to] = @ + n]
<1>1. sent \in [Accounts -> Nat]
  BY DEF Edition
<1>2. balance \in [Accounts -> Nat]
  BY <1>1
<1>3. Transferred(e, from, to, n) = [e EXCEPT !.balance = balance]
  BY DEF Transferred
<1> HIDE DEF balance
<1> QED BY <1>2, <1>3 DEF Edition

LEMMA TransferHeld ==
  ASSUME NEW e \in Edition, NEW from \in Accounts, NEW to \in Accounts, NEW n \in Nat,
         n <= e.balance[from]
  PROVE  /\ Transferred(e, from, to, n).maxSupply = e.maxSupply
         /\ Total(Transferred(e, from, to, n).balance) = Total(e.balance)
<1>1. e.balance \in [Accounts -> Nat] /\ IsFiniteSet(Accounts)
  BY LaunchAssumption DEF Edition
<1>2. /\ Transferred(e, from, to, n).maxSupply = e.maxSupply
      /\ Transferred(e, from, to, n).balance = [[e.balance EXCEPT ![from] = @ - n] EXCEPT ![to] = @ + n]
  BY DEF Transferred, Edition
<1> QED BY <1>1, <1>2, TotalMoves

LEMMA SaleEffects ==
  ASSUME NEW s \in Sale, NEW a \in Accounts, NEW n \in Nat
  PROVE  LET paid == s.terms.price * n
             b == Bought(s, a, n)
         IN  /\ b \in Sale /\ PlatformCut(paid) \in Nat
             /\ b.terms = s.terms /\ b.sold = s.sold + n /\ b.bought = [s.bought EXCEPT ![a] = @ + n]
             /\ b.cash + s.owed = s.cash + b.owed + PlatformCut(paid)
<1> DEFINE paid == s.terms.price * n
           cut == PlatformCut(paid)
<1>1. paid \in Nat
  BY DEF Sale, Terms
<1>2. cut \in Nat /\ cut <= paid
  BY <1>1, CutWithinPayment
<1> HIDE DEF paid, cut
<1>3. /\ s.sold + n \in Nat /\ s.cash + paid \in Nat /\ s.owed + (paid - cut) \in Nat
      /\ [s.bought EXCEPT ![a] = @ + n] \in [Accounts -> Nat]
  BY <1>1, <1>2 DEF Sale
<1>4. Bought(s, a, n) = [s EXCEPT !.sold = @ + n, !.bought[a] = @ + n,
                                  !.cash = @ + paid, !.owed = @ + (paid - cut)]
  BY DEF Bought, paid, cut
<1>5. Bought(s, a, n) \in Sale
  BY <1>3, <1>4 DEF Sale
<1>6. s.owed \in Nat /\ s.cash \in Nat
  BY DEF Sale
<1>7. /\ Bought(s, a, n).cash = s.cash + paid /\ Bought(s, a, n).owed = s.owed + (paid - cut)
      /\ Bought(s, a, n).terms = s.terms /\ Bought(s, a, n).sold = s.sold + n
      /\ Bought(s, a, n).bought = [s.bought EXCEPT ![a] = @ + n]
  BY <1>4 DEF Sale
<1> QED BY <1>1, <1>2, <1>5, <1>6, <1>7 DEF paid, cut

(***************************************************************************)
(* The books of a world: what keeps them, and what a mint enters in them.  *)
(***************************************************************************)
LEMMA CountsTyped ==
  ASSUME NEW w \in World
  PROVE  /\ w.edition.minted \in Nat /\ w.edition.balance \in [Accounts -> Nat] /\ w.direct \in Nat
         /\ w.sale.sold \in Nat /\ w.sale.bought \in [Accounts -> Nat]
         /\ IsFiniteSet(Accounts) /\ IsFiniteSet(Claims) /\ EditionCap \in Nat
         /\ Claimants(w) \subseteq Accounts /\ IsFiniteSet(Claimants(w)) /\ Cardinality(Claimants(w)) \in Nat
         /\ EarlyCopies(w) \in Nat
         /\ \A c \in Claims : w.claims[c] \in ClaimContract /\ w.claims[c].early \in Early
         /\ \A c \in Claims : w.claims[c].supply \in Nat /\ w.claims[c].baseline \in Nat
         /\ CountsSound(w) => Through(w) \in [Claims -> Nat] /\ Total(Through(w)) \in Nat
<1>1. w.edition \in Edition /\ w.sale \in Sale /\ w.direct \in Nat /\ w.claims \in [Claims -> ClaimContract]
  BY DEF World
<1>2. /\ w.edition.minted \in Nat /\ w.edition.balance \in [Accounts -> Nat]
      /\ w.sale.sold \in Nat /\ w.sale.bought \in [Accounts -> Nat]
  BY <1>1 DEF Edition, Sale
<1>3. IsFiniteSet(Accounts) /\ EditionCap \in Nat /\ NumClaims \in Nat
  BY LaunchAssumption
<1>4. IsFiniteSet(Claims)
  <2>1. 1 \in Int /\ NumClaims \in Int
    BY <1>3
  <2> QED BY <2>1, FS_Interval DEF Claims
<1>5. \A c \in Claims : /\ w.claims[c] \in ClaimContract /\ w.claims[c].early \in Early
                        /\ w.claims[c].supply \in Nat /\ w.claims[c].baseline \in Nat
                        /\ w.claims[c].claimed \subseteq Accounts
  BY <1>1 DEF ClaimContract
<1>6. Claimants(w) \subseteq Accounts
  BY <1>5 DEF Claimants
<1>7. IsFiniteSet(Claimants(w)) /\ Cardinality(Claimants(w)) \in Nat
  BY <1>3, <1>6, FS_Subset, FS_CardinalityType
<1>8. EarlyCopies(w) \in Nat
  BY <1>4, FS_Subset, FS_CardinalityType DEF EarlyCopies
<1>9. ASSUME CountsSound(w) PROVE Through(w) \in [Claims -> Nat] /\ Total(Through(w)) \in Nat
  <2>1. \A c \in Claims : w.claims[c].baseline <= w.claims[c].supply
    BY <1>9 DEF CountsSound
  <2>2. \A c \in Claims : w.claims[c].supply - w.claims[c].baseline \in Nat
    BY <1>5, <2>1
  <2>3. Through(w) \in [Claims -> Nat]
    BY <2>2 DEF Through
  <2> QED BY <1>4, <2>3, UnitsFinite
<1> QED BY <1>1, <1>2, <1>3, <1>4, <1>5, <1>6, <1>7, <1>8, <1>9

LEMMA GrownSelf == ASSUME NEW w \in World PROVE Grown(w, w)
BY CountsTyped DEF Grown

LEMMA GrownOn ==
  ASSUME NEW u \in World, NEW v \in World, NEW w \in World, Grown(u, v), Grown(v, w) PROVE Grown(u, w)
<1>1. /\ u.direct \in Nat /\ v.direct \in Nat /\ w.direct \in Nat
      /\ \A a \in Accounts : u.sale.bought[a] \in Nat /\ v.sale.bought[a] \in Nat /\ w.sale.bought[a] \in Nat
      /\ \A c \in Claims : u.claims[c].supply \in Nat /\ v.claims[c].supply \in Nat /\ w.claims[c].supply \in Nat
  BY CountsTyped
<1>2. u.direct <= w.direct /\ \A a \in Accounts : u.sale.bought[a] <= w.sale.bought[a]
  BY <1>1 DEF Grown
<1>3. \A c \in Claims : u.claims[c].supply <= w.claims[c].supply
  BY <1>1 DEF Grown
<1>4. \A c \in Claims : /\ u.claims[c].claimed \subseteq w.claims[c].claimed
                        /\ u.claims[c].early.done => w.claims[c].early.done
  BY DEF Grown
<1> QED BY <1>2, <1>3, <1>4 DEF Grown

\* Nobody's copies, purchases or claims change.
LEMMA BooksLike ==
  ASSUME NEW v \in World, NEW w \in World, Books(v),
         w.edition.minted = v.edition.minted, w.edition.maxSupply = v.edition.maxSupply,
         Total(w.edition.balance) = Total(v.edition.balance),
         w.sale.sold = v.sale.sold, w.sale.bought = v.sale.bought, w.direct = v.direct,
         \A c \in Claims :
           /\ w.claims[c].kind = "none" => ~w.claims[c].early.done
           /\ w.claims[c].early.done = v.claims[c].early.done
           /\ w.claims[c].early.enabled => w.claims[c].early.wallet \in Accounts
           /\ w.claims[c].supply - w.claims[c].baseline = v.claims[c].supply - v.claims[c].baseline
           /\ v.claims[c].supply <= w.claims[c].supply
           /\ w.claims[c].claimed = v.claims[c].claimed
  PROVE  Books(w) /\ Grown(v, w)
<1>1. Through(w) = Through(v)
  BY DEF Through
<1>2. Claimants(w) = Claimants(v)
  BY DEF Claimants
<1>3. EarlyCopies(w) = EarlyCopies(v)
  BY DEF EarlyCopies
<1>4. Books(w)
  BY <1>1, <1>2, <1>3 DEF Books
<1>5. Grown(v, w)
  <2>1. v.direct \in Nat /\ \A a \in Accounts : v.sale.bought[a] \in Nat
    BY CountsTyped
  <2> QED BY <2>1 DEF Grown
<1> QED BY <1>4, <1>5

LEMMA SameBooks ==
  ASSUME NEW v \in World, NEW w \in World, Sound(v),
         w.edition = v.edition, w.claims = v.claims, w.direct = v.direct,
         w.sale.sold = v.sale.sold, w.sale.bought = v.sale.bought
  PROVE  Books(w) /\ Grown(v, w)
<1>1. Books(v) /\ \A c \in Claims : v.claims[c].supply \in Nat
  BY CountsTyped DEF Sound
<1>2. \A c \in Claims : LET k == v.claims[c] IN
        (k.kind = "none" => ~k.early.done) /\ (k.early.enabled => k.early.wallet \in Accounts)
  BY <1>1 DEF Books
<1> QED BY <1>1, <1>2, BooksLike

\* A mint hands over what it counts.
LEMMA MintHeld ==
  ASSUME NEW v \in World, NEW w \in World, Books(v), NEW a \in Accounts, NEW n \in Nat,
         w.edition = Minted(v.edition, a, n), EditionCap = 0 \/ v.edition.minted + n <= EditionCap
  PROVE  /\ w.edition.minted = v.edition.minted + n /\ w.edition.minted = Total(w.edition.balance)
         /\ w.edition.maxSupply = EditionCap /\ (EditionCap # 0 => w.edition.minted <= EditionCap)
<1>1. /\ v.edition \in Edition /\ v.edition.balance \in [Accounts -> Nat] /\ v.edition.minted \in Nat
      /\ IsFiniteSet(Accounts) /\ v.edition.minted = Total(v.edition.balance) /\ v.edition.maxSupply = EditionCap
  BY CountsTyped DEF World, Books
<1>2. /\ w.edition.minted = v.edition.minted + n /\ w.edition.maxSupply = v.edition.maxSupply
      /\ w.edition.balance = [v.edition.balance EXCEPT ![a] = @ + n]
  BY <1>1 DEF Minted, Edition
<1>3. Total(w.edition.balance) = Total(v.edition.balance) + n
  <2> DEFINE f == v.edition.balance
             g == [f EXCEPT ![a] = @ + n]
  <2>1. f \in [Accounts -> Nat]
    BY <1>1
  <2> HIDE DEF f
  <2>2. g \in [Accounts -> Nat] /\ g[a] = f[a] + n /\ \A x \in Accounts \ {a} : g[x] = f[x]
    BY <2>1
  <2> HIDE DEF g
  <2>3. Total(g) = Total(f) + n
    BY <1>1, <2>1, <2>2, TotalGrows
  <2> QED BY <1>2, <2>3 DEF f, g
<1> QED BY <1>1, <1>2, <1>3

LEMMA BooksBought ==
  ASSUME NEW v \in World, NEW w \in World, Books(v), CountsSound(v), NEW a \in Accounts, NEW n \in Nat,
         w.edition = Minted(v.edition, a, n), EditionCap = 0 \/ v.edition.minted + n <= EditionCap,
         w.sale.sold = v.sale.sold + n, w.sale.bought = [v.sale.bought EXCEPT ![a] = @ + n],
         w.direct = v.direct, w.claims = v.claims
  PROVE  Books(w) /\ Grown(v, w)
<1>1. /\ v.edition.minted \in Nat /\ v.sale.sold \in Nat /\ v.direct \in Nat /\ EarlyCopies(v) \in Nat
      /\ Cardinality(Claimants(v)) \in Nat /\ Total(Through(v)) \in Nat /\ IsFiniteSet(Accounts)
      /\ v.sale.bought \in [Accounts -> Nat] /\ w.sale.bought \in [Accounts -> Nat]
      /\ \A c \in Claims : v.claims[c].supply \in Nat
  BY CountsTyped
<1>2. Through(w) = Through(v) /\ Claimants(w) = Claimants(v) /\ EarlyCopies(w) = EarlyCopies(v)
  BY DEF Through, Claimants, EarlyCopies
<1>3. w.sale.bought[a] = v.sale.bought[a] + n /\ \A x \in Accounts \ {a} : w.sale.bought[x] = v.sale.bought[x]
  BY <1>1
<1>4. Total(w.sale.bought) = Total(v.sale.bought) + n
  BY <1>1, <1>3, TotalGrows
<1>5. /\ w.edition.minted = v.edition.minted + n /\ w.edition.minted = Total(w.edition.balance)
      /\ w.edition.maxSupply = EditionCap /\ (EditionCap # 0 => w.edition.minted <= EditionCap)
  BY MintHeld
<1>6. /\ v.sale.sold = Total(v.sale.bought)
      /\ v.edition.minted = v.sale.sold + v.direct + Total(Through(v))
      /\ v.edition.minted = v.sale.sold + v.direct + EarlyCopies(v) + Cardinality(Claimants(v))
  BY DEF Books
<1>7. /\ w.sale.sold = Total(w.sale.bought)
      /\ w.edition.minted = w.sale.sold + w.direct + Total(Through(w))
      /\ w.edition.minted = w.sale.sold + w.direct + EarlyCopies(w) + Cardinality(Claimants(w))
  <2>1. n \in Nat /\ w.sale.sold = v.sale.sold + n /\ w.direct = v.direct
    OBVIOUS
  <2> QED BY ONLY <1>1, <1>2, <1>4, <1>5, <1>6, <2>1
<1>8. \A c \in Claims : LET k == w.claims[c] IN
        (k.kind = "none" => ~k.early.done) /\ (k.early.enabled => k.early.wallet \in Accounts)
  BY DEF Books
<1>9. Books(w)
  BY <1>5, <1>7, <1>8 DEF Books
<1>10. Grown(v, w)
  <2>1. \A x \in Accounts : v.sale.bought[x] \in Nat
    BY <1>1
  <2>2. \A x \in Accounts : v.sale.bought[x] <= w.sale.bought[x]
    <3>1. v.sale.bought[a] \in Nat /\ v.sale.bought[a] <= v.sale.bought[a] + n
      BY <2>1
    <3>2. \A x \in Accounts \ {a} : v.sale.bought[x] <= w.sale.bought[x]
      <4> SUFFICES ASSUME NEW x \in Accounts \ {a} PROVE v.sale.bought[x] <= w.sale.bought[x]
        OBVIOUS
      <4>1. w.sale.bought[x] = v.sale.bought[x] /\ v.sale.bought[x] \in Nat
        BY <1>3, <2>1
      <4> QED BY ONLY <4>1
    <3> QED BY <1>3, <3>1, <3>2
  <2>3. w.direct = v.direct /\ w.claims = v.claims
    OBVIOUS
  <2> QED BY ONLY <1>1, <2>2, <2>3 DEF Grown
<1> QED BY <1>9, <1>10

LEMMA BooksIssued ==
  ASSUME NEW v \in World, NEW w \in World, Books(v), CountsSound(v), NEW a \in Accounts, NEW n \in Nat,
         w.edition = Minted(v.edition, a, n), EditionCap = 0 \/ v.edition.minted + n <= EditionCap,
         w.sale = v.sale, w.direct = v.direct + n, w.claims = v.claims
  PROVE  Books(w) /\ Grown(v, w)
<1>1. /\ v.edition.minted \in Nat /\ v.sale.sold \in Nat /\ v.direct \in Nat /\ EarlyCopies(v) \in Nat
      /\ Cardinality(Claimants(v)) \in Nat /\ Total(Through(v)) \in Nat
      /\ v.sale.bought \in [Accounts -> Nat] /\ \A c \in Claims : v.claims[c].supply \in Nat
  BY CountsTyped
<1>2. Through(w) = Through(v) /\ Claimants(w) = Claimants(v) /\ EarlyCopies(w) = EarlyCopies(v)
  BY DEF Through, Claimants, EarlyCopies
<1>3. /\ w.edition.minted = v.edition.minted + n /\ w.edition.minted = Total(w.edition.balance)
      /\ w.edition.maxSupply = EditionCap /\ (EditionCap # 0 => w.edition.minted <= EditionCap)
  BY MintHeld
<1>4. /\ v.sale.sold = Total(v.sale.bought)
      /\ v.edition.minted = v.sale.sold + v.direct + Total(Through(v))
      /\ v.edition.minted = v.sale.sold + v.direct + EarlyCopies(v) + Cardinality(Claimants(v))
  BY DEF Books
<1>5. /\ w.edition.minted = w.sale.sold + w.direct + Total(Through(w))
      /\ w.edition.minted = w.sale.sold + w.direct + EarlyCopies(w) + Cardinality(Claimants(w))
  <2>1. n \in Nat /\ w.sale = v.sale /\ w.direct = v.direct + n
    OBVIOUS
  <2> QED BY ONLY <1>1, <1>2, <1>3, <1>4, <2>1
<1>6. Books(w)
  <2>1. \A c \in Claims : LET k == w.claims[c] IN
          (k.kind = "none" => ~k.early.done) /\ (k.early.enabled => k.early.wallet \in Accounts)
    BY DEF Books
  <2> QED BY <1>3, <1>4, <1>5, <2>1 DEF Books
<1>7. Grown(v, w)
  BY <1>1 DEF Grown
<1> QED BY <1>6, <1>7

\* Contract e mints one copy: for a wallet that never claimed, or as its one early-access copy.
LEMMA BooksClaimed ==
  ASSUME NEW v \in World, NEW w \in World, Books(v), CountsSound(v), NEW a \in Accounts, NEW e \in Claims,
         w.edition = Minted(v.edition, a, 1), EditionCap = 0 \/ v.edition.minted + 1 <= EditionCap,
         w.sale = v.sale, w.direct = v.direct,
         \A c \in Claims \ {e} : w.claims[c] = v.claims[c],
         v.claims[e].kind # "none", w.claims[e].kind = v.claims[e].kind, w.claims[e].baseline = v.claims[e].baseline,
         w.claims[e].supply = v.claims[e].supply + 1,
         w.claims[e].early.enabled = v.claims[e].early.enabled, w.claims[e].early.wallet = v.claims[e].early.wallet,
         \/ /\ a \notin Claimants(v) /\ w.claims[e].claimed = v.claims[e].claimed \cup {a}
            /\ w.claims[e].early.done = v.claims[e].early.done
         \/ /\ w.claims[e].claimed = v.claims[e].claimed
            /\ ~v.claims[e].early.done /\ w.claims[e].early.done
  PROVE  Books(w) /\ Grown(v, w)
<1>1. /\ v.edition.minted \in Nat /\ v.sale.sold \in Nat /\ v.direct \in Nat /\ EarlyCopies(v) \in Nat
      /\ Cardinality(Claimants(v)) \in Nat /\ Total(Through(v)) \in Nat /\ Through(v) \in [Claims -> Nat]
      /\ v.sale.bought \in [Accounts -> Nat] /\ IsFiniteSet(Claims) /\ IsFiniteSet(Claimants(v))
      /\ \A c \in Claims : v.claims[c].supply \in Nat /\ v.claims[c].baseline \in Nat
  BY CountsTyped
<1>2. /\ w.edition.minted = v.edition.minted + 1 /\ w.edition.minted = Total(w.edition.balance)
      /\ w.edition.maxSupply = EditionCap /\ (EditionCap # 0 => w.edition.minted <= EditionCap)
  BY MintHeld
<1>3. /\ v.sale.sold = Total(v.sale.bought)
      /\ v.edition.minted = v.sale.sold + v.direct + Total(Through(v))
      /\ v.edition.minted = v.sale.sold + v.direct + EarlyCopies(v) + Cardinality(Claimants(v))
  BY DEF Books
<1>4. Total(Through(w)) = Total(Through(v)) + 1
  <2>1. Through(w)[e] = Through(v)[e] + 1 /\ \A c \in Claims \ {e} : Through(w)[c] = Through(v)[c]
    <3>1. /\ Through(w)[e] = w.claims[e].supply - w.claims[e].baseline
          /\ Through(v)[e] = v.claims[e].supply - v.claims[e].baseline
      BY DEF Through
    <3>2. \A c \in Claims \ {e} : Through(w)[c] = Through(v)[c]
      BY DEF Through
    <3> QED BY <1>1, <3>1, <3>2
  <2>2. Through(w) \in [Claims -> Nat]
    <3>1. \A c \in Claims : Through(v)[c] \in Nat /\ Through(w)[c] \in Nat
      BY <1>1, <2>1
    <3> QED BY <3>1 DEF Through
  <2> QED BY <1>1, <2>1, <2>2, TotalGrows
<1>5. EarlyCopies(w) + Cardinality(Claimants(w)) = EarlyCopies(v) + Cardinality(Claimants(v)) + 1
  <2>1. CASE a \notin Claimants(v) /\ w.claims[e].claimed = v.claims[e].claimed \cup {a}
             /\ w.claims[e].early.done = v.claims[e].early.done
    <3>1. EarlyCopies(w) = EarlyCopies(v)
      BY <2>1 DEF EarlyCopies
    <3>2. Claimants(w) = Claimants(v) \cup {a}
      BY <2>1 DEF Claimants
    <3>4. IsFiniteSet(Claimants(v)) /\ a \notin Claimants(v)
      BY <1>1, <2>1
    <3>3. Cardinality(Claimants(w)) = Cardinality(Claimants(v)) + 1
      BY ONLY <3>2, <3>4, FS_AddElement
    <3> QED BY <1>1, <3>1, <3>3
  <2>2. CASE w.claims[e].claimed = v.claims[e].claimed /\ ~v.claims[e].early.done /\ w.claims[e].early.done
    <3>1. Claimants(w) = Claimants(v)
      BY <2>2 DEF Claimants
    <3> DEFINE early(x) == {c \in Claims : x.claims[c].early.done}
    <3>2. early(w) = early(v) \cup {e}
      BY <2>2
    <3>3. early(v) \subseteq Claims /\ e \notin early(v)
      BY <2>2
    <3>5. EarlyCopies(w) = Cardinality(early(w)) /\ EarlyCopies(v) = Cardinality(early(v))
      BY DEF EarlyCopies
    <3> HIDE DEF early
    <3>6. IsFiniteSet(early(v))
      BY ONLY <1>1, <3>3, FS_Subset
    <3>4. EarlyCopies(w) = EarlyCopies(v) + 1
      BY ONLY <3>2, <3>3, <3>5, <3>6, FS_AddElement
    <3> QED BY <1>1, <3>1, <3>4
  <2> QED BY <2>1, <2>2
<1>6. /\ w.edition.minted = w.sale.sold + w.direct + Total(Through(w))
      /\ w.edition.minted = w.sale.sold + w.direct + EarlyCopies(w) + Cardinality(Claimants(w))
  <2>1. EarlyCopies(w) \in Nat /\ Cardinality(Claimants(w)) \in Nat
    BY CountsTyped
  <2>2. w.sale = v.sale /\ w.direct = v.direct
    OBVIOUS
  <2> QED BY ONLY <1>1, <1>2, <1>3, <1>4, <1>5, <2>1, <2>2
<1>7. Books(w)
  <2>1. \A c \in Claims : LET k == w.claims[c] IN
          (k.kind = "none" => ~k.early.done) /\ (k.early.enabled => k.early.wallet \in Accounts)
    BY DEF Books
  <2> QED BY <1>2, <1>3, <1>6, <2>1 DEF Books
<1>8. Grown(v, w)
  BY <1>1 DEF Grown
<1> QED BY <1>7, <1>8

(***************************************************************************)
(* The levels of the stack are worlds; a push moves each of them up by one.*)
(***************************************************************************)
LEMMA LevelTypes ==
  ASSUME TypeOK
  PROVE  /\ Len(stack) \in Nat /\ DOMAIN stack = 1..Len(stack)
         /\ \A i \in DOMAIN stack : stack[i] \in Frame
         /\ \A i \in Levels : Level(i) \in World
         /\ Level(0) = world /\ 0 \in Levels
         /\ now \in 0..MaxTime /\ stack \in Seq(Frame)
<1>1. stack \in Seq(Frame) /\ Len(stack) \in Nat /\ DOMAIN stack = 1..Len(stack)
  BY DEF TypeOK
<1>2. \A i \in DOMAIN stack : stack[i] \in Frame
  BY <1>1
<1>3. \A i \in DOMAIN stack : stack[i].before \in World
  BY <1>2 DEF Frame
<1> QED BY <1>1, <1>2, <1>3 DEF TypeOK, Levels, Level

(***************************************************************************)
(* The promise.  What is committed is the outermost level; it changes when *)
(* an outermost call returns or a call without callbacks is made on an     *)
(* empty stack, and then it only grows.                                    *)
(***************************************************************************)
LEMMA CommittedLevel ==
  ASSUME TypeOK, IInv
  PROVE  /\ Committed = Level(Len(stack)) /\ Committed \in World /\ Sound(Committed)
         /\ Grown(Committed, world)
<1>1. Len(stack) \in Nat /\ stack \in Seq(Frame) /\ Levels = 0..Len(stack) /\ Level(0) = world
  BY LevelTypes DEF Levels
<1>2. stack = <<>> <=> Len(stack) = 0
  BY <1>1
<1>3. Committed = Level(Len(stack))
  BY <1>1, <1>2 DEF Committed, Level
<1>4. Len(stack) \in Levels /\ 0 \in Levels /\ 0 <= Len(stack)
  BY <1>1
<1> QED BY <1>1, <1>3, <1>4, LevelTypes DEF IInv

LEMMA EnterCommitsNothing ==
  ASSUME TypeOK, NEW call, NEW c, NEW cut, NEW w, Enter(call, c, cut, w)
  PROVE  Committed' = Committed
<1> DEFINE f == [call |-> call, claim |-> c, cut |-> cut, before |-> world]
           S == Frame \cup {f}
<1>1. stack \in Seq(Frame) /\ stack' = <<f>> \o stack /\ f.before = world
  BY DEF TypeOK, Enter
<1> HIDE DEF f
<1>2. stack \in Seq(S) /\ f \in S
  BY <1>1
<1> HIDE DEF S
<1>3. /\ stack' \in Seq(S) /\ Len(stack') = Len(stack) + 1 /\ stack'[1] = f
      /\ \A i \in 1..Len(stack) : stack'[i + 1] = stack[i]
  BY <1>1, <1>2, Pushed
<1>4. Len(stack) \in Nat /\ (stack = <<>> <=> Len(stack) = 0) /\ (stack' = <<>> <=> Len(stack') = 0)
  BY <1>2, <1>3
<1> QED BY <1>1, <1>3, <1>4 DEF Committed

\* A call returns: an inner one commits nothing, the outermost one what it grew to.
LEMMA ReturnCommits ==
  ASSUME TypeOK, IInv, stack # <<>>, Pop, world' = world \/ world' = Top.before
  PROVE  Grown(Committed, Committed')
<1>1. stack' = Tail(stack)
  BY DEF Pop
<1>2. /\ stack \in Seq(Frame) /\ Len(stack) >= 1 /\ Len(stack) \in Nat /\ Top = stack[1]
      /\ stack' \in Seq(Frame) /\ Len(stack') = Len(stack) - 1
      /\ \A i \in 1..Len(stack') : stack'[i] = stack[i + 1]
  BY <1>1, LevelTypes, Popped DEF Top
<1>3. Committed = stack[Len(stack)].before
  BY DEF Committed
<1>6. stack' = <<>> <=> Len(stack') = 0
  BY ONLY <1>2
<1>4. CASE Len(stack) = 1
  <2>1. Committed' = world' /\ Committed = Top.before
    BY <1>2, <1>3, <1>4, <1>6 DEF Committed
  <2>2. Committed \in World /\ Grown(Committed, world)
    BY CommittedLevel
  <2> QED BY <1>1, <2>1, <2>2, GrownSelf
<1>5. CASE Len(stack) > 1
  <2>1. Committed' = stack'[Len(stack) - 1].before /\ stack'[Len(stack) - 1] = stack[Len(stack)]
    BY <1>2, <1>3, <1>5, <1>6 DEF Committed
  <2>2. Committed' = Committed
    BY <1>3, <2>1
  <2>3. Committed \in World
    BY CommittedLevel
  <2> QED BY <2>2, <2>3, GrownSelf
<1> QED BY <1>2, <1>4, <1>5

LEMMA PlatformCommitsNothing ==
  ASSUME TypeOK, PayPlatform
  PROVE  Committed' = Committed
<1> DEFINE f == [Top EXCEPT !.call = "platform"]
           S == Frame \cup {f}
<1>1. /\ stack \in Seq(Frame) /\ stack # <<>> /\ stack' = <<f>> \o Tail(stack)
      /\ Top = stack[1] /\ Top \in Frame
  BY LevelTypes, Popped DEF PayPlatform, Top
<1>2. f.before = Top.before
  BY <1>1 DEF Frame
<1> HIDE DEF f
<1>3. stack \in Seq(S) /\ f \in S
  BY <1>1
<1> HIDE DEF S
<1>4. /\ stack' \in Seq(S) /\ Len(stack') = Len(stack) /\ stack'[1] = f
      /\ \A i \in 2..Len(stack) : stack'[i] = stack[i]
  BY <1>1, <1>3, TopReplaced
<1>5. Len(stack) \in Nat /\ Len(stack) >= 1 /\ stack' # <<>>
  BY <1>1, <1>4
<1>6. stack'[Len(stack)].before = stack[Len(stack)].before
  BY <1>1, <1>2, <1>4, <1>5
<1> QED BY <1>1, <1>4, <1>5, <1>6 DEF Committed

\* A call without callbacks on an empty stack is a transaction of its own.
LEMMA WriteCommits ==
  ASSUME TypeOK, IInv, UNCHANGED stack, Grown(world, world')
  PROVE  Grown(Committed, Committed')
<1>1. Committed \in World
  BY CommittedLevel
<1>2. CASE stack = <<>>
  BY <1>2 DEF Committed
<1>3. CASE stack # <<>>
  <2>1. Committed' = Committed
    BY <1>3 DEF Committed
  <2> QED BY <1>1, <2>1, GrownSelf
<1> QED BY <1>2, <1>3

(***************************************************************************)
(* What is shown of every step: the invariant stays, and what is committed *)
(* only grows.                                                             *)
(***************************************************************************)
Preserved == TypeOK' /\ IInv' /\ Grown(Committed, Committed')

(***************************************************************************)
(* Entering a call: the new storage is sound, no count of claims shrank,   *)
(* and coins and debts of the sale moved together, up to the cut that a    *)
(* purchase still has to pay.                                              *)
(***************************************************************************)
LEMMA EnterStep ==
  ASSUME TypeOK, IInv,
         NEW call \in Call, NEW c \in Claims \cup {0}, NEW cut \in Nat, NEW w \in World,
         Enter(call, c, cut, w), Sound(w),
         call \in SaleCalls => ~InSale,
         Grown(world, w),
         w.sale.cash + world.sale.owed =
           world.sale.cash + w.sale.owed + (IF call = "purchase" THEN cut ELSE 0)
  PROVE  Preserved
<1> USE LevelTypes
<1> DEFINE f == [call |-> call, claim |-> c, cut |-> cut, before |-> world]
<1>1. f \in Frame /\ f.call = call /\ f.cut = cut /\ f.before = world
  BY DEF Frame, TypeOK
<1>2. stack' = <<f>> \o stack /\ world' = w /\ now' = now
  BY DEF Enter
<1> HIDE DEF f
<1>3. /\ stack' \in Seq(Frame) /\ Len(stack') = Len(stack) + 1 /\ stack'[1] = f
      /\ \A i \in 1..Len(stack) : stack'[i + 1] = stack[i]
      /\ \A i \in 2..Len(stack') : stack'[i] = stack[i - 1]
  BY <1>1, <1>2, Pushed
<1>4. TypeOK'
  BY <1>2, <1>3 DEF TypeOK
<1>5. DOMAIN stack' = 1..(Len(stack) + 1) /\ Levels' = 0..(Len(stack) + 1)
  BY <1>3 DEF Levels
<1>6. Level(0)' = w /\ \A i \in Levels : Level(i + 1)' = Level(i)
  BY <1>1, <1>2, <1>3 DEF Level, Levels
<1>7. \A i, j \in DOMAIN stack' :
        stack'[i].call \in SaleCalls /\ stack'[j].call \in SaleCalls => i = j
  <2>1. \A i, j \in DOMAIN stack :
          stack[i].call \in SaleCalls /\ stack[j].call \in SaleCalls => i = j
    BY DEF IInv
  <2>2. call \in SaleCalls => \A i \in DOMAIN stack : stack[i].call \notin SaleCalls
    BY DEF InSale, SaleCalls
  <2> SUFFICES ASSUME NEW i \in DOMAIN stack', NEW j \in DOMAIN stack',
                      stack'[i].call \in SaleCalls, stack'[j].call \in SaleCalls
               PROVE  i = j
    OBVIOUS
  <2>3. ASSUME NEW k \in DOMAIN stack', k # 1
        PROVE  k - 1 \in DOMAIN stack /\ stack'[k] = stack[k - 1]
    BY <1>3, <1>5, <2>3
  <2>4. CASE i = 1 \/ j = 1
    BY <1>1, <1>3, <1>5, <2>2, <2>3, <2>4
  <2>5. CASE i # 1 /\ j # 1
    <3>1. i - 1 = j - 1
      BY <2>1, <2>3, <2>5
    <3> QED BY <1>5, <3>1
  <2> QED BY <2>4, <2>5
<1>8. ASSUME NEW i \in Levels PROVE Balanced(i + 1)'
  <2>1. Balanced(i) /\ i \in Nat
    BY DEF IInv, Levels
  <2>2. Level(i + 1)' = Level(i)
    BY <1>6
  <2>3. \A j \in DOMAIN stack' : j > i + 1 =>
          j - 1 \in DOMAIN stack /\ j - 1 > i /\ stack'[j] = stack[j - 1]
    BY <1>3, <1>5, <2>1
  <2>4. \A j \in DOMAIN stack : j > i =>
          j + 1 \in DOMAIN stack' /\ j + 1 > i + 1 /\ stack'[j + 1] = stack[j]
    BY <1>3, <1>5, <2>1
  <2> QED BY <2>1, <2>2, <2>3, <2>4 DEF Balanced
<1>9. Balanced(0)'
  <2> DEFINE purchases == {j \in DOMAIN stack : j > 0 /\ stack[j].call = "purchase"}
  <2>0. /\ world.sale.cash \in Nat /\ world.sale.owed \in Nat
        /\ w.sale.cash \in Nat /\ w.sale.owed \in Nat
    BY DEF TypeOK, World, Sale
  <2>1. /\ purchases = {} => world.sale.cash = world.sale.owed
        /\ \A j \in purchases : world.sale.cash = world.sale.owed + stack[j].cut
    BY DEF IInv, Balanced
  <2>2. call = "purchase" => purchases = {}
    BY DEF InSale, SaleCalls
  <2>3. CASE call = "purchase"
    <3>0. /\ w.sale.cash + world.sale.owed = world.sale.cash + w.sale.owed + cut
          /\ world.sale.cash = world.sale.owed
      BY <2>1, <2>2, <2>3
    <3>1. w.sale.cash = w.sale.owed + cut
      BY ONLY <2>0, <3>0, cut \in Nat
    <3>2. ASSUME NEW j \in DOMAIN stack', stack'[j].call = "purchase"
          PROVE  stack'[j].cut = cut
      <4>1. ASSUME j # 1 PROVE j - 1 \in DOMAIN stack /\ j - 1 > 0 /\ stack'[j] = stack[j - 1]
        BY <1>3, <1>5, <4>1
      <4>2. j = 1
        BY <2>2, <2>3, <3>2, <4>1
      <4> QED BY <1>1, <1>3, <4>2
    <3>3. 1 \in DOMAIN stack' /\ stack'[1].call = "purchase"
      BY <1>1, <1>3, <1>5, <2>3
    <3> QED BY <1>6, <3>1, <3>2, <3>3 DEF Balanced
  <2>4. CASE call # "purchase"
    <3>1. w.sale.cash + world.sale.owed = world.sale.cash + w.sale.owed
      BY <2>0, <2>4
    <3>2. \A j \in DOMAIN stack' : stack'[j].call = "purchase" =>
            j - 1 \in purchases /\ stack'[j].cut = stack[j - 1].cut
      BY <1>1, <1>3, <1>5, <2>4
    <3>3. \A j \in purchases : j + 1 \in DOMAIN stack' /\ stack'[j + 1].call = "purchase"
      BY <1>3, <1>5
    <3>4. \A j \in purchases : stack[j].cut \in Nat
      BY DEF Frame
    <3> HIDE DEF purchases
    <3>5. purchases = {} => w.sale.cash = w.sale.owed
      BY <2>0, <2>1, <3>1
    <3>6. ASSUME NEW j \in purchases PROVE w.sale.cash = w.sale.owed + stack[j].cut
      <4>1. world.sale.cash = world.sale.owed + stack[j].cut /\ stack[j].cut \in Nat
        BY <2>1, <3>4
      <4> QED BY ONLY <2>0, <3>1, <4>1
    <3>7. \A j \in DOMAIN stack' : j > 0
      BY <1>5
    <3> QED BY <1>6, <3>2, <3>3, <3>5, <3>6, <3>7 DEF Balanced
  <2> QED BY <2>3, <2>4
<1>10. \A i \in Levels' : i = 0 \/ (i - 1 \in Levels /\ (i - 1) + 1 = i)
  BY <1>5 DEF Levels
<1>11. \A i \in Levels' : Balanced(i)' /\ Sound(Level(i)')
  <2>1. \A i \in Levels : Sound(Level(i))
    BY DEF IInv
  <2> QED BY <1>6, <1>8, <1>9, <1>10, <2>1
<1>12. \A i, j \in Levels' : i <= j => Grown(Level(j)', Level(i)')
  <2>1. \A i, j \in Levels : i <= j => Grown(Level(j), Level(i))
    BY DEF IInv
  <2> SUFFICES ASSUME NEW i \in Levels', NEW j \in Levels', i <= j PROVE Grown(Level(j)', Level(i)')
    OBVIOUS
  <2>4. CASE i = 0 /\ j = 0
    BY <1>6, <2>4, GrownSelf
  <2>5. CASE i = 0 /\ j # 0
    <3>1. j - 1 \in Levels /\ 0 <= j - 1
      BY <1>10, <2>5 DEF Levels
    <3>2. Grown(Level(j - 1), world) /\ Level(j - 1) \in World /\ world \in World
      BY <2>1, <3>1
    <3>3. Level(j)' = Level(j - 1) /\ Level(0)' = w
      BY <1>6, <1>10, <2>5
    <3> QED BY <2>5, <3>2, <3>3, GrownOn
  <2>6. CASE i # 0
    <3>1. i - 1 \in Levels /\ j - 1 \in Levels /\ i - 1 <= j - 1
      BY <1>5, <2>6 DEF Levels
    <3>2. Level(i)' = Level(i - 1) /\ Level(j)' = Level(j - 1)
      BY <1>6, <1>10, <3>1
    <3> QED BY <2>1, <3>1, <3>2
  <2> QED BY <2>4, <2>5, <2>6
<1>13. Grown(Committed, Committed')
  <2>1. Committed' = Committed
    BY EnterCommitsNothing
  <2>2. Committed \in World
    BY CommittedLevel
  <2> QED BY <2>1, <2>2, GrownSelf
<1> QED BY <1>4, <1>7, <1>11, <1>12, <1>13 DEF IInv, Preserved

\* The storage of level 0 alone changes, and only grows.
LEMMA LevelsGrow ==
  ASSUME TypeOK, IInv, NEW w \in World, Grown(world, w), Levels' = Levels,
         Level(0)' = w, \A i \in Levels \ {0} : Level(i)' = Level(i)
  PROVE  \A i, j \in Levels' : i <= j => Grown(Level(j)', Level(i)')
<1> SUFFICES ASSUME NEW i \in Levels, NEW j \in Levels, i <= j PROVE Grown(Level(j)', Level(i)')
  OBVIOUS
<1>0. Levels = 0..Len(stack) /\ Len(stack) \in Nat /\ 0 \in Levels /\ Level(0) = world
  BY LevelTypes DEF Levels
<1>1. Grown(Level(j), Level(i)) /\ Grown(Level(j), world)
  BY <1>0 DEF IInv
<1>2. CASE i = 0 /\ j = 0
  BY <1>2, GrownSelf
<1>3. CASE i = 0 /\ j # 0
  <2>1. Level(j) \in World /\ world \in World /\ Level(j)' = Level(j)
    BY <1>0, <1>3, LevelTypes
  <2> QED BY <1>1, <1>3, <2>1, GrownOn
<1>4. CASE i # 0
  <2>1. j # 0
    BY <1>0, <1>4
  <2> QED BY <1>1, <1>4, <2>1
<1> QED BY <1>2, <1>3, <1>4

(***************************************************************************)
(* A call that returns at once: it keeps the coins and the sale's debts.   *)
(***************************************************************************)
LEMMA WriteStep ==
  ASSUME TypeOK, IInv, NEW w \in World, world' = w, UNCHANGED stack, now' \in 0..MaxTime, Sound(w),
         w.sale.cash = world.sale.cash, w.sale.owed = world.sale.owed, Grown(world, w)
  PROVE  Preserved
<1>0. /\ stack' = stack /\ Levels' = Levels /\ DOMAIN stack' = DOMAIN stack /\ Len(stack) \in Nat
      /\ Levels = 0..Len(stack) /\ 0 \in Levels
  BY LevelTypes DEF Levels
<1>1. TypeOK'
  BY DEF TypeOK
<1>2. Level(0)' = w /\ Level(0) = world /\ \A i \in Levels \ {0} : Level(i)' = Level(i)
  BY <1>0 DEF Level
<1>3. \A i \in Levels : Level(i)'.sale.cash = Level(i).sale.cash /\ Level(i)'.sale.owed = Level(i).sale.owed
  BY <1>2
<1>4. \A i \in Levels : Balanced(i)'
  BY <1>0, <1>3 DEF IInv, Balanced
<1>5. \A i \in Levels : Sound(Level(i)')
  BY <1>2 DEF IInv
<1>6. \A i, j \in Levels' : i <= j => Grown(Level(j)', Level(i)')
  BY <1>0, <1>2, LevelsGrow
<1>7. Grown(Committed, Committed')
  BY <1>0, WriteCommits
<1> QED BY <1>0, <1>1, <1>4, <1>5, <1>6, <1>7 DEF IInv, Preserved

(***************************************************************************)
(* The innermost call ends, accepted or undone: level i is what level      *)
(* i + 1 was, except that an accepted call keeps the storage of level 0.   *)
(***************************************************************************)
LEMMA PopStep ==
  ASSUME TypeOK, IInv, stack # <<>>, Pop,
         \/ world' = Top.before
         \/ /\ world' = world
            /\ Top.call = "purchase" => Top.cut = 0
  PROVE  Preserved
<1>0. /\ Len(stack) \in Nat /\ DOMAIN stack = 1..Len(stack) /\ Levels = 0..Len(stack)
      /\ \A i \in DOMAIN stack : stack[i] \in Frame
      /\ \A i \in Levels : Level(i) \in World
      /\ Level(0) = world /\ stack \in Seq(Frame)
  BY LevelTypes DEF Levels
<1>1. /\ Top = stack[1] /\ Top \in Frame /\ Len(stack) >= 1
      /\ stack' \in Seq(Frame) /\ Len(stack') = Len(stack) - 1
      /\ \A i \in 1..Len(stack') : stack'[i] = stack[i + 1]
  BY <1>0, Popped DEF Pop, Top
<1>2. DOMAIN stack' = 1..(Len(stack) - 1) /\ Levels' = 0..(Len(stack) - 1) /\ now' = now
  BY <1>0, <1>1 DEF Levels, Pop
<1>3. Level(1) = Top.before /\ 1 \in Levels /\ 1 \in DOMAIN stack
  BY <1>0, <1>1 DEF Level
<1>4. TypeOK'
  <2>1. world \in World /\ Top.before \in World /\ now \in 0..MaxTime
    BY <1>1 DEF TypeOK, Frame
  <2> QED BY <1>1, <1>2, <2>1 DEF TypeOK
<1>5. \A i \in Levels' : i # 0 => Level(i)' = Level(i + 1)
  BY <1>0, <1>1, <1>2 DEF Level
<1>6. Level(0)' = world'
  BY DEF Level
<1>7. \A j \in DOMAIN stack' : j + 1 \in DOMAIN stack /\ stack'[j] = stack[j + 1]
  BY <1>0, <1>1, <1>2
<1>8. \A j \in DOMAIN stack : j > 1 => j - 1 \in DOMAIN stack' /\ stack'[j - 1] = stack[j]
  BY <1>0, <1>1, <1>2
<1>9. \A i, j \in DOMAIN stack : stack[i].call \in SaleCalls /\ stack[j].call \in SaleCalls => i = j
  BY DEF IInv
<1>10. \A i, j \in DOMAIN stack' :
         stack'[i].call \in SaleCalls /\ stack'[j].call \in SaleCalls => i = j
  <2> SUFFICES ASSUME NEW i \in DOMAIN stack', NEW j \in DOMAIN stack',
                      stack'[i].call \in SaleCalls, stack'[j].call \in SaleCalls
               PROVE  i = j
    OBVIOUS
  <2>1. i + 1 = j + 1
    BY <1>7, <1>9
  <2> QED BY <1>2, <2>1
\* A level that is now level i and was level i + 1 is balanced as before.
<1>11. ASSUME NEW i \in Levels', Level(i)' = Level(i + 1) PROVE Balanced(i)'
  <2>1. Balanced(i + 1) /\ i \in Nat
    BY <1>0, <1>2 DEF IInv
  <2>2. \A j \in DOMAIN stack' : j > i => j + 1 > i + 1
    BY <1>2, <2>1
  <2>3. \A j \in DOMAIN stack : j > i + 1 => j > 1 /\ j - 1 > i
    BY <1>0, <2>1
  <2> QED BY <1>7, <1>8, <1>11, <2>1, <2>2, <2>3 DEF Balanced
<1>12. Balanced(0)'
  <2>1. CASE world' = Top.before
    BY <1>2, <1>1, <1>3, <1>6, <1>11, <2>1
  <2>2. CASE world' = world /\ (Top.call = "purchase" => Top.cut = 0)
    <3>1. Balanced(0) /\ Level(0)' = Level(0)
      BY <1>0, <1>6, <2>2 DEF IInv
    <3>2. \A j \in DOMAIN stack : j > 0
      BY <1>0
    <3>3. \A j \in DOMAIN stack' : j > 0 /\ j + 1 > 1
      BY <1>2
    <3>4. world.sale.owed \in Nat
      BY DEF TypeOK, World, Sale
    <3>5. CASE Top.call = "purchase"
      <4>1. world.sale.cash = world.sale.owed
        <5>1. Level(0).sale.cash = Level(0).sale.owed + stack[1].cut
          BY <1>1, <1>3, <3>1, <3>2, <3>5 DEF Balanced
        <5>2. stack[1].cut = 0
          BY <1>1, <2>2, <3>5
        <5> QED BY <1>0, <3>4, <5>1, <5>2
      <4>2. \A j \in DOMAIN stack' : stack'[j].call # "purchase"
        <5>1. stack[1].call = "purchase" /\ "purchase" \in SaleCalls
          BY <1>1, <3>5 DEF SaleCalls
        <5>2. ASSUME NEW j \in DOMAIN stack', stack'[j].call = "purchase" PROVE j + 1 = 1
          BY <1>3, <1>7, <1>9, <5>1, <5>2
        <5> QED BY <3>3, <5>2
      <4> QED BY <1>0, <3>1, <4>1, <4>2 DEF Balanced
    <3>6. CASE Top.call # "purchase"
      <4>1. \A j \in DOMAIN stack : stack[j].call = "purchase" => j > 1
        BY <1>0, <1>1, <3>6
      <4> QED BY <1>7, <1>8, <3>1, <3>2, <3>3, <4>1 DEF Balanced
    <3> QED BY <3>5, <3>6
  <2> QED BY <2>1, <2>2
<1>13. \A i \in Levels' : Balanced(i)' /\ Sound(Level(i)')
  <2>1. \A i \in Levels : Sound(Level(i))
    BY DEF IInv
  <2>2. Sound(Level(0)')
    BY <1>0, <1>3, <1>6, <2>1
  <2>3. ASSUME NEW i \in Levels', i # 0 PROVE Balanced(i)' /\ Sound(Level(i)')
    <3>1. i + 1 \in Levels
      BY <1>0, <1>2
    <3> QED BY <1>5, <1>11, <2>1, <2>3, <3>1
  <2> QED BY <1>12, <2>2, <2>3
<1>14. \A i, j \in Levels' : i <= j => Grown(Level(j)', Level(i)')
  <2> DEFINE k == IF world' = world THEN 0 ELSE 1
  <2>1. \A i, j \in Levels : i <= j => Grown(Level(j), Level(i))
    BY DEF IInv
  <2>2. k \in {0, 1} /\ k \in Levels /\ Level(0)' = Level(k)
    BY <1>0, <1>3, <1>6
  <2> HIDE DEF k
  <2> SUFFICES ASSUME NEW i \in Levels', NEW j \in Levels', i <= j PROVE Grown(Level(j)', Level(i)')
    OBVIOUS
  <2>3. CASE i = 0 /\ j = 0
    BY <1>0, <2>2, <2>3, GrownSelf
  <2>4. CASE i = 0 /\ j # 0
    <3>1. j + 1 \in Levels /\ k <= j + 1
      BY <1>0, <1>2, <2>2, <2>4
    <3> QED BY <1>5, <2>1, <2>2, <2>4, <3>1
  <2>5. CASE i # 0
    <3>1. i + 1 \in Levels /\ j + 1 \in Levels /\ i + 1 <= j + 1 /\ j # 0
      BY <1>0, <1>2, <2>5
    <3> QED BY <1>5, <2>1, <2>5, <3>1
  <2> QED BY <2>3, <2>4, <2>5
<1>15. Grown(Committed, Committed')
  BY ReturnCommits
<1> QED BY <1>4, <1>10, <1>13, <1>14, <1>15 DEF IInv, Preserved

(***************************************************************************)
(* A world with the same claims, or the same but for windows, pauses and   *)
(* early access, is sound if its sale respects its cap and every further   *)
(* copy sold was minted.                                                   *)
(***************************************************************************)
LEMMA SoundLike ==
  ASSUME NEW v \in World, Sound(v), NEW w \in World, NEW n \in Nat, NEW m \in Nat,
         w.sale.sold = v.sale.sold + n, w.edition.minted = v.edition.minted + n + m,
         CapKept(w), Books(w),
         \A c \in Claims :
           /\ w.claims[c].kind = v.claims[c].kind /\ w.claims[c].terms = v.claims[c].terms
           /\ w.claims[c].allocation = v.claims[c].allocation
           /\ w.claims[c].baseline = v.claims[c].baseline
           /\ w.claims[c].supply = v.claims[c].supply
           /\ w.claims[c].prior = v.claims[c].prior /\ w.claims[c].claimed = v.claims[c].claimed
  PROVE  Sound(w)
<1>1. \A c \in Claims : v.claims[c].supply \in Nat /\ v.claims[c].baseline \in Nat
  BY DEF World, ClaimContract
<1>2. v.sale.sold \in Nat /\ v.edition.minted \in Nat
  BY DEF World, Sale, Edition
<1>3. CountsSound(w)
  BY <1>1, <1>2 DEF Sound, CountsSound, HasMinted
<1>4. \A d \in Claims : LockedIn(v, d) => LockedIn(w, d)
  BY <1>1, <1>2 DEF LockedIn
<1>5. OthersYield(w)
  BY <1>4 DEF Sound, OthersYield, HasMinted
<1>6. FreeOnceIn(w) /\ HolderFits(w)
  BY DEF Sound, FreeOnceIn, HolderFits
<1> QED BY <1>3, <1>5, <1>6 DEF Sound

(***************************************************************************)
(* The copies were delivered and the platform is paid its cut.             *)
(***************************************************************************)
LEMMA PayPlatformStep ==
  ASSUME TypeOK, IInv, PayPlatform
  PROVE  Preserved
<1>0. /\ Len(stack) \in Nat /\ DOMAIN stack = 1..Len(stack) /\ Levels = 0..Len(stack)
      /\ \A i \in DOMAIN stack : stack[i] \in Frame
      /\ Level(0) = world /\ stack \in Seq(Frame) /\ now \in 0..MaxTime /\ world \in World
  BY LevelTypes DEF Levels, TypeOK
<1>1. /\ Top = stack[1] /\ Top \in Frame /\ Len(stack) >= 1 /\ Top.call = "purchase"
      /\ Top.cut \in Nat /\ 1 \in DOMAIN stack
  BY <1>0, Popped DEF PayPlatform, Top, Frame
<1> DEFINE f == [Top EXCEPT !.call = "platform"]
<1>2. f \in Frame /\ f.call = "platform" /\ f.before = Top.before
  BY <1>1 DEF Frame, Call
<1>3. stack' = <<f>> \o Tail(stack) /\ now' = now /\ stack # <<>>
  BY DEF PayPlatform
<1> HIDE DEF f
<1>4. /\ stack' \in Seq(Frame) /\ Len(stack') = Len(stack) /\ stack'[1] = f
      /\ \A i \in 2..Len(stack) : stack'[i] = stack[i]
  BY <1>0, <1>2, <1>3, TopReplaced
<1>5. DOMAIN stack' = DOMAIN stack /\ Levels' = Levels
  BY <1>0, <1>4 DEF Levels
<1>6. world.sale \in Sale /\ world.sale.cash = world.sale.owed + Top.cut
  BY <1>0, <1>1 DEF IInv, Balanced, World
<1>7. /\ PlatformPaid(world.sale, Top.cut) \in Sale
      /\ PlatformPaid(world.sale, Top.cut).cash = PlatformPaid(world.sale, Top.cut).owed
      /\ PlatformPaid(world.sale, Top.cut).sold = world.sale.sold
      /\ PlatformPaid(world.sale, Top.cut).terms = world.sale.terms
      /\ PlatformPaid(world.sale, Top.cut).bought = world.sale.bought
  <2>1. world.sale.owed \in Nat /\ world.sale.cash - Top.cut = world.sale.owed
    BY <1>1, <1>6 DEF Sale
  <2> QED BY <1>6, <2>1 DEF PlatformPaid, Sale
<1>8. /\ world' = [world EXCEPT !.sale = PlatformPaid(world.sale, Top.cut)]
      /\ world' \in World /\ world'.claims = world.claims /\ world'.edition = world.edition
      /\ world'.sale = PlatformPaid(world.sale, Top.cut) /\ world'.direct = world.direct
  BY <1>0, <1>7 DEF PayPlatform, World
<1>9. TypeOK'
  BY <1>0, <1>3, <1>4, <1>8 DEF TypeOK
<1>10. Level(0)' = world' /\ \A i \in Levels \ {0} : Level(i)' = Level(i)
  <2>1. \A i \in DOMAIN stack : stack'[i].before = stack[i].before
    BY <1>0, <1>1, <1>2, <1>4
  <2> QED BY <1>0, <2>1 DEF Level
<1>11. \A j \in DOMAIN stack : stack[j].call \in SaleCalls => j = 1
  BY <1>1 DEF IInv, SaleCalls
<1>12. \A j \in DOMAIN stack' :
         /\ stack'[j].call \in SaleCalls => j = 1
         /\ stack'[j].call # "purchase"
  BY <1>0, <1>2, <1>4, <1>5, <1>11 DEF SaleCalls
<1>13. Sound(world') /\ Grown(world, world')
  <2>1. Sound(world)
    BY <1>0 DEF IInv
  <2>2. CapKept(world')
    BY <1>7, <1>8, <2>1 DEF Sound, CapKept
  <2>3. /\ world.sale.sold \in Nat /\ world.edition.minted \in Nat
        /\ world'.sale.sold = world.sale.sold + 0 /\ world'.edition.minted = world.edition.minted + 0 + 0
    <3>1. world.sale.sold \in Nat /\ world.edition.minted \in Nat
      BY <1>0, CountsTyped
    <3>2. world'.sale.sold = world.sale.sold /\ world'.edition.minted = world.edition.minted
      BY <1>7, <1>8
    <3> QED BY <3>1, <3>2
  <2>4. Books(world') /\ Grown(world, world')
    BY <1>0, <1>7, <1>8, <2>1, SameBooks
  <2> QED BY <1>0, <1>8, <2>1, <2>2, <2>3, <2>4, SoundLike
<1>14. ASSUME NEW i \in Levels PROVE Balanced(i)' /\ Sound(Level(i)')
  <2>1. CASE i = 0
    BY <1>7, <1>8, <1>10, <1>12, <1>13, <2>1 DEF Balanced
  <2>2. CASE i # 0
    <3>1. Balanced(i) /\ Sound(Level(i)) /\ Level(i)' = Level(i)
      BY <1>10, <2>2 DEF IInv
    <3>2. \A j \in DOMAIN stack : j > i => stack[j].call # "purchase"
      BY <1>0, <1>11, <2>2 DEF SaleCalls
    <3> QED BY <1>5, <1>12, <3>1, <3>2 DEF Balanced
  <2> QED BY <2>1, <2>2
<1>15. \A i, j \in Levels' : i <= j => Grown(Level(j)', Level(i)')
  BY <1>5, <1>8, <1>10, <1>13, LevelsGrow
<1>16. Grown(Committed, Committed')
  <2>1. Committed' = Committed
    BY PlatformCommitsNothing
  <2>2. Committed \in World
    BY CommittedLevel
  <2> QED BY <2>1, <2>2, GrownSelf
<1> QED BY <1>5, <1>9, <1>12, <1>14, <1>15, <1>16 DEF IInv, Preserved

(***************************************************************************)
(* Contract e mints one copy while its accounting holds: every other       *)
(* contract is locked from then on.                                        *)
(***************************************************************************)
LEMMA MintKeepsCounts ==
  ASSUME NEW v \in World, Sound(v), NEW w \in World, NEW e \in Claims,
         v.edition.minted = v.sale.sold + v.claims[e].supply,
         v.claims[e].kind # "none",
         v.claims[e].kind = "holder" /\ v.claims[e].allocation # 0 =>
           v.claims[e].supply < v.claims[e].allocation,
         w.sale = v.sale, w.edition.minted = v.edition.minted + 1,
         \A c \in Claims \ {e} : w.claims[c] = v.claims[c],
         w.claims[e].supply = v.claims[e].supply + 1,
         w.claims[e].kind = v.claims[e].kind, w.claims[e].terms = v.claims[e].terms,
         w.claims[e].allocation = v.claims[e].allocation,
         w.claims[e].baseline = v.claims[e].baseline, w.claims[e].prior = v.claims[e].prior
  PROVE  CountsSound(w) /\ OthersYield(w) /\ HolderFits(w) /\ CapKept(w)
<1>1. /\ v.sale.sold \in Nat /\ v.edition.minted \in Nat
      /\ \A c \in Claims : v.claims[c].supply \in Nat /\ v.claims[c].baseline \in Nat
                           /\ v.claims[c].allocation \in Nat
  BY DEF World, Sale, Edition, ClaimContract
<1>2. CountsSound(w)
  <2> SUFFICES ASSUME NEW c \in Claims
               PROVE  LET k == w.claims[c]
                      IN  /\ k.kind = "none" => /\ k.supply = 0 /\ k.claimed = {}
                                                /\ \A d \in Claims : d > c => w.claims[d].kind = "none"
                          /\ k.baseline <= k.supply
                          /\ w.sale.sold + k.supply <= w.edition.minted
                          /\ k.claimed # {} => HasMinted(k)
    BY DEF CountsSound
  <2>1. CASE c = e
    BY <1>1, <2>1 DEF Sound, CountsSound, HasMinted
  <2>2. CASE c # e
    <3>1. w.claims[c] = v.claims[c]
      BY <2>2
    <3>2. \A d \in Claims : w.claims[d].kind = v.claims[d].kind
      OBVIOUS
    <3> QED BY <1>1, <3>1, <3>2 DEF Sound, CountsSound, HasMinted
  <2> QED BY <2>1, <2>2
\* Whoever is not e counted at most the copies not sold, and one more exists now.
<1>3. \A d \in Claims \ {e} : LockedIn(w, d)
  BY <1>1 DEF Sound, CountsSound, LockedIn
<1>4. ~LockedIn(v, e)
  BY <1>1 DEF LockedIn
<1>5. OthersYield(w)
  <2> SUFFICES ASSUME NEW c \in Claims, c # e, w.claims[e].kind # "none", HasMinted(w.claims[c])
               PROVE  /\ c < e
                      /\ \/ w.claims[c].claimed \subseteq w.claims[e].prior
                         \/ w.claims[e].kind = "weekend"
    BY <1>3 DEF OthersYield
  <2>1. w.claims[c] = v.claims[c]
    OBVIOUS
  <2> QED BY <1>4, <2>1 DEF Sound, OthersYield
<1>6. HolderFits(w)
  BY <1>1 DEF Sound, HolderFits
<1>7. CapKept(w)
  BY DEF Sound, CapKept
<1> QED BY <1>2, <1>5, <1>6, <1>7

(***************************************************************************)
(* A claim by account a: the contracts deployed before know a, or are      *)
(* locked, or never minted.                                                *)
(***************************************************************************)
LEMMA ClaimantIsNew ==
  ASSUME TypeOK, Sound(world), NEW c \in Claims, NEW a \in Accounts, Open(c), MayClaim(c, a)
  PROVE  \A d \in Claims : a \notin world.claims[d].claimed
<1> DEFINE k == world.claims[c]
<1>1. /\ k \in ClaimContract /\ world \in World /\ world.claims \in [Claims -> ClaimContract]
      /\ k.kind # "none"
  BY DEF TypeOK, World, Open, Deployed
<1>2. Accounted(c)
  BY DEF MayClaim, AsScheduled
<1>3. ASSUME NEW d \in Claims, d # c PROVE a \notin world.claims[d].claimed
  <2>1. world.claims[d].claimed # {} => HasMinted(world.claims[d])
    BY <1>1 DEF Sound, CountsSound
  <2>2. ~LockedIn(world, c)
    <3>1. world.edition.minted \in Nat
      BY <1>1 DEF World, Edition
    <3> QED BY <1>2, <3>1 DEF Accounted, LockedIn
  <2>3. HasMinted(world.claims[d]) =>
          d < c /\ (world.claims[d].claimed \subseteq k.prior \/ k.kind = "weekend")
    BY <1>1, <1>3, <2>2 DEF Sound, OthersYield
  <2>4. a \notin k.prior
    BY DEF MayClaim, HasClaimed
  <2>5. k.kind = "weekend" /\ d < c => a \notin world.claims[d].claimed
    <3>1. d < c => d \in 1..(c - 1)
      BY DEF Claims
    <3> QED BY <3>1 DEF MayClaim, HasClaimed
  <2> QED BY <2>1, <2>3, <2>4, <2>5
<1>4. a \notin world.claims[c].claimed
  BY DEF MayClaim, HasClaimed
<1> QED BY <1>3, <1>4

LEMMA ClaimSound ==
  ASSUME TypeOK, Sound(world), NEW c \in Claims, NEW a \in Accounts, Open(c), MayClaim(c, a),
         NEW w \in World, Books(w),
         w.sale = world.sale, w.edition.minted = world.edition.minted + 1,
         \A d \in Claims \ {c} : w.claims[d] = world.claims[d],
         w.claims[c] = [world.claims[c] EXCEPT !.claimed = @ \cup {a}, !.supply = @ + 1]
  PROVE  Sound(w)
<1> DEFINE k == world.claims[c]
<1>1. /\ k \in ClaimContract /\ world \in World /\ world.claims \in [Claims -> ClaimContract]
      /\ k.kind # "none"
  BY DEF TypeOK, World, Open, Deployed
<1>2. Accounted(c) /\ (k.kind # "weekend" => AllocationLeft(c))
  BY DEF MayClaim, AsScheduled
<1>3. /\ w.claims[c].supply = k.supply + 1 /\ w.claims[c].claimed = k.claimed \cup {a}
      /\ w.claims[c].kind = k.kind /\ w.claims[c].terms = k.terms
      /\ w.claims[c].allocation = k.allocation /\ w.claims[c].baseline = k.baseline
      /\ w.claims[c].prior = k.prior
  BY <1>1 DEF ClaimContract
<1>4. CountsSound(w) /\ OthersYield(w) /\ HolderFits(w) /\ CapKept(w)
  BY <1>1, <1>2, <1>3, MintKeepsCounts DEF Accounted, AllocationLeft
<1>5. \A d \in Claims : a \notin world.claims[d].claimed
  BY ClaimantIsNew
<1>6. FreeOnceIn(w)
  <2> SUFFICES ASSUME NEW d \in Claims, NEW e \in Claims, d # e
               PROVE  w.claims[d].claimed \cap w.claims[e].claimed = {}
    BY DEF FreeOnceIn
  <2>1. world.claims[d].claimed \cap world.claims[e].claimed = {}
    BY DEF Sound, FreeOnceIn
  <2>2. CASE d = c
    BY <1>3, <1>5, <2>1, <2>2
  <2>3. CASE e = c
    BY <1>3, <1>5, <2>1, <2>3
  <2>4. CASE d # c /\ e # c
    BY <2>1, <2>4
  <2> QED BY <2>2, <2>3, <2>4
<1> QED BY <1>4, <1>6 DEF Sound

(***************************************************************************)
(* A new claim contract: it has minted nothing yet, and whoever minted     *)
(* before has claimants that it lists or will ask about.                   *)
(***************************************************************************)
LEMMA DeploySound ==
  ASSUME TypeOK, Sound(world), NEW c \in Claims, NextClaim(c),
         NEW contract \in ClaimContract, contract.kind # "none",
         contract.claimed = {}, contract.supply = contract.baseline, contract.early = NoEarly,
         world.edition.minted = world.sale.sold + contract.supply,
         \/ contract.kind = "weekend"
         \/ \A d \in Claims : HasMinted(world.claims[d]) =>
              world.claims[d].claimed \subseteq contract.prior,
         EditionCap # 0 /\ contract.kind = "holder" =>
           /\ contract.allocation # 0 /\ contract.supply <= contract.allocation
           /\ contract.terms.max + contract.allocation <= EditionCap,
         NEW w, w = [world EXCEPT !.claims[c] = contract]
  PROVE  w \in World /\ Sound(w) /\ Grown(world, w)
<1>1. /\ world \in World /\ world.claims \in [Claims -> ClaimContract]
      /\ world.claims[c].kind = "none" /\ \A d \in 1..(c - 1) : world.claims[d].kind # "none"
  BY DEF TypeOK, World, NextClaim, Deployed
<1>2. /\ w \in World /\ w.sale = world.sale /\ w.edition = world.edition
      /\ w.claims[c] = contract /\ \A d \in Claims \ {c} : w.claims[d] = world.claims[d]
  BY <1>1 DEF World
<1>3. /\ world.sale.sold \in Nat /\ world.edition.minted \in Nat
      /\ \A d \in Claims : w.claims[d].supply \in Nat /\ w.claims[d].baseline \in Nat
  BY <1>1, <1>2 DEF World, Sale, Edition, ClaimContract
<1>4. \A d \in Claims : d > c => world.claims[d].kind = "none"
  BY <1>1 DEF Sound, CountsSound
<1>5. \A d \in Claims : d < c => d \in 1..(c - 1)
  BY DEF Claims
<1>6. CountsSound(w)
  <2> SUFFICES ASSUME NEW d \in Claims
               PROVE  LET k == w.claims[d]
                      IN  /\ k.kind = "none" => /\ k.supply = 0 /\ k.claimed = {}
                                                /\ \A e \in Claims : e > d => w.claims[e].kind = "none"
                          /\ k.baseline <= k.supply
                          /\ w.sale.sold + k.supply <= w.edition.minted
                          /\ k.claimed # {} => HasMinted(k)
    BY DEF CountsSound
  <2>1. CASE d = c
    BY <1>2, <1>3, <2>1
  <2>2. CASE d # c
    <3>1. w.claims[d] = world.claims[d]
      BY <1>2, <2>2
    <3>2. world.claims[d].kind = "none" => d > c
      BY <1>1, <1>5, <2>2 DEF Claims
    <3>3. \A e \in Claims : e > c => w.claims[e].kind = "none"
      BY <1>2, <1>4 DEF Claims
    <3>4. d > c => \A e \in Claims : e > d => e > c
      BY DEF Claims
    <3> QED BY <1>2, <3>1, <3>2, <3>3, <3>4 DEF Sound, CountsSound
  <2> QED BY <2>1, <2>2
<1>7. \A d \in Claims : LockedIn(world, d) /\ d # c => LockedIn(w, d)
  BY <1>2 DEF LockedIn
<1>8. OthersYield(w)
  <2> SUFFICES ASSUME NEW d \in Claims, NEW e \in Claims, d # e,
                      w.claims[e].kind # "none", HasMinted(w.claims[d])
               PROVE  \/ LockedIn(w, e)
                      \/ /\ d < e
                         /\ \/ w.claims[d].claimed \subseteq w.claims[e].prior
                            \/ w.claims[e].kind = "weekend"
    BY DEF OthersYield
  <2>1. d # c
    BY <1>2, <1>3 DEF HasMinted
  <2>2. w.claims[d] = world.claims[d]
    BY <1>2, <2>1
  <2>3. CASE e = c
    <3>1. world.claims[d].supply # 0
      BY <1>3, <2>2 DEF HasMinted
    <3>2. world.claims[d].kind # "none"
      BY <3>1 DEF Sound, CountsSound
    <3>3. d < c
      BY <1>4, <2>1, <3>2 DEF Claims
    <3> QED BY <1>2, <2>2, <2>3, <3>3
  <2>4. CASE e # c
    BY <1>2, <1>7, <2>2, <2>4 DEF Sound, OthersYield
  <2> QED BY <2>3, <2>4
<1>9. FreeOnceIn(w)
  BY <1>2 DEF Sound, FreeOnceIn
<1>10. HolderFits(w)
  BY <1>2 DEF Sound, HolderFits
<1>11. CapKept(w)
  BY <1>2 DEF Sound, CapKept
<1>12. Books(w) /\ Grown(world, w)
  <2>1. Books(world) /\ w.direct = world.direct
    BY <1>1, <1>2 DEF Sound, World
  <2>2. /\ world.claims[c].supply = 0 /\ world.claims[c].claimed = {} /\ world.claims[c].baseline = 0
        /\ ~world.claims[c].early.done
    <3>1. world.claims[c].baseline <= world.claims[c].supply /\ world.claims[c].baseline \in Nat
      BY <1>1, CountsTyped DEF Sound, CountsSound
    <3>2. world.claims[c].supply = 0 /\ world.claims[c].claimed = {}
      BY <1>1 DEF Sound, CountsSound
    <3>3. ~world.claims[c].early.done
      BY <1>1, <2>1 DEF Books
    <3> QED BY <3>1, <3>2, <3>3
  <2>3. contract.supply - contract.baseline = 0 /\ contract.supply \in Nat
    BY DEF ClaimContract
  <2>4. ~contract.early.done /\ ~contract.early.enabled
    BY DEF NoEarly
  <2>5. \A d \in Claims \ {c} :
           /\ w.claims[d].kind = "none" => ~w.claims[d].early.done
           /\ w.claims[d].early.enabled => w.claims[d].early.wallet \in Accounts
           /\ world.claims[d].supply \in Nat
    BY <1>1, <1>2, <2>1, CountsTyped DEF Books
  <2>6. \A d \in Claims :
           /\ w.claims[d].kind = "none" => ~w.claims[d].early.done
           /\ w.claims[d].early.done = world.claims[d].early.done
           /\ w.claims[d].early.enabled => w.claims[d].early.wallet \in Accounts
           /\ w.claims[d].supply - w.claims[d].baseline = world.claims[d].supply - world.claims[d].baseline
           /\ world.claims[d].supply <= w.claims[d].supply
           /\ w.claims[d].claimed = world.claims[d].claimed
    <3> SUFFICES ASSUME NEW d \in Claims
                 PROVE  /\ w.claims[d].kind = "none" => ~w.claims[d].early.done
                        /\ w.claims[d].early.done = world.claims[d].early.done
                        /\ w.claims[d].early.enabled => w.claims[d].early.wallet \in Accounts
                        /\ w.claims[d].supply - w.claims[d].baseline = world.claims[d].supply - world.claims[d].baseline
                        /\ world.claims[d].supply <= w.claims[d].supply
                        /\ w.claims[d].claimed = world.claims[d].claimed
      OBVIOUS
    <3>1. CASE d = c
      <4>1. world.claims[c].early.done \in BOOLEAN
        BY <1>1, CountsTyped DEF Early
      <4>2. world.claims[c].early.done = FALSE
        BY <2>2, <4>1, Zenon
      <4>3. contract.early.done = FALSE /\ contract.early.enabled = FALSE
        BY DEF NoEarly
      <4> HIDE DEF NoEarly
      <4>4. w.claims[c].early.done = world.claims[c].early.done
        BY <1>2, <4>2, <4>3
      <4>5. w.claims[c].supply - w.claims[c].baseline = world.claims[c].supply - world.claims[c].baseline
            /\ world.claims[c].supply <= w.claims[c].supply
        BY <1>2, <2>2, <2>3
      <4>6. w.claims[c].claimed = world.claims[c].claimed /\ ~w.claims[c].early.done /\ ~w.claims[c].early.enabled
        BY <1>2, <2>2, <4>3
      <4> QED BY <3>1, <4>4, <4>5, <4>6
    <3>2. CASE d # c
      BY <1>2, <2>5, <3>2
    <3> QED BY <3>1, <3>2
  <2> HIDE <2>2, <2>3, <2>4, <2>5
  <2> QED BY <1>1, <1>2, <2>1, <2>6, BooksLike
<1> QED BY <1>2, <1>6, <1>8, <1>9, <1>10, <1>11, <1>12 DEF Sound

(***************************************************************************)
(* The three constructors.                                                 *)
(***************************************************************************)
LEMMA NotDeployedType == NotDeployed \in ClaimContract /\ NoTerms \in Terms
BY DEF NotDeployed, ClaimContract, NoTerms, Terms, NoEarly, Early

LEMMA DeployHolderStep ==
  ASSUME TypeOK, IInv, NEW c \in Claims, NEW allocation \in Allocations, DeployHolder(c, allocation)
  PROVE  Preserved
<1> USE LaunchAssumption
<1> DEFINE sale == world.sale.terms
           contract == [NotDeployed EXCEPT !.kind = "holder", !.active = TRUE, !.terms = sale,
                                           !.opens = sale.start, !.closes = sale.start + ClaimWindow,
                                           !.allocation = allocation]
           w == [world EXCEPT !.claims[c] = contract]
<1>1. /\ EditionCap # 0 => allocation \in 1..EditionCap /\ sale.max <= EditionCap - allocation
      /\ world.edition.minted = world.sale.sold
      /\ stack = <<>> /\ NextClaim(c) /\ world' = w /\ UNCHANGED <<stack, now>>
  BY DEF DeployHolder, Deploy, Write
<1>2. sale \in Terms /\ allocation \in Nat /\ world.sale.sold \in Nat
  BY DEF TypeOK, World, Sale
<1>3. sale.max \in Nat /\ sale.start \in Nat /\ sale.start + ClaimWindow \in Nat
  BY <1>2 DEF Terms
<1>4. /\ contract \in ClaimContract /\ contract.kind = "holder" /\ contract.claimed = {}
      /\ contract.supply = 0 /\ contract.baseline = 0 /\ contract.terms = sale
      /\ contract.allocation = allocation /\ contract.early = NoEarly
  BY <1>2, <1>3, NotDeployedType DEF NotDeployed, ClaimContract
<1> HIDE DEF contract
<1>5. Sound(world)
  <2>1. 0 \in Levels /\ Level(0) = world
    BY LevelTypes
  <2> QED BY <2>1 DEF IInv
<1>6. \A d \in Claims : ~HasMinted(world.claims[d])
  <2>1. world \in World
    BY DEF TypeOK
  <2>2. \A d \in Claims : world.claims[d].supply \in Nat /\ world.claims[d].baseline \in Nat
    BY <2>1, CountsTyped
  <2>3. \A d \in Claims : world.sale.sold + world.claims[d].supply <= world.edition.minted
    BY <1>5 DEF Sound, CountsSound
  <2>4. \A d \in Claims : world.claims[d].supply = 0
    BY ONLY <1>1, <1>2, <2>2, <2>3
  <2> QED BY <2>2, <2>4 DEF HasMinted
<1>7. EditionCap # 0 => allocation # 0 /\ 0 <= allocation /\ sale.max + allocation <= EditionCap
  <2>1. EditionCap \in Nat
    OBVIOUS
  <2> QED BY ONLY <1>1, <1>2, <1>3, <2>1
<1>8. w \in World /\ Sound(w) /\ Grown(world, w)
  <2>1. world.edition.minted = world.sale.sold + contract.supply
    BY <1>1, <1>2, <1>4
  <2> QED BY <1>1, <1>4, <1>5, <1>6, <1>7, <2>1, DeploySound
<1>9. w.sale = world.sale
  BY DEF TypeOK, World
<1>10. now' \in 0..MaxTime
  BY <1>1 DEF TypeOK
<1> HIDE DEF w
<1> QED BY <1>1, <1>8, <1>9, <1>10, WriteStep

LEMMA DeployRecoveryStep ==
  ASSUME TypeOK, IInv, NEW c \in Claims, NEW allocation \in Allocations, NEW delay \in Delays,
         NEW prior \in SUBSET Accounts, DeployRecovery(c, allocation, delay, prior)
  PROVE  Preserved
<1> USE LaunchAssumption
<1> DEFINE sale == world.sale.terms
           n == Cardinality(prior)
           contract == [NotDeployed EXCEPT !.kind = "recovery", !.active = TRUE, !.terms = sale,
                                      !.opens = now + delay, !.closes = now + delay + ClaimWindow,
                                      !.allocation = allocation, !.baseline = n,
                                      !.supply = n, !.prior = prior]
           w == [world EXCEPT !.claims[c] = contract]
<1>1. /\ world.edition.minted = world.sale.sold + n
      /\ \A d \in Claims, a \in Accounts : HasClaimed(d, a) => a \in prior
      /\ NextClaim(c) /\ world' = w /\ UNCHANGED <<stack, now>> /\ stack = <<>>
  BY DEF DeployRecovery, Deploy, Write
<1>2. n \in Nat
  BY FS_Subset, FS_CardinalityType
<1>3. sale \in Terms /\ allocation \in Nat /\ now + delay \in Nat /\ now + delay + ClaimWindow \in Nat
  BY DEF TypeOK, World, Sale
<1> HIDE DEF n
<1>4. /\ contract \in ClaimContract /\ contract.kind = "recovery" /\ contract.claimed = {}
      /\ contract.supply = n /\ contract.baseline = n /\ contract.prior = prior /\ contract.early = NoEarly
  BY <1>2, <1>3, NotDeployedType DEF NotDeployed, ClaimContract
<1> HIDE DEF contract
<1>5. Sound(world)
  BY LevelTypes DEF IInv
<1>6. \A d \in Claims : world.claims[d].claimed \subseteq contract.prior
  <2>1. \A d \in Claims : world.claims[d].claimed \subseteq Accounts
    BY DEF TypeOK, World, ClaimContract
  <2> QED BY <1>1, <1>4, <2>1 DEF HasClaimed
<1>7. w \in World /\ Sound(w) /\ Grown(world, w)
  BY <1>1, <1>4, <1>5, <1>6, DeploySound
<1>8. w.sale = world.sale
  BY DEF TypeOK, World
<1>9. now' \in 0..MaxTime
  BY <1>1 DEF TypeOK
<1> HIDE DEF w
<1> QED BY <1>1, <1>7, <1>8, <1>9, WriteStep

LEMMA DeployWeekendStep ==
  ASSUME TypeOK, IInv, NEW c \in Claims, NEW delay \in Delays, DeployWeekend(c, delay)
  PROVE  Preserved
<1> USE LaunchAssumption
<1> DEFINE sale == world.sale.terms
           n == world.claims[c - 1].supply
           contract == [NotDeployed EXCEPT !.kind = "weekend", !.paused = TRUE, !.terms = sale,
                                           !.deadline = now + delay,
                                           !.baseline = n, !.supply = n]
           w == [world EXCEPT !.claims[c] = contract]
<1>1. /\ world.edition.minted = world.sale.sold + n /\ c > 1
      /\ NextClaim(c) /\ world' = w /\ UNCHANGED <<stack, now>> /\ stack = <<>>
  BY DEF DeployWeekend, Deploy, Write
<1>2. n \in Nat
  <2>1. c - 1 \in Claims
    BY <1>1 DEF Claims
  <2> QED BY <2>1 DEF TypeOK, World, ClaimContract
<1>3. sale \in Terms /\ now + delay \in Nat
  BY DEF TypeOK, World, Sale
<1> HIDE DEF n
<1>4. /\ contract \in ClaimContract /\ contract.kind = "weekend" /\ contract.claimed = {}
      /\ contract.supply = n /\ contract.baseline = n /\ contract.early = NoEarly
  BY <1>2, <1>3, NotDeployedType DEF NotDeployed, ClaimContract
<1> HIDE DEF contract
<1>5. Sound(world)
  BY LevelTypes DEF IInv
<1>6. w \in World /\ Sound(w) /\ Grown(world, w)
  BY <1>1, <1>4, <1>5, DeploySound
<1>7. w.sale = world.sale
  BY DEF TypeOK, World
<1>8. now' \in 0..MaxTime
  BY <1>1 DEF TypeOK
<1> HIDE DEF w
<1> QED BY <1>1, <1>6, <1>7, <1>8, WriteStep

(***************************************************************************)
(* The sale.                                                               *)
(***************************************************************************)
LEMMA ConfigureSaleStep ==
  ASSUME TypeOK, IInv, NEW t \in Offers, ConfigureSale(t)
  PROVE  Preserved
<1> DEFINE sale == Configured(world.sale, t)
           w == [world EXCEPT !.sale = sale]
<1>1. world' = w /\ UNCHANGED <<stack, now>> /\ (t.max # 0 => world.sale.sold <= t.max)
  BY DEF ConfigureSale, Write, CanConfigure
<1>2. /\ sale \in Sale /\ sale.terms = t /\ sale.sold = world.sale.sold
      /\ sale.cash = world.sale.cash /\ sale.owed = world.sale.owed /\ sale.bought = world.sale.bought
  BY LaunchAssumption DEF Configured, TypeOK, World, Sale
<1> HIDE DEF sale
<1>3. /\ w \in World /\ w.sale = sale /\ w.claims = world.claims /\ w.edition = world.edition
      /\ world \in World /\ w.direct = world.direct
  BY <1>2 DEF TypeOK, World
<1> HIDE DEF w
<1>4. CapKept(w)
  BY <1>1, <1>2, <1>3 DEF CapKept
<1>5. Sound(world) /\ now' \in 0..MaxTime
  BY <1>1, LevelTypes DEF IInv
<1>6. /\ w.sale.sold = world.sale.sold + 0 /\ w.edition.minted = world.edition.minted + 0 + 0
  BY <1>2, <1>3 DEF World, Sale, Edition
<1>7. Books(w) /\ Grown(world, w)
  BY <1>2, <1>3, <1>5, SameBooks
<1>8. Sound(w)
  BY <1>3, <1>4, <1>5, <1>6, <1>7, SoundLike
<1> QED BY <1>1, <1>2, <1>3, <1>5, <1>7, <1>8, WriteStep

LEMMA PurchaseStep ==
  ASSUME TypeOK, IInv, NEW a \in Accounts, NEW n \in Quantities, Purchase(a, n)
  PROVE  Preserved
<1> DEFINE cut == PlatformCut(world.sale.terms.price * n)
           sale == Bought(world.sale, a, n)
           edition == Minted(world.edition, a, n)
           w == [world EXCEPT !.sale = sale, !.edition = edition]
<1>1. Enter("purchase", 0, cut, w) /\ ~InSale
  BY DEF Purchase
<1>2. n \in Nat /\ world \in World /\ world.sale \in Sale /\ world.edition \in Edition
  BY LaunchAssumption DEF TypeOK, World
<1>3. /\ sale \in Sale /\ cut \in Nat /\ sale.terms = world.sale.terms
      /\ sale.sold = world.sale.sold + n /\ sale.bought = [world.sale.bought EXCEPT ![a] = @ + n]
      /\ sale.cash + world.sale.owed = world.sale.cash + sale.owed + cut
  BY <1>2, SaleEffects
<1>4. edition \in Edition /\ edition.minted = world.edition.minted + n
  BY <1>2, MintEffect
<1>5. /\ world.sale.terms.max # 0 => n <= world.sale.terms.max - world.sale.sold
      /\ world.edition.maxSupply = 0 \/ world.edition.minted + n <= world.edition.maxSupply
  BY DEF Purchase, CanBuy, CanMint
<1> HIDE DEF cut, sale, edition
<1>6. w \in World /\ w.sale = sale /\ w.edition = edition /\ w.claims = world.claims /\ w.direct = world.direct
  BY <1>2, <1>3, <1>4 DEF World
<1> HIDE DEF w
<1>7. world.sale.sold \in Nat /\ world.sale.terms.max \in Nat /\ world.edition.minted \in Nat
  BY <1>2 DEF Sale, Terms, Edition
<1>8. CapKept(w)
  BY <1>2, <1>3, <1>5, <1>6, <1>7 DEF CapKept
<1>9. Sound(world) /\ \A d \in Claims : world.claims[d].supply \in Nat
  BY <1>2, LevelTypes DEF IInv, World, ClaimContract
<1>10. w.sale.sold = world.sale.sold + n /\ w.edition.minted = world.edition.minted + n + 0
  BY <1>2, <1>3, <1>4, <1>6, <1>7
<1>11. Books(w) /\ Grown(world, w)
  <2>1. Books(world) /\ CountsSound(world) /\ world.edition.maxSupply = EditionCap
    BY <1>9 DEF Sound, Books
  <2>2. w.edition = Minted(world.edition, a, n)
    BY <1>6 DEF edition
  <2> QED BY <1>2, <1>3, <1>5, <1>6, <2>1, <2>2, BooksBought
<1>12. Sound(w)
  BY <1>2, <1>6, <1>8, <1>9, <1>10, <1>11, SoundLike
<1> QED BY <1>1, <1>3, <1>6, <1>11, <1>12, EnterStep DEF Call

LEMMA WithdrawStep ==
  ASSUME TypeOK, IInv, Withdraw
  PROVE  Preserved
<1> DEFINE sale == Withdrawn(world.sale)
           w == [world EXCEPT !.sale = sale]
<1>1. Enter("withdraw", 0, 0, w) /\ ~InSale
  BY DEF Withdraw
<1>2. /\ world \in World /\ world.sale \in Sale /\ Sound(world)
      /\ world.sale.cash \in Nat /\ world.sale.owed \in Nat
      /\ \A d \in Claims : world.claims[d].supply \in Nat
  BY LevelTypes DEF TypeOK, World, Sale, IInv, ClaimContract
<1>3. world.sale.cash = world.sale.owed
  <2>1. \A j \in DOMAIN stack : stack[j].call # "purchase"
    BY <1>1 DEF InSale
  <2> QED BY <2>1, LevelTypes DEF IInv, Balanced
<1>4. /\ sale \in Sale /\ sale.cash = 0 /\ sale.owed = 0 /\ sale.terms = world.sale.terms
      /\ sale.sold = world.sale.sold /\ sale.bought = world.sale.bought
  <2>1. world.sale.cash - world.sale.owed = 0
    BY <1>2, <1>3
  <2>2. sale = [world.sale EXCEPT !.owed = 0, !.cash = 0]
    BY <1>2, <2>1 DEF Withdrawn, Sale
  <2> HIDE DEF sale
  <2> QED BY <1>2, <2>2 DEF Sale
<1> HIDE DEF sale
<1>5. w \in World /\ w.sale = sale /\ w.edition = world.edition /\ w.claims = world.claims /\ w.direct = world.direct
  BY <1>2, <1>4 DEF World
<1> HIDE DEF w
<1>6. CapKept(w)
  BY <1>2, <1>4, <1>5 DEF CapKept, Sound
<1>7. w.sale.sold = world.sale.sold + 0 /\ w.edition.minted = world.edition.minted + 0 + 0
  BY <1>2, <1>4, <1>5 DEF World, Sale, Edition
<1>8. Books(w) /\ Grown(world, w)
  BY <1>2, <1>4, <1>5, SameBooks
<1>9. Sound(w)
  BY <1>2, <1>5, <1>6, <1>7, <1>8, SoundLike
<1>10. w.sale.cash + world.sale.owed =
         world.sale.cash + w.sale.owed + (IF "withdraw" = "purchase" THEN 0 ELSE 0)
  BY <1>2, <1>3, <1>4, <1>5
<1> QED BY <1>1, <1>5, <1>8, <1>9, <1>10, EnterStep DEF Call

(***************************************************************************)
(* The edition.                                                            *)
(***************************************************************************)
LEMMA TransferStep ==
  ASSUME TypeOK, IInv, NEW from \in Accounts, NEW to \in Accounts, NEW n \in Sizes,
         Transfer(from, to, n)
  PROVE  Preserved
<1> DEFINE edition == Transferred(world.edition, from, to, n)
           w == [world EXCEPT !.edition = edition]
<1>1. Enter("transfer", 0, 0, w) /\ n <= world.edition.balance[from] /\ n \in Nat
  BY LaunchAssumption DEF Transfer, CanTransfer
<1>2. /\ world \in World /\ world.edition \in Edition /\ Sound(world)
      /\ \A d \in Claims : world.claims[d].supply \in Nat
      /\ world.sale.cash \in Nat /\ world.sale.owed \in Nat
  BY LevelTypes DEF TypeOK, World, IInv, ClaimContract, Sale
<1>3. edition \in Edition /\ edition.minted = world.edition.minted
  BY <1>1, <1>2, TransferEffect
<1>0. edition.maxSupply = world.edition.maxSupply /\ Total(edition.balance) = Total(world.edition.balance)
  BY <1>1, <1>2, TransferHeld
<1> HIDE DEF edition
<1>4. w \in World /\ w.edition = edition /\ w.sale = world.sale /\ w.claims = world.claims /\ w.direct = world.direct
  BY <1>2, <1>3 DEF World
<1> HIDE DEF w
<1>5. CapKept(w)
  BY <1>2, <1>4 DEF CapKept, Sound
<1>6. w.sale.sold = world.sale.sold + 0 /\ w.edition.minted = world.edition.minted + 0 + 0
  BY <1>2, <1>3, <1>4 DEF World, Sale, Edition
<1>8. Books(w) /\ Grown(world, w)
  <2>1. Books(world) /\ \A c \in Claims : LET k == world.claims[c] IN
          (k.kind = "none" => ~k.early.done) /\ (k.early.enabled => k.early.wallet \in Accounts)
    BY <1>2 DEF Sound, Books
  <2> QED BY <1>0, <1>2, <1>3, <1>4, <2>1, BooksLike
<1>7. Sound(w)
  BY <1>2, <1>4, <1>5, <1>6, <1>8, SoundLike
<1>9. w.sale.cash + world.sale.owed =
        world.sale.cash + w.sale.owed + (IF "transfer" = "purchase" THEN 0 ELSE 0)
  BY <1>2, <1>4
<1>10. "transfer" \in Call /\ "transfer" \notin SaleCalls
  BY DEF Call, SaleCalls
<1> QED BY <1>1, <1>4, <1>7, <1>8, <1>9, <1>10, EnterStep

LEMMA IssueDirectStep ==
  ASSUME TypeOK, IInv, NEW to \in Accounts, NEW n \in Quantities, IssueDirect(to, n)
  PROVE  Preserved
<1> DEFINE edition == Minted(world.edition, to, n)
           w == [world EXCEPT !.edition = edition, !.direct = @ + n]
<1>1. Enter("issue", 0, 0, w) /\ n \in Nat
  BY LaunchAssumption DEF IssueDirect
<1>2. /\ world \in World /\ world.edition \in Edition /\ Sound(world)
      /\ \A d \in Claims : world.claims[d].supply \in Nat
      /\ world.sale.cash \in Nat /\ world.sale.owed \in Nat
  BY LevelTypes DEF TypeOK, World, IInv, ClaimContract, Sale
<1>3. edition \in Edition /\ edition.minted = world.edition.minted + n
  BY <1>1, <1>2, MintEffect
<1> HIDE DEF edition
<1>4. /\ w \in World /\ w.edition = edition /\ w.sale = world.sale /\ w.claims = world.claims
      /\ w.direct = world.direct + n
  <2>1. world.direct + n \in Nat
    BY <1>1, <1>2 DEF World
  <2> QED BY <1>2, <1>3, <2>1 DEF World
<1> HIDE DEF w
<1>5. CapKept(w)
  BY <1>2, <1>4 DEF CapKept, Sound
<1>6. w.sale.sold = world.sale.sold + 0 /\ w.edition.minted = world.edition.minted + 0 + n
  BY <1>2, <1>3, <1>4 DEF World, Sale, Edition
<1>8. Books(w) /\ Grown(world, w)
  <2>1. Books(world) /\ CountsSound(world) /\ world.edition.maxSupply = EditionCap
    BY <1>2 DEF Sound, Books
  <2>2. w.edition = Minted(world.edition, to, n)
    BY <1>4 DEF edition
  <2>3. EditionCap = 0 \/ world.edition.minted + n <= EditionCap
    BY <2>1 DEF IssueDirect, CanMint
  <2> QED BY <1>1, <1>2, <1>4, <2>1, <2>2, <2>3, BooksIssued
<1>7. Sound(w)
  BY <1>1, <1>2, <1>4, <1>5, <1>6, <1>8, SoundLike
<1>9. w.sale.cash + world.sale.owed =
        world.sale.cash + w.sale.owed + (IF "issue" = "purchase" THEN 0 ELSE 0)
  BY <1>2, <1>4
<1>10. "issue" \in Call /\ "issue" \notin SaleCalls
  BY DEF Call, SaleCalls
<1> QED BY <1>1, <1>4, <1>7, <1>8, <1>9, <1>10, EnterStep

(***************************************************************************)
(* Roles, pauses, windows and early access move no copies and no coins.    *)
(***************************************************************************)
LEMMA SettingStep ==
  ASSUME TypeOK, IInv, NEW w \in World, world' = w, UNCHANGED stack, now' \in 0..MaxTime,
         w.sale = world.sale, w.edition.minted = world.edition.minted, w.direct = world.direct,
         w.edition.balance = world.edition.balance, w.edition.maxSupply = world.edition.maxSupply,
         \A c \in Claims :
           /\ w.claims[c].early.done = world.claims[c].early.done
           /\ w.claims[c].early.enabled =>
                \/ w.claims[c].early.wallet \in Accounts
                \/ /\ world.claims[c].early.enabled
                   /\ w.claims[c].early.wallet = world.claims[c].early.wallet
           /\ w.claims[c].kind = world.claims[c].kind /\ w.claims[c].terms = world.claims[c].terms
           /\ w.claims[c].allocation = world.claims[c].allocation
           /\ w.claims[c].baseline = world.claims[c].baseline
           /\ w.claims[c].supply = world.claims[c].supply
           /\ w.claims[c].prior = world.claims[c].prior
           /\ w.claims[c].claimed = world.claims[c].claimed
  PROVE  Preserved
<1>1. world \in World /\ Sound(world)
  BY LevelTypes DEF TypeOK, IInv
<1>2. CapKept(w)
  BY <1>1 DEF Sound, CapKept
<1>3. w.sale.sold = world.sale.sold + 0 /\ w.edition.minted = world.edition.minted + 0 + 0
  BY <1>1 DEF World, Sale, Edition
<1>4. Books(w) /\ Grown(world, w)
  <2>1. Books(world) /\ \A c \in Claims : LET k == world.claims[c] IN
          (k.kind = "none" => ~k.early.done) /\ (k.early.enabled => k.early.wallet \in Accounts)
    BY <1>1 DEF Sound, Books
  <2>2. \A c \in Claims : world.claims[c].supply \in Nat
    BY <1>1, CountsTyped
  <2>3. \A c \in Claims : w.claims[c].early.enabled => w.claims[c].early.wallet \in Accounts
    BY <2>1
  <2>4. \A c \in Claims : w.claims[c].kind = "none" => ~w.claims[c].early.done
    BY <2>1
  <2>5. \A c \in Claims :
           /\ w.claims[c].supply - w.claims[c].baseline = world.claims[c].supply - world.claims[c].baseline
           /\ world.claims[c].supply <= w.claims[c].supply
    BY <2>2
  <2>6. Total(w.edition.balance) = Total(world.edition.balance)
    OBVIOUS
  <2> QED BY <1>1, <2>1, <2>3, <2>4, <2>5, <2>6, BooksLike
<1>5. Sound(w)
  <2>1. 0 \in Nat
    OBVIOUS
  <2> QED BY <1>1, <1>2, <1>3, <1>4, <2>1, SoundLike, Zenon
<1> QED BY <1>4, <1>5, WriteStep

LEMMA EditionSettingStep ==
  ASSUME TypeOK, IInv, NEW i \in Issuers, NEW p \in BOOLEAN,
         GrantIssuer(i) \/ RevokeIssuer(i) \/ PauseRelease(p)
  PROVE  Preserved
<1>1. /\ world \in World /\ world.edition \in Edition /\ world.sale \in Sale
      /\ now \in 0..MaxTime
  BY DEF TypeOK, World
<1>2. ASSUME NEW edition \in Edition, edition.minted = world.edition.minted,
             edition.balance = world.edition.balance, edition.maxSupply = world.edition.maxSupply,
             Write([world EXCEPT !.edition = edition])
      PROVE  Preserved
  <2> DEFINE w == [world EXCEPT !.edition = edition]
  <2>1. w \in World /\ w.sale = world.sale /\ w.edition = edition /\ w.claims = world.claims /\ w.direct = world.direct
    BY <1>1 DEF World
  <2>2. world' = w /\ UNCHANGED stack /\ now' \in 0..MaxTime
    BY <1>1, <1>2 DEF Write
  <2> HIDE DEF w
  <2> QED BY <1>2, <2>1, <2>2, SettingStep
<1>3. CASE GrantIssuer(i)
  <2> DEFINE edition == [world.edition EXCEPT !.issuers = @ \cup {i}]
  <2>1. /\ edition \in Edition /\ edition.minted = world.edition.minted
        /\ edition.balance = world.edition.balance /\ edition.maxSupply = world.edition.maxSupply
    BY <1>1 DEF Edition
  <2>2. Write([world EXCEPT !.edition = edition])
    BY <1>1, <1>3 DEF GrantIssuer
  <2> QED BY <1>2, <2>1, <2>2
<1>4. CASE RevokeIssuer(i)
  <2> DEFINE edition == [world.edition EXCEPT !.issuers = @ \ {i}]
  <2>1. /\ edition \in Edition /\ edition.minted = world.edition.minted
        /\ edition.balance = world.edition.balance /\ edition.maxSupply = world.edition.maxSupply
    BY <1>1 DEF Edition
  <2>2. Write([world EXCEPT !.edition = edition])
    BY <1>1, <1>4 DEF RevokeIssuer
  <2> QED BY <1>2, <2>1, <2>2
<1>5. CASE PauseRelease(p)
  <2> DEFINE edition == [world.edition EXCEPT !.paused = p]
  <2>1. /\ edition \in Edition /\ edition.minted = world.edition.minted
        /\ edition.balance = world.edition.balance /\ edition.maxSupply = world.edition.maxSupply
    BY <1>1 DEF Edition
  <2>2. Write([world EXCEPT !.edition = edition])
    BY <1>1, <1>5 DEF PauseRelease
  <2> QED BY <1>2, <2>1, <2>2
<1> QED BY <1>3, <1>4, <1>5

(***************************************************************************)
(* Windows, pauses and early access of one claim contract.                 *)
(***************************************************************************)
LEMMA ClaimSettingStep ==
  ASSUME TypeOK, IInv, NEW c \in Claims, NEW k \in ClaimContract,
         world' = [world EXCEPT !.claims[c] = k], UNCHANGED <<stack, now>>,
         k.kind = world.claims[c].kind, k.terms = world.claims[c].terms,
         k.allocation = world.claims[c].allocation, k.baseline = world.claims[c].baseline,
         k.supply = world.claims[c].supply, k.prior = world.claims[c].prior,
         k.claimed = world.claims[c].claimed, k.early.done = world.claims[c].early.done,
         k.early.enabled =>
           \/ k.early.wallet \in Accounts
           \/ world.claims[c].early.enabled /\ k.early.wallet = world.claims[c].early.wallet
  PROVE  Preserved
<1> DEFINE w == [world EXCEPT !.claims[c] = k]
<1>1. world \in World /\ world.claims \in [Claims -> ClaimContract] /\ now \in 0..MaxTime
  BY DEF TypeOK, World
<1>2. /\ w \in World /\ w.sale = world.sale /\ w.edition = world.edition /\ w.direct = world.direct
      /\ w.claims[c] = k /\ \A d \in Claims \ {c} : w.claims[d] = world.claims[d]
  BY <1>1 DEF World
<1>3. world' = w /\ UNCHANGED stack /\ now' \in 0..MaxTime
  BY <1>1
<1> HIDE DEF w
<1> QED BY <1>2, <1>3, SettingStep

LEMMA ClaimSettings ==
  ASSUME TypeOK, IInv, NEW c \in Claims,
         \/ Activate(c) \/ PauseClaim(c) \/ UnpauseClaim(c) \/ DisableEarlyAccess(c)
         \/ \E a \in Accounts, opens, closes \in 0..MaxTime : ConfigureEarlyAccess(c, a, opens, closes)
  PROVE  Preserved
<1> DEFINE k == world.claims[c]
<1>1. /\ world \in World /\ world.claims \in [Claims -> ClaimContract] /\ k \in ClaimContract
      /\ k.early \in Early /\ now \in Nat
  <2>1. world \in World /\ now \in Nat
    BY DEF TypeOK
  <2>2. world.claims \in [Claims -> ClaimContract]
    BY <2>1 DEF World
  <2>3. k \in ClaimContract
    BY <2>2
  <2>4. k.early \in Early
    BY <2>3 DEF ClaimContract
  <2> QED BY <2>1, <2>2, <2>3, <2>4
<1>2. CASE Activate(c)
  <2> DEFINE n == [k EXCEPT !.active = TRUE, !.paused = FALSE, !.opens = now, !.closes = now + ClaimWindow]
  <2>1. now + ClaimWindow \in Nat
    BY <1>1, LaunchAssumption
  <2>2. n \in ClaimContract
    BY <1>1, <2>1 DEF ClaimContract
  <2>3. world' = [world EXCEPT !.claims[c] = n] /\ UNCHANGED <<stack, now>>
    BY <1>1, <1>2 DEF Activate, Write, World
  <2> QED BY <1>1, <2>2, <2>3, ClaimSettingStep DEF ClaimContract
<1>3. CASE PauseClaim(c) \/ UnpauseClaim(c)
  <2>1. PICK p \in BOOLEAN : Write([world EXCEPT !.claims[c].paused = p])
    BY <1>3 DEF PauseClaim, UnpauseClaim
  <2> DEFINE n == [k EXCEPT !.paused = p]
  <2>2. n \in ClaimContract
    BY <1>1 DEF ClaimContract
  <2>3. world' = [world EXCEPT !.claims[c] = n] /\ UNCHANGED <<stack, now>>
    BY <1>1, <2>1 DEF Write, World
  <2> QED BY <1>1, <2>2, <2>3, ClaimSettingStep DEF ClaimContract
<1>4. ASSUME NEW early \in Early, early.done = k.early.done,
             early.enabled => (k.early.enabled /\ early.wallet = k.early.wallet) \/ early.wallet \in Accounts,
             world' = [world EXCEPT !.claims[c].early = early],
             UNCHANGED <<stack, now>>
      PROVE  Preserved
  <2> DEFINE n == [k EXCEPT !.early = early]
  <2>1. n \in ClaimContract
    BY <1>1 DEF ClaimContract
  <2>2. world' = [world EXCEPT !.claims[c] = n]
    BY <1>1, <1>4 DEF World
  <2> QED BY <1>1, <1>4, <2>1, <2>2, ClaimSettingStep DEF ClaimContract
<1>5. CASE DisableEarlyAccess(c)
  <2> DEFINE early == [k.early EXCEPT !.enabled = FALSE]
  <2>1. early \in Early /\ early.done = k.early.done /\ ~early.enabled
    BY <1>1 DEF Early
  <2>2. world' = [world EXCEPT !.claims[c].early = early] /\ UNCHANGED <<stack, now>>
    BY <1>1, <1>5 DEF DisableEarlyAccess, Write, World, ClaimContract
  <2> QED BY <1>4, <2>1, <2>2
<1>6. ASSUME NEW a \in Accounts, NEW opens \in 0..MaxTime, NEW closes \in 0..MaxTime,
             ConfigureEarlyAccess(c, a, opens, closes)
      PROVE  Preserved
  <2> DEFINE early == [k.early EXCEPT !.wallet = a, !.opens = opens, !.closes = closes, !.enabled = TRUE]
  <2>1. early \in Early /\ early.done = k.early.done /\ early.wallet = a
    <3>1. opens \in Nat /\ closes \in Nat
      BY LaunchAssumption
    <3> QED BY <1>1, <3>1 DEF Early
  <2>2. world' = [world EXCEPT !.claims[c].early = early] /\ UNCHANGED <<stack, now>>
    BY <1>1, <1>6 DEF ConfigureEarlyAccess, Write, World, ClaimContract
  <2> QED BY <1>4, <2>1, <2>2
<1> QED BY <1>2, <1>3, <1>5, <1>6

LEMMA TickStep ==
  ASSUME TypeOK, IInv, Tick
  PROVE  Preserved
<1> DEFINE opening(c) == world.claims[c].early.opened \/ (world.claims[c].early.enabled
                                                       /\ world.claims[c].early.opens = now + 1)
           claims == [c \in Claims |-> [world.claims[c] EXCEPT !.early.opened = opening(c)]]
           w == [world EXCEPT !.claims = claims]
<1>1. /\ world \in World /\ now \in 0..MaxTime /\ MaxTime \in Nat
      /\ world.claims \in [Claims -> ClaimContract]
      /\ \A c \in Claims : world.claims[c] \in ClaimContract /\ world.claims[c].early \in Early
  BY LaunchAssumption DEF TypeOK, World, ClaimContract
<1>2. now' \in 0..MaxTime /\ UNCHANGED stack
  BY <1>1 DEF Tick
<1>3. world' = w
  BY <1>1 DEF Tick, ClaimContract, Early
<1>4. \A c \in Claims : opening(c) \in BOOLEAN
  OBVIOUS
<1> HIDE DEF opening
<1>5. ASSUME NEW c \in Claims
      PROVE  /\ claims[c] \in ClaimContract
             /\ claims[c].kind = world.claims[c].kind /\ claims[c].terms = world.claims[c].terms
             /\ claims[c].allocation = world.claims[c].allocation
             /\ claims[c].baseline = world.claims[c].baseline
             /\ claims[c].supply = world.claims[c].supply
             /\ claims[c].prior = world.claims[c].prior
             /\ claims[c].claimed = world.claims[c].claimed
             /\ claims[c].early.done = world.claims[c].early.done
             /\ claims[c].early.enabled = world.claims[c].early.enabled
             /\ claims[c].early.wallet = world.claims[c].early.wallet
  <2> DEFINE early == [world.claims[c].early EXCEPT !.opened = opening(c)]
  <2>1. /\ early \in Early /\ early.done = world.claims[c].early.done
        /\ early.enabled = world.claims[c].early.enabled /\ early.wallet = world.claims[c].early.wallet
    BY <1>1, <1>4 DEF Early
  <2>2. claims[c] = [world.claims[c] EXCEPT !.early = early]
    BY <1>1 DEF ClaimContract
  <2> HIDE DEF early, claims
  <2> QED BY <1>1, <2>1, <2>2 DEF ClaimContract
<1>6. claims \in [Claims -> ClaimContract]
  BY <1>5
<1> HIDE DEF claims
<1>7. w \in World /\ w.sale = world.sale /\ w.edition = world.edition /\ w.claims = claims /\ w.direct = world.direct
  BY <1>1, <1>6 DEF World
<1> HIDE DEF w
<1> QED BY <1>2, <1>3, <1>5, <1>7, SettingStep

(***************************************************************************)
(* Claims.                                                                 *)
(***************************************************************************)
LEMMA WorldFacts ==
  ASSUME TypeOK, IInv
  PROVE  /\ world \in World /\ world.edition \in Edition /\ world.sale \in Sale
         /\ world.claims \in [Claims -> ClaimContract] /\ Sound(world)
         /\ world.sale.cash \in Nat /\ world.sale.owed \in Nat
         /\ \A d \in Claims : world.claims[d] \in ClaimContract /\ world.claims[d].supply \in Nat
<1>1. world \in World
  BY DEF TypeOK
<1>2. /\ world.edition \in Edition /\ world.sale \in Sale
      /\ world.claims \in [Claims -> ClaimContract]
  BY <1>1 DEF World
<1>3. world.sale.cash \in Nat /\ world.sale.owed \in Nat
  BY <1>2 DEF Sale
<1>4. \A d \in Claims : world.claims[d] \in ClaimContract /\ world.claims[d].supply \in Nat
  BY <1>2 DEF ClaimContract
<1>5. Sound(world)
  BY LevelTypes DEF IInv
<1> QED BY <1>1, <1>2, <1>3, <1>4, <1>5

\* A claim call hands over one copy that contract c counted.
LEMMA ClaimCall ==
  ASSUME TypeOK, IInv, NEW c \in Claims, NEW w \in World, Enter("claim", c, 0, w), Sound(w),
         w.sale = world.sale, Grown(world, w)
  PROVE  Preserved
<1>2. w.sale.cash + world.sale.owed =
        world.sale.cash + w.sale.owed + (IF "claim" = "purchase" THEN 0 ELSE 0)
  BY WorldFacts
<1>3. "claim" \in Call /\ "claim" \notin SaleCalls
  BY DEF Call, SaleCalls
<1> QED BY <1>2, <1>3, EnterStep

LEMMA ClaimStep ==
  ASSUME TypeOK, IInv, NEW c \in Claims, NEW a \in Accounts, Claim(c, a)
  PROVE  Preserved
<1>1. /\ world \in World /\ world.edition \in Edition /\ world.claims[c] \in ClaimContract
      /\ world.claims \in [Claims -> ClaimContract] /\ Sound(world)
  BY WorldFacts
<1> DEFINE k == [world.claims[c] EXCEPT !.claimed = @ \cup {a}, !.supply = @ + 1]
           edition == Minted(world.edition, a, 1)
           claims == [world.claims EXCEPT ![c] = k]
           w == [world EXCEPT !.claims = claims, !.edition = edition]
<1>2. Open(c) /\ MayClaim(c, a)
  BY DEF Claim
<1>3. [world EXCEPT !.claims[c].claimed = @ \cup {a}, !.claims[c].supply = @ + 1,
                    !.edition = Minted(@, a, 1)] = w
  BY <1>1 DEF World, ClaimContract
<1>4. Enter("claim", c, 0, w)
  BY <1>3 DEF Claim
<1>5. /\ k \in ClaimContract /\ k.supply = world.claims[c].supply + 1
      /\ k.kind = world.claims[c].kind /\ k.baseline = world.claims[c].baseline /\ k.early = world.claims[c].early
      /\ k.claimed = world.claims[c].claimed \cup {a}
  <2>1. world.claims[c].claimed \cup {a} \in SUBSET Accounts /\ world.claims[c].supply + 1 \in Nat
    BY <1>1 DEF ClaimContract
  <2> QED BY <1>1, <2>1 DEF ClaimContract
<1>6. edition \in Edition /\ edition.minted = world.edition.minted + 1
  BY <1>1, MintEffect
<1> HIDE DEF edition, k
<1>7. /\ claims \in [Claims -> ClaimContract] /\ claims[c] = k
      /\ \A d \in Claims \ {c} : claims[d] = world.claims[d]
  BY <1>1, <1>5
<1> HIDE DEF claims
<1>8. /\ w \in World /\ w.sale = world.sale /\ w.edition = edition /\ w.claims[c] = k /\ w.direct = world.direct
      /\ \A d \in Claims \ {c} : w.claims[d] = world.claims[d]
  BY <1>1, <1>6, <1>7 DEF World
<1> HIDE DEF w
<1>9. Books(w) /\ Grown(world, w)
  <2>1. a \notin Claimants(world) /\ world.claims[c].kind # "none"
    BY <1>1, <1>2, ClaimantIsNew DEF Claimants, Open, Deployed
  <2>2. Books(world) /\ CountsSound(world)
    BY <1>1 DEF Sound
  <2>3. EditionCap = 0 \/ world.edition.minted + 1 <= EditionCap
    BY <2>2 DEF Claim, CanMint, Books
  <2>4. w.edition = Minted(world.edition, a, 1)
    BY <1>8 DEF edition
  <2> QED BY <1>1, <1>5, <1>8, <2>1, <2>2, <2>3, <2>4, BooksClaimed
<1>10. Sound(w)
  BY <1>1, <1>2, <1>6, <1>8, <1>9, ClaimSound DEF k
<1> QED BY <1>4, <1>8, <1>9, <1>10, ClaimCall

LEMMA EarlyAccessMintStep ==
  ASSUME TypeOK, IInv, NEW c \in Claims, EarlyAccessMint(c)
  PROVE  Preserved
<1>1. /\ world \in World /\ world.edition \in Edition /\ world.claims[c] \in ClaimContract
      /\ world.claims \in [Claims -> ClaimContract] /\ Sound(world)
  BY WorldFacts
<1> DEFINE early == [world.claims[c].early EXCEPT !.done = TRUE]
           k == [world.claims[c] EXCEPT !.early = early, !.supply = @ + 1]
           edition == Minted(world.edition, world.claims[c].early.wallet, 1)
           claims == [world.claims EXCEPT ![c] = k]
           w == [world EXCEPT !.claims = claims, !.edition = edition]
<1>2. world.claims[c].kind = "holder" /\ Accounted(c) /\ AllocationLeft(c)
  BY DEF EarlyAccessMint, AsScheduled
<1>3. [world EXCEPT !.claims[c].early.done = TRUE, !.claims[c].supply = @ + 1,
                    !.edition = Minted(@, world.claims[c].early.wallet, 1)] = w
  BY <1>1 DEF World, ClaimContract
<1>4. Enter("claim", c, 0, w)
  BY <1>3 DEF EarlyAccessMint
<1>5. /\ early \in Early /\ early.done /\ early.enabled = world.claims[c].early.enabled
      /\ early.wallet = world.claims[c].early.wallet
  <2>1. world.claims[c].early \in Early
    BY <1>1 DEF ClaimContract
  <2> QED BY <2>1 DEF Early
<1> HIDE DEF early
<1>6. /\ k \in ClaimContract /\ k.supply = world.claims[c].supply + 1
      /\ k.kind = world.claims[c].kind /\ k.terms = world.claims[c].terms
      /\ k.allocation = world.claims[c].allocation /\ k.baseline = world.claims[c].baseline
      /\ k.prior = world.claims[c].prior /\ k.claimed = world.claims[c].claimed /\ k.early = early
  <2>1. world.claims[c].supply + 1 \in Nat
    BY <1>1 DEF ClaimContract
  <2> QED BY <1>1, <1>5, <2>1 DEF ClaimContract
<1>7. edition \in Edition /\ edition.minted = world.edition.minted + 1
  BY <1>1, MintEffect
<1> HIDE DEF edition, k
<1>8. /\ claims \in [Claims -> ClaimContract] /\ claims[c] = k
      /\ \A d \in Claims \ {c} : claims[d] = world.claims[d]
  BY <1>1, <1>6
<1> HIDE DEF claims
<1>9. /\ w \in World /\ w.sale = world.sale /\ w.edition = edition /\ w.claims[c] = k /\ w.direct = world.direct
      /\ \A d \in Claims \ {c} : w.claims[d] = world.claims[d]
  BY <1>1, <1>7, <1>8 DEF World
<1> HIDE DEF w
<1>10. CountsSound(w) /\ OthersYield(w) /\ HolderFits(w) /\ CapKept(w)
  BY <1>1, <1>2, <1>6, <1>7, <1>9, MintKeepsCounts DEF Accounted, AllocationLeft
<1>11. FreeOnceIn(w)
  <2>1. \A d \in Claims : w.claims[d].claimed = world.claims[d].claimed
    BY <1>6, <1>9
  <2> QED BY <1>1, <2>1 DEF Sound, FreeOnceIn
<1>12. Books(w) /\ Grown(world, w)
  <2>1. Books(world) /\ CountsSound(world)
    BY <1>1 DEF Sound
  <2>2. world.claims[c].early.enabled /\ ~world.claims[c].early.done
        /\ (world.edition.maxSupply = 0 \/ world.edition.minted + 1 <= world.edition.maxSupply)
    BY DEF EarlyAccessMint, CanMint
  <2>3. /\ EditionCap = 0 \/ world.edition.minted + 1 <= EditionCap
        /\ world.claims[c].early.wallet \in Accounts
    BY <2>1, <2>2 DEF Books
  <2>4. w.edition = Minted(world.edition, world.claims[c].early.wallet, 1)
    BY <1>9 DEF edition
  <2> QED BY <1>1, <1>2, <1>5, <1>6, <1>9, <2>1, <2>2, <2>3, <2>4, BooksClaimed
<1>13. Sound(w)
  BY <1>10, <1>11, <1>12 DEF Sound
<1> QED BY <1>4, <1>9, <1>12, <1>13, ClaimCall

(***************************************************************************)
(* The invariant: it holds initially and every step keeps it.              *)
(***************************************************************************)
LEMMA ReturnStep ==
  ASSUME TypeOK, IInv, Accept \/ Refuse
  PROVE  Preserved
<1>1. CASE Accept
  <2>1. Top.cut \in Nat
    BY <1>1, LevelTypes, Popped DEF Accept, Top, Frame
  <2> QED BY <1>1, <2>1, PopStep DEF Accept
<1>2. CASE Refuse
  BY <1>2, PopStep DEF Refuse
<1> QED BY <1>1, <1>2

LEMMA Initially ==
  ASSUME Init
  PROVE  TypeOK /\ IInv
<1>1. NewEdition(EditionCap, MintEnd, InitialIssuers) \in Edition
  BY LaunchAssumption DEF NewEdition, Edition
<1>2. NewSale \in Sale /\ NewSale.cash = 0 /\ NewSale.owed = 0 /\ NewSale.sold = 0
      /\ NewSale.terms = NoTerms /\ NoTerms.max = 0
  BY NotDeployedType DEF NewSale, Sale, NoTerms
<1>3. world \in World
  BY <1>1, <1>2, NotDeployedType DEF Init, World
<1>4. TypeOK
  BY <1>3, LaunchAssumption DEF TypeOK, Init
<1>5. /\ world.sale = NewSale /\ world.edition.minted = 0
      /\ \A c \in Claims : world.claims[c] = NotDeployed
  BY DEF Init, NewEdition
<1>6. /\ NotDeployed.kind = "none" /\ NotDeployed.supply = 0 /\ NotDeployed.baseline = 0
      /\ NotDeployed.claimed = {}
  BY DEF NotDeployed
<1>13. Books(world)
  <2>1. /\ world.edition.balance = [a \in Accounts |-> 0] /\ world.sale.bought = [a \in Accounts |-> 0]
        /\ world.edition.maxSupply = EditionCap /\ world.direct = 0
    BY <1>5 DEF Init, NewEdition, NewSale
  <2>2. Total(world.edition.balance) = 0 /\ Total(world.sale.bought) = 0
    BY <2>1, NothingCounted
  <2>3. Total(Through(world)) = 0
    <3>1. \A c \in Claims : Through(world)[c] = 0
      BY <1>5, <1>6 DEF Through
    <3> QED BY <3>1, NothingCounted DEF Through
  <2>4. Claimants(world) = {}
    BY <1>5, <1>6 DEF Claimants
  <2>5. \A c \in Claims : ~world.claims[c].early.done /\ ~world.claims[c].early.enabled
    BY <1>5 DEF NotDeployed, NoEarly
  <2>6. EarlyCopies(world) = 0
    <3>1. {c \in Claims : world.claims[c].early.done} = {}
      BY <2>5
    <3> QED BY <3>1, FS_EmptySet DEF EarlyCopies
  <2>7. Cardinality(Claimants(world)) = 0 /\ EditionCap \in Nat
    BY <2>4, FS_EmptySet, LaunchAssumption
  <2> QED BY <1>2, <1>5, <2>1, <2>2, <2>3, <2>5, <2>6, <2>7 DEF Books
<1>7. Sound(world)
  BY <1>2, <1>5, <1>6, <1>13 DEF Sound, CountsSound, OthersYield, FreeOnceIn, HolderFits, CapKept, HasMinted
<1>8. DOMAIN stack = {} /\ Levels = {0} /\ Level(0) = world
  BY DEF Init, Levels, Level
<1>9. Balanced(0)
  BY <1>2, <1>5, <1>8 DEF Balanced
<1>10. Grown(world, world)
  BY <1>3, GrownSelf
<1>11. \A i \in Levels : Balanced(i) /\ Sound(Level(i))
  BY <1>7, <1>8, <1>9
<1>12. \A i, j \in Levels : i <= j => Grown(Level(j), Level(i))
  BY <1>8, <1>10
<1> QED BY <1>4, <1>8, <1>11, <1>12 DEF IInv

LEMMA Idle ==
  ASSUME TypeOK, IInv, UNCHANGED vars
  PROVE  Preserved
<1>1. world' = world /\ stack' = stack /\ now' = now
  BY DEF vars
<1>2. TypeOK'
  BY <1>1 DEF TypeOK
<1>3. Levels' = Levels /\ \A i \in Levels : Level(i)' = Level(i) /\ Balanced(i)' = Balanced(i)
  BY <1>1 DEF Levels, Level, Balanced
<1>4. Grown(Committed, Committed')
  <2>1. Grown(world, world')
    BY <1>1, GrownSelf DEF TypeOK
  <2> QED BY <1>1, <2>1, WriteCommits
<1> QED BY <1>1, <1>2, <1>3, <1>4 DEF IInv, Preserved

LEMMA Inductive ==
  ASSUME TypeOK, IInv, [Next]_vars
  PROVE  Preserved
<1>1. ASSUME NEW t \in Offers, ConfigureSale(t) PROVE Preserved
  BY <1>1, ConfigureSaleStep
<1>2. ASSUME NEW a \in Accounts, NEW n \in Quantities, Purchase(a, n) \/ IssueDirect(a, n)
      PROVE  Preserved
  BY <1>2, PurchaseStep, IssueDirectStep
<1>3. CASE Withdraw
  BY <1>3, WithdrawStep
<1>4. ASSUME NEW a \in Accounts, NEW b \in Accounts, NEW n \in Sizes, Transfer(a, b, n)
      PROVE  Preserved
  BY <1>4, TransferStep
<1>5. ASSUME NEW i \in Issuers, GrantIssuer(i) \/ RevokeIssuer(i) PROVE Preserved
  BY <1>5, EditionSettingStep
<1>6. ASSUME NEW p \in BOOLEAN, PauseRelease(p) PROVE Preserved
  <2>1. Artist \in Issuers
    BY LaunchAssumption
  <2> QED BY <1>6, <2>1, EditionSettingStep
<1>7. ASSUME NEW c \in Claims, NEW m \in Allocations,
             \/ DeployHolder(c, m)
             \/ \E d \in Delays, prior \in SUBSET Accounts : DeployRecovery(c, m, d, prior)
      PROVE  Preserved
  BY <1>7, DeployHolderStep, DeployRecoveryStep
<1>8. ASSUME NEW c \in Claims, NEW d \in Delays, DeployWeekend(c, d) PROVE Preserved
  BY <1>8, DeployWeekendStep
<1>9. ASSUME NEW c \in Claims,
             \/ Activate(c) \/ PauseClaim(c) \/ UnpauseClaim(c)
             \/ DisableEarlyAccess(c) \/ EarlyAccessMint(c)
      PROVE  Preserved
  BY <1>9, ClaimSettings, EarlyAccessMintStep
<1>10. ASSUME NEW c \in Claims, NEW a \in Accounts, Claim(c, a) PROVE Preserved
  BY <1>10, ClaimStep
<1>11. ASSUME NEW c \in Claims, NEW a \in Accounts, NEW opens \in 0..MaxTime,
              NEW closes \in 0..MaxTime, ConfigureEarlyAccess(c, a, opens, closes)
       PROVE  Preserved
  BY <1>11, ClaimSettings
<1>12. CASE PayPlatform \/ Accept \/ Refuse
  BY <1>12, PayPlatformStep, ReturnStep
<1>13. CASE Tick
  BY <1>13, TickStep
<1>14. CASE UNCHANGED vars
  BY <1>14, Idle
<1> QED BY <1>1, <1>2, <1>3, <1>4, <1>5, <1>6, <1>7, <1>8, <1>9, <1>10, <1>11, <1>12, <1>13, <1>14
        DEF Next

(***************************************************************************)
(* At every moment, inside callbacks too, and for the storage every        *)
(* unfinished call would be undone to: the contracts count copies that     *)
(* exist, a contract that mints locks the others, and the sale's coins     *)
(* cover its debts.                                                        *)
(***************************************************************************)
THEOREM Invariance == Spec => [](TypeOK /\ IInv)
<1>1. Init => TypeOK /\ IInv
  BY Initially
<1>2. TypeOK /\ IInv /\ [Next]_vars => (TypeOK /\ IInv)'
  BY Inductive DEF Preserved
<1> QED BY <1>1, <1>2, PTL DEF Spec

(***************************************************************************)
(* Every contract's storage, and every storage a call would be undone to,  *)
(* keeps its shape: no balance, count or debt is negative.                 *)
(***************************************************************************)
THEOREM TypeCorrect == Spec => []TypeOK
BY Invariance, PTL

(***************************************************************************)
(* Callbacks between a payment's parts, refused deliveries and changed     *)
(* prices leave the sale able to pay the artist and the platform exactly.  *)
(***************************************************************************)
THEOREM SaleStaysSolvent == Spec => []Solvent
<1>1. TypeOK /\ IInv => Solvent
  BY LevelTypes DEF IInv, Solvent
<1> QED BY <1>1, Invariance, PTL

(***************************************************************************)
(* No interleaving of purchases, refused deliveries and new terms sells    *)
(* more than the cap in force.                                             *)
(***************************************************************************)
THEOREM CapRespected == Spec => []SoldWithinCap
<1>1. TypeOK /\ IInv => SoldWithinCap
  BY LevelTypes DEF IInv, Sound, CapKept, SoldWithinCap
<1> QED BY <1>1, Invariance, PTL

(***************************************************************************)
(* No wallet claims a free copy from two claim contracts, however many are *)
(* deployed, live or paused, and however their claims nest.                *)
(***************************************************************************)
THEOREM OneFreeCopyPerWallet == Spec => []FreeOnce
<1>1. TypeOK /\ IInv => FreeOnce
  BY LevelTypes DEF IInv, Sound, FreeOnceIn, FreeOnce
<1> QED BY <1>1, Invariance, PTL

(***************************************************************************)
(* While the sale is the one a holder claim was bound to, the edition has  *)
(* room for all that both may still mint.                                  *)
(***************************************************************************)
THEOREM RoomForBoth == Spec => []NeitherStarves
<1>1. ASSUME TypeOK, IInv, NEW c \in Claims,
             EditionCap # 0, world.claims[c].kind = "holder", AsScheduled(c)
      PROVE  /\ world.claims[c].supply <= world.claims[c].allocation
             /\ (world.sale.terms.max - world.sale.sold)
                  + (world.claims[c].allocation - world.claims[c].supply)
                <= EditionCap - world.edition.minted
  <2> DEFINE k == world.claims[c]
  <2>1. k.supply <= k.allocation /\ k.terms.max + k.allocation <= EditionCap
    BY <1>1, WorldFacts DEF Sound, HolderFits
  <2>2. world.sale.terms.max = k.terms.max /\ world.edition.minted = world.sale.sold + k.supply
    BY <1>1 DEF AsScheduled, Accounted
  <2>3. k \in ClaimContract /\ world.sale \in Sale
    BY <1>1, WorldFacts
  <2>4. /\ k.supply \in Nat /\ k.allocation \in Nat /\ k.terms.max \in Nat
        /\ world.sale.sold \in Nat /\ EditionCap \in Nat
    BY <2>3, LaunchAssumption DEF ClaimContract, Sale, Terms
  <2> HIDE DEF k
  <2> QED BY <2>1, <2>2, <2>4 DEF k
<1>2. TypeOK /\ IInv => NeitherStarves
  BY <1>1 DEF NeitherStarves
<1> QED BY <1>2, Invariance, PTL

(***************************************************************************)
(* What a step may do to the count of contract d that is already deployed: *)
(* a claim or an early-access mint of d raises it, a refusal takes it      *)
(* back, and nothing else moves it.                                        *)
(***************************************************************************)
LEMMA CountMoves ==
  ASSUME TypeOK, IInv, Next, NEW d \in Claims, Deployed(d)
  PROVE  \/ Accounted(d)
         \/ world'.claims[d].supply <= world.claims[d].supply
<1> DEFINE Kept == world'.claims[d].supply = world.claims[d].supply
<1>1. /\ world \in World /\ world.claims \in [Claims -> ClaimContract]
      /\ world.claims[d].supply \in Nat
  BY WorldFacts
<1>2. ASSUME NEW t \in Offers, ConfigureSale(t) PROVE Kept
  BY <1>1, <1>2 DEF ConfigureSale, Write, World
<1>3. ASSUME NEW a \in Accounts, NEW n \in Quantities, Purchase(a, n) \/ IssueDirect(a, n)
      PROVE  Kept
  BY <1>1, <1>3 DEF Purchase, IssueDirect, Enter, World
<1>4. CASE Withdraw
  BY <1>1, <1>4 DEF Withdraw, Enter, World
<1>5. ASSUME NEW a \in Accounts, NEW b \in Accounts, NEW n \in Sizes, Transfer(a, b, n)
      PROVE  Kept
  BY <1>1, <1>5 DEF Transfer, Enter, World
<1>6. /\ \A i \in Issuers : GrantIssuer(i) \/ RevokeIssuer(i) => Kept
      /\ \A p \in BOOLEAN : PauseRelease(p) => Kept
  BY <1>1 DEF GrantIssuer, RevokeIssuer, PauseRelease, Write, World
<1>7. ASSUME NEW c \in Claims, NEW k, Deploy(c, k) PROVE Kept
  <2>1. c # d
    BY <1>7 DEF Deploy, NextClaim
  <2>2. world' = [world EXCEPT !.claims[c] = k]
    BY <1>7 DEF Deploy, Write
  <2> QED BY <1>1, <2>1, <2>2 DEF World
<1>8. ASSUME NEW c \in Claims, NEW m \in Allocations,
             \/ DeployHolder(c, m)
             \/ \E delay \in Delays, prior \in SUBSET Accounts : DeployRecovery(c, m, delay, prior)
      PROVE  Kept
  <2>1. \E k : Deploy(c, k)
    BY <1>8 DEF DeployHolder, DeployRecovery
  <2> QED BY <1>7, <2>1
<1>9. ASSUME NEW c \in Claims, NEW delay \in Delays, DeployWeekend(c, delay) PROVE Kept
  <2>1. \E k : Deploy(c, k)
    BY <1>9 DEF DeployWeekend
  <2> QED BY <1>7, <2>1
<1>10. ASSUME NEW c \in Claims, Activate(c) PROVE Kept
  BY <1>1, <1>10 DEF Activate, Write, World, ClaimContract
<1>11. ASSUME NEW c \in Claims, PauseClaim(c) \/ UnpauseClaim(c) PROVE Kept
  BY <1>1, <1>11 DEF PauseClaim, UnpauseClaim, Write, World, ClaimContract
<1>12. ASSUME NEW c \in Claims,
              \/ DisableEarlyAccess(c)
              \/ \E a \in Accounts, opens, closes \in 0..MaxTime :
                   ConfigureEarlyAccess(c, a, opens, closes)
       PROVE  Kept
  <2>1. \E early : world' = [world EXCEPT !.claims[c].early = early]
    BY <1>12 DEF DisableEarlyAccess, ConfigureEarlyAccess, Write
  <2>2. PICK early : world' = [world EXCEPT !.claims[c].early = early]
    BY <2>1
  <2> DEFINE k == [world.claims[c] EXCEPT !.early = early]
             claims == [world.claims EXCEPT ![c] = k]
  <2>3. k.supply = world.claims[c].supply
    BY <1>1 DEF ClaimContract
  <2>4. world' = [world EXCEPT !.claims = claims]
    BY <1>1, <2>2 DEF World
  <2> HIDE DEF k
  <2> QED BY <1>1, <2>3, <2>4 DEF World
<1>13. ASSUME NEW c \in Claims, NEW a \in Accounts, Claim(c, a)
       PROVE  Kept \/ Accounted(d)
  <2>1. CASE c = d
    BY <1>13, <2>1 DEF Claim, MayClaim, AsScheduled
  <2>2. CASE c # d
    BY <1>1, <1>13, <2>2 DEF Claim, Enter, World
  <2> QED BY <2>1, <2>2
<1>14. ASSUME NEW c \in Claims, EarlyAccessMint(c)
       PROVE  Kept \/ Accounted(d)
  <2>1. CASE c = d
    BY <1>14, <2>1 DEF EarlyAccessMint, AsScheduled
  <2>2. CASE c # d
    BY <1>1, <1>14, <2>2 DEF EarlyAccessMint, Enter, World
  <2> QED BY <2>1, <2>2
<1>15. CASE PayPlatform \/ Accept
  BY <1>1, <1>15 DEF PayPlatform, Accept, World
<1>16. CASE Refuse
  <2>1. Levels = 0..Len(stack) /\ Len(stack) >= 1 /\ Level(0) = world /\ Level(1) = Top.before
    BY <1>16, LevelTypes, Popped DEF Refuse, Top, Levels, Level
  <2>2. Level(1).claims[d].supply <= Level(0).claims[d].supply
    BY <2>1, LevelTypes DEF IInv, Grown
  <2> QED BY <1>16, <2>1, <2>2 DEF Refuse
<1>17. CASE Tick
  BY <1>1, <1>17 DEF Tick, World, ClaimContract
<1>18. Kept => world'.claims[d].supply <= world.claims[d].supply
  BY <1>1
<1> HIDE DEF Kept
<1> QED BY <1>2, <1>3, <1>4, <1>5, <1>6, <1>8, <1>9, <1>10, <1>11, <1>12, <1>13, <1>14, <1>15,
           <1>16, <1>17, <1>18 DEF Next

(***************************************************************************)
(* A contract is retired by the first mint of a later one: its accounting  *)
(* check cannot pass while that copy stands, whatever is sold or minted    *)
(* directly afterwards.                                                    *)
(***************************************************************************)
THEOREM SupersededIsSilent == Spec => SupersededNeverMints
<1>1. ASSUME TypeOK, IInv, Next, NEW c \in Claims, NEW d \in Claims,
             Deployed(c), MintedBy(c) # 0, Deployed(d), d < c
      PROVE  world'.claims[d].supply <= world.claims[d].supply
  <2>1. Sound(world) /\ world.claims[c] \in ClaimContract /\ world.edition \in Edition
    BY <1>1, WorldFacts
  <2>2. HasMinted(world.claims[c])
    BY <1>1, <2>1 DEF MintedBy, Through, HasMinted, Sound, CountsSound, ClaimContract
  <2>3. LockedIn(world, d)
    BY <1>1, <2>1, <2>2 DEF Sound, OthersYield, Deployed, Claims
  <2>4. ~Accounted(d)
    BY <2>1, <2>3 DEF LockedIn, Accounted, Edition
  <2> QED BY <1>1, <2>4, CountMoves
<1>2. TypeOK /\ IInv /\ [Next]_vars =>
        [\A c, d \in Claims :
           Deployed(c) /\ MintedBy(c) # 0 /\ Deployed(d) /\ d < c =>
             world'.claims[d].supply <= world.claims[d].supply]_world
  BY <1>1 DEF vars
<1> QED BY <1>2, Invariance, PTL DEF Spec, SupersededNeverMints

(***************************************************************************)
(* Inside callbacks too, and after any number of transfers and refused     *)
(* deliveries: mintedSupply is what the holders hold.                      *)
(***************************************************************************)
THEOREM EveryCopyHeld == Spec => []HoldersMatchSupply
<1>1. TypeOK /\ IInv => HoldersMatchSupply
  BY LevelTypes DEF IInv, Sound, Books, HoldersMatchSupply
<1> QED BY <1>1, Invariance, PTL

(***************************************************************************)
(* No copy is on two contracts' books or on none.                          *)
(***************************************************************************)
THEOREM EveryCopyOnOneBook == Spec => []SupplyAccounted
<1>1. TypeOK /\ IInv => SupplyAccounted
  BY LevelTypes DEF IInv, Sound, Books, SupplyAccounted
<1> QED BY <1>1, Invariance, PTL

-----------------------------------------------------------------------------
\* One transaction of the promise, in terms of the storage before and after it.
TransactionOf(v, w) ==
  /\ \A a \in Accounts : w.sale.bought[a] >= v.sale.bought[a]
  /\ Claimants(v) \subseteq Claimants(w)
  /\ w.direct + EarlyCopies(w) >= v.direct + EarlyCopies(v)
  /\ w.edition.minted + Total(v.sale.bought) =
       v.edition.minted + Total(w.sale.bought) + Cardinality(Claimants(w) \ Claimants(v))
         + ((w.direct + EarlyCopies(w)) - (v.direct + EarlyCopies(v)))
  /\ EditionCap # 0 => w.edition.minted <= EditionCap

(***************************************************************************)
(* When what is committed grows from v to w and both keep their books, the *)
(* difference is one transaction of the promise.                           *)
(***************************************************************************)
LEMMA GrowthIsTransaction ==
  ASSUME NEW v \in World, NEW w \in World, Books(v), Books(w), Grown(v, w)
  PROVE  TransactionOf(v, w)
<1>1. \A a \in Accounts : w.sale.bought[a] >= v.sale.bought[a]
  <2>1. \A a \in Accounts : v.sale.bought[a] \in Nat /\ w.sale.bought[a] \in Nat
    BY CountsTyped
  <2> QED BY <2>1 DEF Grown
<1>2. Claimants(v) \subseteq Claimants(w)
  BY DEF Claimants, Grown
<1>3. /\ v.direct \in Nat /\ w.direct \in Nat /\ EarlyCopies(v) \in Nat /\ EarlyCopies(w) \in Nat
      /\ v.sale.sold \in Nat /\ w.sale.sold \in Nat
      /\ Cardinality(Claimants(v)) \in Nat /\ Cardinality(Claimants(w)) \in Nat
      /\ IsFiniteSet(Claimants(w)) /\ IsFiniteSet(Claims)
  BY CountsTyped
<1>4. EarlyCopies(v) <= EarlyCopies(w)
  <2> DEFINE early(x) == {c \in Claims : x.claims[c].early.done}
  <2>1. early(v) \subseteq early(w)
    BY DEF Grown
  <2>2. IsFiniteSet(early(w))
    BY <1>3, FS_Subset
  <2> HIDE DEF early
  <2>3. Cardinality(early(v)) <= Cardinality(early(w))
    BY <2>1, <2>2, FS_Subset
  <2> QED BY <2>3 DEF EarlyCopies, early
<1>5. v.direct <= w.direct
  BY DEF Grown
<1>6. Cardinality(Claimants(w) \ Claimants(v)) = Cardinality(Claimants(w)) - Cardinality(Claimants(v))
  <2>1. Claimants(w) \cap Claimants(v) = Claimants(v)
    BY <1>2
  <2> QED BY <1>3, <2>1, FS_Difference
<1>7. /\ v.edition.minted = v.sale.sold + v.direct + EarlyCopies(v) + Cardinality(Claimants(v))
      /\ w.edition.minted = w.sale.sold + w.direct + EarlyCopies(w) + Cardinality(Claimants(w))
      /\ v.sale.sold = Total(v.sale.bought) /\ w.sale.sold = Total(w.sale.bought)
      /\ EditionCap # 0 => w.edition.minted <= EditionCap
  BY DEF Books
<1>8. w.direct + EarlyCopies(w) >= v.direct + EarlyCopies(v)
  BY ONLY <1>3, <1>4, <1>5
<1>9. w.edition.minted + Total(v.sale.bought) =
        v.edition.minted + Total(w.sale.bought) + Cardinality(Claimants(w) \ Claimants(v))
          + ((w.direct + EarlyCopies(w)) - (v.direct + EarlyCopies(v)))
  BY ONLY <1>3, <1>6, <1>7
<1> QED BY <1>1, <1>2, <1>7, <1>8, <1>9 DEF TransactionOf

(***************************************************************************)
(* The release contracts, with all their callbacks, implement the promise: *)
(* each outermost call, whatever ran inside it, is one transaction that    *)
(* takes nothing back, gives each free copy once and keeps the cap.        *)
(***************************************************************************)
THEOREM PromiseImplemented == Spec => PromiseKept
<1>1. Init => Promise!Init
  <2> SUFFICES ASSUME Init PROVE Promise!Init
    OBVIOUS
  <2>1. /\ Committed = world /\ world.edition.minted = 0 /\ world.direct = 0
        /\ world.sale.bought = [a \in Accounts |-> 0]
        /\ \A c \in Claims : world.claims[c] = NotDeployed
    BY DEF Init, Committed, NewEdition, NewSale
  <2>2. Claimants(world) = {}
    BY <2>1 DEF Claimants, NotDeployed
  <2>3. EarlyCopies(world) = 0
    <3>1. {c \in Claims : world.claims[c].early.done} = {}
      BY <2>1 DEF NotDeployed, NoEarly
    <3> QED BY <3>1, FS_EmptySet DEF EarlyCopies
  <2> QED BY <2>1, <2>2, <2>3 DEF Promise!Init
<1>2. ASSUME TypeOK, IInv, [Next]_vars, TypeOK', IInv'
      PROVE  [Promise!Transaction]_(Promise!vars)
  <2>1. Committed \in World /\ Books(Committed)
    BY <1>2, CommittedLevel DEF Sound
  <2>2. Committed' \in World /\ Books(Committed')
    <3>1. (TypeOK /\ IInv => Committed \in World /\ Books(Committed))'
      BY CommittedLevel, PTL DEF Sound
    <3> QED BY <1>2, <3>1
  <2>3. Grown(Committed, Committed')
    BY <1>2, Inductive DEF Preserved
  <2>4. PICK v : v = Committed
    OBVIOUS
  <2>5. PICK w : w = Committed'
    OBVIOUS
  <2>6. TransactionOf(v, w)
    BY <2>1, <2>2, <2>3, <2>4, <2>5, GrowthIsTransaction
  <2>7. \A S : Promise!Cardinality(S) = Cardinality(S)
    BY Zenon DEF Promise!Cardinality, Cardinality
  <2>8. \A f : Promise!Total(f) = Total(f)
    BY <2>7 DEF Promise!Total, Promise!Units, Total, Units
  <2>9. Promise!Transaction
    BY <2>4, <2>5, <2>6, <2>7, <2>8 DEF TransactionOf, Promise!Transaction
  <2> QED BY <2>9
<1> QED BY <1>1, <1>2, Invariance, PTL DEF Spec, PromiseKept, Promise!Spec
=============================================================================
