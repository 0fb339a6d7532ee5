----------------------------- MODULE ReleaseLaunch -----------------------------
(***************************************************************************)
(* A release on chain, from its first copy to its last claim: one edition  *)
(* (ReleaseEdition), its primary sale (PrimarySale) and the Genesis claim  *)
(* contracts deployed for it one after another (GenesisHolderClaim,        *)
(* GenesisHolderClaimRecovery, GenesisWeekendClaim), all minting the same  *)
(* token.                                                                  *)
(*                                                                         *)
(* Whoever receives copies or coins may be a contract, which runs before   *)
(* the call that reached it returns and may call any of these contracts.   *)
(* The state therefore has a stack of unfinished calls, innermost first.   *)
(* A call that is refused leaves the world as it was when the call began,  *)
(* calls made within it included.                                          *)
(*                                                                         *)
(* Left out: who may be issued a voucher and its nonces (GenesisClaim),    *)
(* the Merkle tree (Allowlist is the set it proves), admin and signer      *)
(* handover.  Two fields are history, stored by no contract: `direct`      *)
(* counts copies an issuer mints outside sale and claims, `opened` says    *)
(* that the early-access window opened while it was enabled.               *)
(***************************************************************************)
EXTENDS PrimarySale, Totals, Sequences

CONSTANTS
  SaleContract, Artist,  \* the issuers besides the claim contracts
  Nobody,                \* no early-access wallet (the zero address)
  EditionCap, MintEnd,   \* maxSupply and minting deadline of the edition
  InitialIssuers,
  NumClaims,             \* bound: claim contracts deployed
  Kinds,                 \* bound: kinds of claim contract considered
  AdminWork,             \* bound: what the administrators do, of "roles", "pauses", "early"
  Offers,                \* bound: terms the artist may configure
  Quantities,            \* bound: copies per purchase or direct mint
  Sizes,                 \* bound: copies per transfer
  Allocations,           \* bound: claim allocations, 0 = uncapped
  ClaimWindow,           \* seconds a claim is open
  Delays,                \* bound: seconds until a recovery opens or a weekend claim's deadline
  Allowlist,             \* wallets in the weekend snapshot
  MaxCopies,             \* bound: copies ever minted
  MaxTime,               \* bound: last timestamp
  MaxDepth               \* bound: nested calls

Claims == 1..NumClaims

ASSUME LaunchAssumption ==
  /\ IsFiniteSet(Accounts) /\ Nobody \notin Accounts
  /\ Allowlist \subseteq Accounts
  /\ NumClaims \in Nat /\ Issuers = Claims \cup {SaleContract, Artist}
  /\ InitialIssuers \subseteq Issuers
  /\ EditionCap \in Nat /\ MintEnd \in Nat
  /\ Kinds \subseteq {"holder", "recovery", "weekend"}
  /\ AdminWork \subseteq {"roles", "pauses", "early"}
  /\ Offers \subseteq Terms
  /\ Quantities \subseteq Nat \ {0} /\ Sizes \subseteq Nat
  /\ Allocations \subseteq Nat /\ ClaimWindow \in Nat \ {0} /\ Delays \subseteq Nat \ {0}
  /\ MaxCopies \in Nat /\ MaxTime \in Nat /\ MaxDepth \in Nat

VARIABLES
  world,  \* the storage of all the contracts
  stack,  \* unfinished calls, innermost first
  now     \* block time

vars == <<world, stack, now>>

-----------------------------------------------------------------------------
\* Claim contracts.

Early == [wallet : Accounts \cup {Nobody}, opens : Nat, closes : Nat,
          enabled : BOOLEAN, done : BOOLEAN, opened : BOOLEAN]

NoEarly == [wallet |-> Nobody, opens |-> 0, closes |-> 0,
            enabled |-> FALSE, done |-> FALSE, opened |-> FALSE]

(***************************************************************************)
(* `terms` are the sale terms bound at deployment, `supply` is             *)
(* claimedSupply, `prior` the claimants a recovery is seeded with,         *)
(* `claimed` those that claimed here, `deadline` activationDeadline.       *)
(***************************************************************************)
ClaimContract ==
  [kind : {"none", "holder", "recovery", "weekend"}, opens : Nat, closes : Nat,
   terms : Terms, allocation : Nat, baseline : Nat, supply : Nat,
   prior : SUBSET Accounts, claimed : SUBSET Accounts,
   paused : BOOLEAN, active : BOOLEAN, deadline : Nat, early : Early]

NotDeployed ==
  [kind |-> "none", opens |-> 0, closes |-> 0, terms |-> NoTerms,
   allocation |-> 0, baseline |-> 0, supply |-> 0, prior |-> {}, claimed |-> {},
   paused |-> FALSE, active |-> FALSE, deadline |-> 0, early |-> NoEarly]

World == [edition : Edition, sale : Sale, claims : [Claims -> ClaimContract], direct : Nat]

Init ==
  /\ world = [edition |-> NewEdition(EditionCap, MintEnd, InitialIssuers), sale |-> NewSale,
              claims |-> [c \in Claims |-> NotDeployed], direct |-> 0]
  /\ stack = <<>>
  /\ now = 0

Deployed(c) == world.claims[c].kind # "none"
NextClaim(c) == ~Deployed(c) /\ \A d \in 1..(c - 1) : Deployed(d)

HasClaimed(c, a) == a \in world.claims[c].prior \cup world.claims[c].claimed

\* Mutant: copies on nobody's books are tolerated.
AccountedLoosely(c) == world.edition.minted >= world.sale.sold + world.claims[c].supply

\* Every copy was minted by the sale or counted by contract c.
Accounted(c) == world.edition.minted = world.sale.sold + world.claims[c].supply

\* _assertPublicAllocation: the sale is still as bound, and the accounting holds.
AsScheduled(c) ==
  LET bound == world.claims[c].terms
      sale == world.sale.terms
  IN  /\ world.sale.configured
      /\ sale.max = bound.max /\ sale.price = bound.price
      /\ sale.start = bound.start /\ sale.end = bound.end
      /\ Accounted(c)

AllocationLeft(c) ==
  world.claims[c].allocation # 0 => world.claims[c].supply < world.claims[c].allocation

\* Calls in progress.
Call == {"purchase", "platform", "withdraw", "claim", "transfer", "issue"}
Frame == [call : Call, claim : Claims \cup {0}, cut : Nat, before : World]

InSale == \E i \in DOMAIN stack : stack[i].call \in {"purchase", "platform", "withdraw"}
InClaim(c) == \E i \in DOMAIN stack : stack[i].claim = c

\* The call has changed the world to w and runs the receiver's code.
Enter(call, c, cut, w) ==
  /\ Len(stack) < MaxDepth
  /\ w.edition.minted <= MaxCopies
  /\ stack' = <<[call |-> call, claim |-> c, cut |-> cut, before |-> world]>> \o stack
  /\ world' = w
  /\ UNCHANGED now

Write(w) == world' = w /\ UNCHANGED <<stack, now>>

-----------------------------------------------------------------------------
\* The sale.

ConfigureSale(t) ==
  /\ CanConfigure(world.sale, t, world.edition.maxSupply)
  /\ Write([world EXCEPT !.sale = Configured(@, t)])

Purchase(a, n) ==
  /\ ~InSale
  /\ CanBuy(world.sale, a, n, now)
  /\ CanMint(world.edition, SaleContract, n, now)
  /\ Enter("purchase", 0, PlatformCut(world.sale.terms.price * n),
           [world EXCEPT !.sale = Bought(@, a, n), !.edition = Minted(@, a, n)])

Withdraw ==
  /\ ~InSale
  /\ world.sale.owed # 0
  /\ Enter("withdraw", 0, 0, [world EXCEPT !.sale = Withdrawn(@)])

-----------------------------------------------------------------------------
\* The edition.

Transfer(from, to, n) ==
  /\ CanTransfer(world.edition, from, n)
  /\ Enter("transfer", 0, 0, [world EXCEPT !.edition = Transferred(@, from, to, n)])

IssueDirect(to, n) ==
  /\ CanMint(world.edition, Artist, n, now)
  /\ Enter("issue", 0, 0,
           [world EXCEPT !.edition = Minted(@, to, n), !.direct = @ + n])

GrantIssuer(i) == "roles" \in AdminWork /\ Write([world EXCEPT !.edition.issuers = @ \cup {i}])
RevokeIssuer(i) == "roles" \in AdminWork /\ Write([world EXCEPT !.edition.issuers = @ \ {i}])
PauseRelease(p) == "pauses" \in AdminWork /\ Write([world EXCEPT !.edition.paused = p])

-----------------------------------------------------------------------------
\* Deploying claim contracts.  The transaction is nobody's callback.

Deploy(c, contract) ==
  /\ stack = <<>>
  /\ NextClaim(c)
  /\ Write([world EXCEPT !.claims[c] = contract])

\* Mutant: the sale's cap may overlap the claim allocation.
DeployHolderOverlapping(c, allocation) ==
  LET sale == world.sale.terms
      contract == [NotDeployed EXCEPT !.kind = "holder", !.active = TRUE, !.terms = sale,
                                      !.opens = sale.start, !.closes = sale.start + ClaimWindow,
                                      !.allocation = allocation]
  IN  /\ "holder" \in Kinds
      /\ world.sale.configured
      /\ sale.start + ClaimWindow <= sale.end
      /\ EditionCap # 0 => allocation \in 1..EditionCap /\ sale.max <= EditionCap
      /\ world.edition.minted = world.sale.sold
      /\ Deploy(c, contract)

\* The constructor's last check, _assertPublicAllocation, binds the current terms.
DeployHolder(c, allocation) ==
  LET sale == world.sale.terms
      contract == [NotDeployed EXCEPT !.kind = "holder", !.active = TRUE, !.terms = sale,
                                      !.opens = sale.start, !.closes = sale.start + ClaimWindow,
                                      !.allocation = allocation]
  IN  /\ "holder" \in Kinds
      /\ world.sale.configured
      /\ sale.start + ClaimWindow <= sale.end
      /\ EditionCap # 0 => /\ allocation \in 1..EditionCap
                           /\ sale.max <= EditionCap - allocation
      /\ world.edition.minted = world.sale.sold
      /\ Deploy(c, contract)

\* Mutant: the contract is deployed without seeding the earlier claimants.
DeployRecoveryUnseeded(c, allocation, delay, prior) ==
  LET sale == world.sale.terms
      contract == [NotDeployed EXCEPT !.kind = "recovery", !.active = TRUE, !.terms = sale,
                                      !.opens = now + delay, !.closes = now + delay + ClaimWindow,
                                      !.allocation = allocation, !.baseline = Cardinality(prior),
                                      !.supply = Cardinality(prior)]
  IN  /\ "recovery" \in Kinds
      /\ world.sale.configured /\ sale.start <= sale.end
      /\ allocation # 0 => Cardinality(prior) <= allocation
      /\ world.edition.minted = world.sale.sold + Cardinality(prior)
      /\ \A d \in Claims, a \in Accounts : HasClaimed(d, a) => a \in prior
      /\ Deploy(c, contract)

(***************************************************************************)
(* The operator lists the wallets that claimed; the constructor only       *)
(* checks that they are distinct and as many as the copies not sold.       *)
(***************************************************************************)
DeployRecovery(c, allocation, delay, prior) ==
  LET sale == world.sale.terms
      contract == [NotDeployed EXCEPT !.kind = "recovery", !.active = TRUE, !.terms = sale,
                                      !.opens = now + delay, !.closes = now + delay + ClaimWindow,
                                      !.allocation = allocation, !.baseline = Cardinality(prior),
                                      !.supply = Cardinality(prior), !.prior = prior]
  IN  /\ "recovery" \in Kinds
      /\ world.sale.configured /\ sale.start <= sale.end
      /\ allocation # 0 => Cardinality(prior) <= allocation
      /\ world.edition.minted = world.sale.sold + Cardinality(prior)
      /\ \A d \in Claims, a \in Accounts : HasClaimed(d, a) => a \in prior
      /\ Deploy(c, contract)

\* The last earlier contract's claimedSupply is the baseline.
DeployWeekend(c, delay) ==
  LET sale == world.sale.terms
      historical == world.claims[c - 1].supply
      contract == [NotDeployed EXCEPT !.kind = "weekend", !.paused = TRUE, !.terms = sale,
                                      !.deadline = now + delay,
                                      !.baseline = historical, !.supply = historical]
  IN  /\ "weekend" \in Kinds
      /\ c > 1
      /\ world.sale.configured
      /\ world.edition.minted = world.sale.sold + historical
      /\ sale.end # 0 => now + delay + ClaimWindow <= sale.end
      /\ Deploy(c, contract)

-----------------------------------------------------------------------------
\* Claims.

Activate(c) ==
  LET sale == world.sale.terms
  IN  /\ world.claims[c].kind = "weekend" /\ ~world.claims[c].active
      /\ now <= world.claims[c].deadline
      /\ sale.end # 0 => now + ClaimWindow <= sale.end
      /\ Accounted(c)
      /\ Write([world EXCEPT !.claims[c] = [@ EXCEPT !.active = TRUE, !.paused = FALSE,
                                               !.opens = now, !.closes = now + ClaimWindow]])

PauseClaim(c) ==
  /\ "pauses" \in AdminWork
  /\ Deployed(c) /\ world.claims[c].active
  /\ Write([world EXCEPT !.claims[c].paused = TRUE])

UnpauseClaim(c) ==
  /\ "pauses" \in AdminWork
  /\ Deployed(c) /\ world.claims[c].active
  /\ world.claims[c].kind = "weekend" => now < world.claims[c].closes
  /\ Write([world EXCEPT !.claims[c].paused = FALSE])

Open(c) ==
  LET k == world.claims[c]
  IN  Deployed(c) /\ k.active /\ ~k.paused /\ k.opens <= now /\ now < k.closes

\* Mutant: only the contract's own record is asked for an earlier claim.
MayClaimAlone(c, a) ==
  /\ ~HasClaimed(c, a)
  /\ IF world.claims[c].kind = "weekend"
     THEN /\ a \in Allowlist
          /\ Accounted(c)
          /\ world.claims[c].supply < world.claims[c].baseline + Cardinality(Allowlist)
     ELSE AllocationLeft(c) /\ AsScheduled(c)

(***************************************************************************)
(* The checks of claim: the weekend claim asks every earlier contract, the *)
(* others compare the sale with what they were bound to.                   *)
(***************************************************************************)
MayClaim(c, a) ==
  /\ ~HasClaimed(c, a)
  /\ IF world.claims[c].kind = "weekend"
     THEN /\ \A d \in 1..(c - 1) : ~HasClaimed(d, a)
          /\ a \in Allowlist
          /\ Accounted(c)
          /\ world.claims[c].supply < world.claims[c].baseline + Cardinality(Allowlist)
     ELSE AllocationLeft(c) /\ AsScheduled(c)

Claim(c, a) ==
  /\ ~InClaim(c)
  /\ Open(c) /\ MayClaim(c, a)
  /\ CanMint(world.edition, c, 1, now)
  /\ Enter("claim", c, 0,
           [world EXCEPT !.claims[c].claimed = @ \cup {a}, !.claims[c].supply = @ + 1,
                         !.edition = Minted(@, a, 1)])

ConfigureEarlyAccess(c, a, opens, closes) ==
  LET early == world.claims[c].early
  IN  /\ "early" \in AdminWork
      /\ world.claims[c].kind = "holder"
      /\ ~early.done /\ ~(early.enabled /\ early.opens <= now)
      /\ now < opens /\ opens < closes /\ closes <= world.claims[c].opens
      /\ Write([world EXCEPT !.claims[c].early =
                  [@ EXCEPT !.wallet = a, !.opens = opens, !.closes = closes, !.enabled = TRUE]])

DisableEarlyAccess(c) ==
  /\ world.claims[c].kind = "holder"
  /\ Write([world EXCEPT !.claims[c].early.enabled = FALSE])

EarlyAccessMint(c) ==
  LET early == world.claims[c].early
  IN  /\ ~InClaim(c)
      /\ world.claims[c].kind = "holder" /\ ~world.claims[c].paused
      /\ early.enabled /\ early.opens <= now /\ now < early.closes /\ ~early.done
      /\ AllocationLeft(c) /\ AsScheduled(c)
      /\ CanMint(world.edition, c, 1, now)
      /\ Enter("claim", c, 0,
               [world EXCEPT !.claims[c].early.done = TRUE, !.claims[c].supply = @ + 1,
                             !.edition = Minted(@, early.wallet, 1)])

-----------------------------------------------------------------------------
\* The receiver's code ends.

Top == Head(stack)
Pop == stack' = Tail(stack) /\ UNCHANGED now

\* The copies were accepted: a purchase goes on to pay the platform, if anything is due.
PayPlatform ==
  /\ stack # <<>>
  /\ Top.call = "purchase" /\ Top.cut # 0
  /\ world' = [world EXCEPT !.sale = PlatformPaid(@, Top.cut)]
  /\ stack' = <<[Top EXCEPT !.call = "platform"]>> \o Tail(stack)
  /\ UNCHANGED now

\* A weekend claim re-checks the accounting before it returns.
Accept ==
  /\ stack # <<>>
  /\ ~(Top.call = "purchase" /\ Top.cut # 0)
  /\ Top.call = "claim" /\ world.claims[Top.claim].kind = "weekend" => Accounted(Top.claim)
  /\ UNCHANGED world
  /\ Pop

\* Mutant: the caller carries on after a failed mint; only the mint is undone.
RefuseCaught ==
  /\ stack # <<>>
  /\ world' = [world EXCEPT !.edition = Top.before.edition]
  /\ Pop

\* The receiver, or the check after it, fails: the call is undone.
Refuse ==
  /\ stack # <<>>
  /\ world' = Top.before
  /\ Pop

Tick ==
  /\ stack = <<>>
  /\ now < MaxTime
  /\ now' = now + 1
  /\ world' = [world EXCEPT !.claims = [c \in Claims |->
                 [world.claims[c] EXCEPT
                   !.early.opened = @ \/ (world.claims[c].early.enabled
                                          /\ world.claims[c].early.opens = now + 1)]]]
  /\ UNCHANGED stack

Next ==
  \/ \E t \in Offers : ConfigureSale(t)
  \/ \E a \in Accounts, n \in Quantities : Purchase(a, n) \/ IssueDirect(a, n)
  \/ Withdraw
  \/ \E a, b \in Accounts, n \in Sizes : Transfer(a, b, n)
  \/ \E i \in Issuers : GrantIssuer(i) \/ RevokeIssuer(i)
  \/ \E p \in BOOLEAN : PauseRelease(p)
  \/ \E c \in Claims, m \in Allocations :
       \/ DeployHolder(c, m)
       \/ \E d \in Delays, prior \in SUBSET Accounts : DeployRecovery(c, m, d, prior)
  \/ \E c \in Claims, d \in Delays : DeployWeekend(c, d)
  \/ \E c \in Claims : \/ Activate(c) \/ PauseClaim(c) \/ UnpauseClaim(c)
                       \/ DisableEarlyAccess(c) \/ EarlyAccessMint(c)
  \/ \E c \in Claims, a \in Accounts : Claim(c, a)
  \/ \E c \in Claims, a \in Accounts, opens, closes \in 0..MaxTime :
       ConfigureEarlyAccess(c, a, opens, closes)
  \/ PayPlatform \/ Accept \/ Refuse
  \/ Tick

Spec == Init /\ [][Next]_vars

-----------------------------------------------------------------------------
\* Properties.

TypeOK ==
  /\ world \in World
  /\ stack \in Seq(Frame)
  /\ now \in 0..MaxTime

\* Copies claimed through each contract itself, early access included.
Through(w) == [c \in Claims |-> w.claims[c].supply - w.claims[c].baseline]
MintedBy(c) == Through(world)[c]

\* Who ever claimed, and the copies minted for early access.
Claimants(w) == UNION {w.claims[c].claimed : c \in Claims}
EarlyCopies(w) == Cardinality({c \in Claims : w.claims[c].early.done})

(***************************************************************************)
(* Every copy is on one contract's books: sold, claimed through one claim  *)
(* contract, or minted directly.  It holds inside every callback, and a    *)
(* refused delivery takes the copies and the books back together.          *)
(***************************************************************************)
SupplyAccounted ==
  world.edition.minted =
    world.sale.sold + world.direct + Total(Through(world))

\* mintedSupply is what the holders hold, whatever was transferred between callbacks.
HoldersMatchSupply == world.edition.minted = Total(world.edition.balance)

\* The storage when the i-th innermost call began; level 0 is the storage now.
Levels == 0..Len(stack)
Level(i) == IF i = 0 THEN world ELSE stack[i].before

\* The sale's coins at level i: the artist's, and the cut of the purchase in progress there.
Balanced(i) ==
  LET sale == Level(i).sale
      purchases == {j \in DOMAIN stack : j > i /\ stack[j].call = "purchase"}
  IN  /\ purchases = {} => sale.cash = sale.owed
      /\ \A j \in purchases : sale.cash = sale.owed + stack[j].cut

(***************************************************************************)
(* The sale contract holds what it owes the artist and the platform's cut  *)
(* of a purchase in progress, to the coin: a withdrawal, a refused         *)
(* delivery or a change of price in between neither strands nor borrows.   *)
(***************************************************************************)
Solvent == Balanced(0)

\* The sale never passes its cap, also when the cap is lowered while copies are delivered.
SoldWithinCap == world.sale.terms.max # 0 => world.sale.sold <= world.sale.terms.max

(***************************************************************************)
(* Claims and sale of a capped edition do not starve each other: while the *)
(* sale is the one a holder claim was bound to, the cap still has room for *)
(* every copy the sale may sell and every copy the claim may mint.         *)
(***************************************************************************)
NeitherStarves ==
  \A c \in Claims :
    EditionCap # 0 /\ world.claims[c].kind = "holder" /\ AsScheduled(c) =>
      /\ world.claims[c].supply <= world.claims[c].allocation
      /\ (world.sale.terms.max - world.sale.sold)
           + (world.claims[c].allocation - world.claims[c].supply)
         <= EditionCap - world.edition.minted

(***************************************************************************)
(* One free copy per wallet over all claim contracts ever deployed, also   *)
(* when an old contract is left live, claims are nested in callbacks, or   *)
(* a claim was undone.                                                     *)
(***************************************************************************)
FreeOnce ==
  \A c, d \in Claims : c # d => world.claims[c].claimed \cap world.claims[d].claimed = {}

(***************************************************************************)
(* Only one claim contract is ever live: once a contract has minted on top *)
(* of its baseline, no contract deployed before that mint mints again.     *)
(***************************************************************************)
SupersededNeverMints ==
  [][\A c, d \in Claims :
       Deployed(c) /\ MintedBy(c) # 0 /\ Deployed(d) /\ d < c =>
         world'.claims[d].supply <= world.claims[d].supply]_world

(***************************************************************************)
(* "Once an enabled window has opened, or the mint happened, the           *)
(* configuration is locked: it can then only be disabled"                  *)
(* (configureEarlyAccess).                                                 *)
(***************************************************************************)
EarlyAccessLocked ==
  [][\A c \in Claims :
       world.claims[c].early.opened \/ world.claims[c].early.done =>
         LET before == world.claims[c].early
             after == world'.claims[c].early
         IN  <<after.wallet, after.opens, after.closes>> =
               <<before.wallet, before.opens, before.closes>>]_world

-----------------------------------------------------------------------------
(***************************************************************************)
(* The inductive invariant behind the properties above and PromiseKept.    *)
(* What it says of the storage it says of every level, because a refused   *)
(* call brings its level back.                                             *)
(***************************************************************************)
\* Contract d can mint no more: copies not sold outnumber its own count for good.
LockedIn(w, d) == w.sale.sold + w.claims[d].supply < w.edition.minted

HasMinted(k) == k.supply > k.baseline

\* Each contract counts copies that exist, and claims that are its own.
CountsSound(w) ==
  \A c \in Claims :
    LET k == w.claims[c]
    IN  /\ k.kind = "none" =>
             k.supply = 0 /\ k.claimed = {} /\ \A d \in Claims : d > c => w.claims[d].kind = "none"
        /\ k.baseline <= k.supply
        /\ w.sale.sold + k.supply <= w.edition.minted
        /\ k.claimed # {} => HasMinted(k)

(***************************************************************************)
(* Once contract c minted, an earlier contract is locked, and every other  *)
(* one is locked or knows who claimed from c.                              *)
(***************************************************************************)
OthersYield(w) ==
  \A c, d \in Claims :
    LET k == w.claims[c]
        other == w.claims[d]
    IN  c # d /\ other.kind # "none" /\ HasMinted(k) =>
          \/ LockedIn(w, d)
          \/ /\ c < d
             /\ k.claimed \subseteq other.prior \/ other.kind = "weekend"

FreeOnceIn(w) ==
  \A c, d \in Claims : c # d => w.claims[c].claimed \cap w.claims[d].claimed = {}

\* A holder claim's allocation and the sale it was bound to fit the edition.
HolderFits(w) ==
  \A c \in Claims :
    LET k == w.claims[c]
    IN  EditionCap # 0 /\ k.kind = "holder" =>
          k.allocation # 0 /\ k.supply <= k.allocation /\ k.terms.max + k.allocation <= EditionCap

CapKept(w) == w.sale.terms.max # 0 => w.sale.sold <= w.sale.terms.max

\* Every copy is held, and was sold, claimed, minted for early access or minted directly.
Books(w) ==
  /\ w.edition.minted = Total(w.edition.balance) /\ w.sale.sold = Total(w.sale.bought)
  /\ w.edition.minted = w.sale.sold + w.direct + Total(Through(w))
  /\ w.edition.minted = w.sale.sold + w.direct + EarlyCopies(w) + Cardinality(Claimants(w))
  /\ w.edition.maxSupply = EditionCap /\ (EditionCap # 0 => w.edition.minted <= EditionCap)
  /\ \A c \in Claims : LET k == w.claims[c] IN
       (k.kind = "none" => ~k.early.done) /\ (k.early.enabled => k.early.wallet \in Accounts)

Sound(w) == CountsSound(w) /\ OthersYield(w) /\ FreeOnceIn(w) /\ HolderFits(w) /\ CapKept(w) /\ Books(w)

\* What is written within a call is only ever more: what was bought, claimed or minted before stays.
Grown(v, w) ==
  /\ v.direct <= w.direct /\ \A a \in Accounts : v.sale.bought[a] <= w.sale.bought[a]
  /\ \A c \in Claims : /\ v.claims[c].supply <= w.claims[c].supply
                       /\ v.claims[c].claimed \subseteq w.claims[c].claimed
                       /\ v.claims[c].early.done => w.claims[c].early.done

SaleCalls == {"purchase", "platform", "withdraw"}

IInv ==
  /\ \A i, j \in DOMAIN stack : stack[i].call \in SaleCalls /\ stack[j].call \in SaleCalls => i = j
  /\ \A i \in Levels : Balanced(i) /\ Sound(Level(i))
  /\ \A i, j \in Levels : i <= j => Grown(Level(j), Level(i))

-----------------------------------------------------------------------------
\* What is committed: a transaction counts when its outermost call returns.
Committed == IF stack = <<>> THEN world ELSE stack[Len(stack)].before

Promise == INSTANCE ReleasePromise WITH
  Wallets <- Accounts,
  Cap <- EditionCap,
  copies <- Committed.edition.minted,
  paid <- Committed.sale.bought,
  free <- Claimants(Committed),
  extra <- Committed.direct + EarlyCopies(Committed)

(***************************************************************************)
(* Every transaction, with all that callbacks did inside it, keeps the     *)
(* release's promise as one atomic step.                                   *)
(***************************************************************************)
PromiseKept == Promise!Spec
=============================================================================
