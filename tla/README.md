# The Void: a verification project

The Void sells and gives away music as ERC-1155 releases on Avalanche. Contracts
under `contracts/` hold the money and the copies; an API under `server/` issues
signed vouchers, indexes the chain, verifies artists and gates media; a web
frontend and a set of operator scripts drive both. This directory holds TLA+
models of the parts where money, scarce copies and promises to holders meet,
the TLC runs that check them, and TLAPS proofs of the results that matter most.

Paths below are relative to the repository root.

| file | what it is |
|---|---|
| `GenesisLedger.tla` | the used-unit ledger, pure operators (`server/genesis-claim-ledger.js`) |
| `GenesisClaim.tla` | the voucher service, its reservation table and lock, the claim contract, the Genesis collection |
| `GenesisClaimProofs.tla` | its type correctness, inductive invariant and safety theorems, with a theory of the replayed ledger; the outbox of `ReviewerAlert` |
| `GenesisScan.tla` | the transfer scan and its shared checkpoint (`server/genesis-claim.js`, `genesis-scan-checkpoint-store.js`) |
| `ReleaseEdition.tla` | one edition of a release token (`contracts/VoidCollection1155.sol`), pure operators |
| `PrimarySale.tla` | the sale of an edition (`contracts/VoidPrimarySaleSettled.sol`), pure operators |
| `ReleaseLaunch.tla` | edition + sale + all generations of claim contract, with reentrant callbacks |
| `ReleaseLaunchProofs.tla` | its type correctness, inductive invariant, safety theorems and refinement |
| `ReleasePromise.tla` | what a release promises, abstractly; `ReleaseLaunch` implements it |
| `Totals.tla` | the sum of a count, as the number of the units it counts |
| `Playback.tla` | the player and the wallet session it plays for (`src/lib/audio.js`, `src/lib/WalletContext.jsx`) |
| `WorkerLease.tla`, `RpcPacer.tla` | several indexer workers and their lease; the pacer of their calls (`server/indexer-worker.js`, `indexer-rpc.js`) |
| `Indexer.tla` | the worker that scans a release and its sale into the database (`server/indexer*.js`) |
| `Resale.tla` | the marketplace's listings, their mirror, and the two passes that write it |
| `Account.tla` | sign-in and the X connection (`server/auth.js`, `x-link.js`) |
| `VerificationDesk.tla`, `ReviewerAlert.tla` | artist applications, and the outbox that tells a reviewer (`server/verification-*.js`) |
| `Experiences.tla`, `Publication.tla` | the Studio: protected experiences and their locks; track numbers, metadata, confirmation (`server/studio-service.js`) |
| `MediaGate.tla` | grants for media, by indexed ownership (`server/media-gateway.js`, `ownership.js`) |
| `Marketplace.tla` | a resale on chain, with the callbacks inside it (`contracts/VoidUnifiedMarketplace.sol`) |
| `AlbumRelease.tla` | numbers and albums of a sequential release (`contracts/VoidRelease1155V6Sequential.sol`) |
| `AlbumReleaseProofs.tla` | its invariant and its action property, proved; that every component of `MCRequests` keeps its invariant |
| `AccessProofs.tla` | proofs about `Account`, `VerificationDesk`, `MediaGate`, `WeekendConfig`, `Playback` |
| `StudioProofs.tla` | proofs about `Experiences`, `Publication`, `Provenance` |
| `IndexerProofs.tla` | the inductive invariant of `Indexer` and its three safety theorems |
| `WorkerProofs.tla` | proofs about `WorkerLease`, `RpcPacer`, `GenesisScan` |
| `MarketProofs.tla` | proofs about `Marketplace`, `Resale` |
| `Provenance.tla` | proof rows and the transactions they name (`server/provenance-*.js`, `contracts/VoidProvenanceAnchor.sol`) |
| `WeekendConfig.tla` | what the API says of the weekend claim between reads of it (`server/genesis-weekend-claim.js`) |
| `MC*.tla`, `*.cfg` | their instances |

## 1. Inventory

### Contracts

**Release tokens** (`VoidCollection1155.sol`, `VoidRelease1155V4`, `V5`, `V6Sequential`, older `V1`-`V3`).
State: per token ID an edition (`maxSupply`, `mintedSupply`, `mintDeadline`), balances,
approvals, roles ADMIN/ARTIST/ISSUER, pause. Operations: createEdition, mint, mintBatch,
transfers, role changes, pause, transferOwnership; V6 adds sequential IDs and album limits.
Every mint and transfer calls the receiver *after* the effects. Hard: re-entry at that call,
role changes at any moment. Right when: balances add up to `mintedSupply`, which never
exceeds the cap, whatever the receivers do.

**Primary sale** (`VoidPrimarySaleSettled.sol`, older `V1`, `V2`).
State: terms per token, `sold`, `walletPurchased`, the artist's withdrawable balance.
Operations: configureSale (may replace the terms at any time), purchase (effects, mint with
callback, push of the platform's cut), withdraw. Hard: three external calls, a change of
terms between purchases or within one. Right when: the contract is solvent to the coin, and
sells no more than its cap.

**Genesis claims on chain** (`GenesisHolderClaim.sol`, `GenesisHolderClaimRecovery.sol`,
`GenesisWeekendClaim.sol`). State: the sale terms bound at deployment, claimed wallets, used
nonces, `claimedSupply`, window, pause, early access. Operations: claim, activate, pause,
early access. They interact with sale and token by *reading* them: a claim is refused unless
`mintedSupply = sold + claimedSupply`. Hard: contracts of three generations are live side by
side and share no state but that equation. Right when: one free copy per wallet over all of
them, and a superseded contract stays dead.

**Marketplaces** (`VoidUnifiedMarketplace.sol`, `ReleaseMarketplaceV3/V4`, `MusicMarketplace(V2)`,
`LegacyCollectionMarketplace.sol`). State: listings (status, amount left); the older ones also
credits. Hard: partial buys that call the buyer, the platform, the artist and the seller in
turn. Right when: copies and coins of every sale add up, no listing sells more than listed.

**Factories, `VoidProvenanceAnchor`, `VoidRoleGranter`, `RabbySigningProbe`.** Deploy and
initialise, write a root once, forward role changes.

### Server

**Genesis claim service** (`genesis-claim.js`, `genesis-claim-ledger.js`,
`genesis-claim-store.js`, script `reconcile-genesis-reservations.mjs`). State: table
`genesis_claim_reservations`, one row per contract and wallet. Operations: issue a voucher,
return the standing one, settle rows from the chain, reconcile. Runs as several instances
that share a PostgreSQL advisory lock; within the lock it awaits many chain reads on two
chains. Hard: units are fungible and resold; reads lag; the response can be lost after
COMMIT; the wallet redeems whenever it likes; the contract may be replaced. Right when: a
unit backs at most one free claim; a voucher that can still be redeemed keeps its unit
reserved; every row is settled as the chain did.

**Transfer scan and checkpoint** (`genesis-claim.js:766-1052`,
`genesis-scan-checkpoint-store.js`). State: scanned logs up to an end block, its hash, older
anchors, shared by compare-and-set. Hard: reorgs between two reads, two instances extending
at once, a tail of unconfirmed blocks, joined scans. Right when: the history a caller gets
is that of one canonical chain.

**Weekend claim service** (`genesis-weekend-*.js`): snapshot and Merkle proofs, and a cache of
the claim contract's configuration with one read in flight, an end once observed and a latch
"never activated". Hard: a read takes a while, may see an old block, and its outcome is used
later. Right when: nobody is told that an open window is closed, or a closed one open.

**Indexer** (`indexer*.js`, `marketplace-events.js`). State: checkpoint per contract, event
rows, derived listings and balances; a lease with heartbeats, for one of several workers; a pacer
with two lanes through which every call to the node goes. Hard: crash between rows and checkpoint,
reorgs, partial chunks, a worker that outlives its lease. Right when: after it catches up, the
tables are those of the canonical chain, also when two workers overlap; the settlement of a sale
never starves the scan.

**Marketplace reconciliation**, **ownership checks**, **media gateway**: listing statuses
from events, balances for access, time-limited grants to files. Hard: staleness - a grant,
a balance or a checkpoint is used after it stopped being true.

**Wallet authentication** (`auth.js`, `wallet-auth.js`), **X linking** (`x-link.js`):
challenge, one-time nonce, session; attempts with one-time state. Hard: two requests with
the same nonce, a crash between consume and session. Right when: a signed challenge opens
one session, and whoever is connected to a wallet approved an attempt of that wallet.

**Studio and publication** (`studio-service.js`, `studio-publication.js`,
`primary-sale-state.js`, `publication-anchor.js`, `contract-owner-verification.js`): drafts,
token-ID reservation, publication attempts, confirmation, protected experiences. Hard: several
tabs, statements that are not one transaction, IDs the contract assigns, locks taken in
several orders. Right when: a track has one number and what is published is what the chain
holds; a protected file belongs to one edition; no two requests wait for each other. **Provenance** (`provenance-*.js`): one row
per manifest, moved by submit, confirm, retry and the confirmation of a publication. Hard: each
inspects the chain between reading the row and writing it. Right when: a verified row stays, and
names the transaction that committed its root.

**Artist verification** (`verification-service.js`, `verification-notifier.js`, `x-dm.js`):
applications with a status machine, a work queue of messages. Hard: concurrent reviewers, a
crash while a message is being sent, a late answer after a timeout. Right when: a wallet has
one live application, and its reviewer is told once.

**Frontend** (`src/`). The part with state of its own is the shared player (`src/lib/audio.js`:
queue, source of the audio element, grants, requests for them) and the wallet session
(`src/lib/WalletContext.jsx`). Hard: a grant answers after the visitor has gone to another track,
account or queue; a signature arrives after the account has changed. Right when: what sounds is
the track shown, and no grant of another wallet is used. The rest are pages and forms.

**API server, configuration, migrations**; **scripts and deployments**;
**`artist-verification/`**, a separate application. See `PROJECT.json` for the reason each is
left out.

## 2. The Genesis claim: `GenesisLedger`, `GenesisClaim`

A holder of a Genesis unit may mint one free copy. The service signs a voucher after
checking that the wallet holds a unit that has not backed a claim. Units have no identity:
the service replays all transfers and its own issuances and lets *used* units travel first
(`ReplayUsedUnits`).

State and code:

| variable | code |
|---|---|
| `history` | Genesis `TransferSingle` logs, one per block |
| `now` | destination-chain block time |
| `live`, `claimedAt`, `minted`, `usedNonces` | configured claim contract; `hasClaimed`, release `mintedSupply - sold`, `usedNonce` of each contract |
| `rows`, `signed` | the reservation table; fresh nonces drawn so far |
| `vouchers` | responses that reached a wallet (a lost one is in `rows` only) |
| `lock`, `sess` | `pg_advisory_xact_lock`; the local variables of the request each instance is serving |

`claimedAt` is a time rather than a flag so that a read that lags by up to `ReadLag` can be
answered truthfully: `hasClaimed` as of `t` is `claimedAt[c][w] <= t`.

One action per stretch of code between two awaits: `BeginIssue`/`BeginReconcile` take the lock
and list the rows; `ReadClock`; `Settle` one row per `hasClaimed` read; then `ReturnOwn`
(the standing voucher again), or `ReadClaimState` and `Issue`. `Abort` is every refusal and
every failure, at any step: the transaction rolls back. The chain moves between any two of
them: `Claim`, `Transfer`, `Tick`, `DeployRecovery`.

Properties:

* `UnitBacksOneClaim` - per token ID, wallets with a redeemed or redeemable voucher never
  outnumber the units that ever existed. This is the promise the code comments make.
* `StandingVoucherReserved` - the row of such a voucher still carries its nonce and is not
  released. `SettledTruthfully` - REDEEMED and EXPIRED say what happened on chain.
* `LedgerNeverThrows` - the ledger's fail-closed check (used > balance) never refuses anyone
  when the history is complete.
* `UnitsBackOneClaim` joins the first and the last of these for the run with a recovery, up to
  the moment the recovery happens.
* `SettlementIsFinal`, `OneClaimPerWallet` (across a recovery), and under fairness
  `LockReleased`, `PendingSettles`.
* `ClaimsWithinUnits` is refuted, see Findings.

Worth knowing: between a voucher's deadline and deadline + 120 s the row still counts, so a
wallet that asks again gets the voucher that has already expired (`ReturnOwn`), as the
comment at `server/genesis-claim.js:1196` intends.

Left out: signatures and EIP-712 encoding (a voucher in `vouchers` is validly signed), the
scan before the lock and the binding check (they only refuse), admin pause of the claim
contract (it only stops claims), RPC retries (a read answers or the request aborts).

## 3. A release on chain: `ReleaseEdition`, `PrimarySale`, `ReleaseLaunch`, `ReleasePromise`

`ReleaseEdition` and `PrimarySale` give each function's checks (`CanMint`, `CanBuy`, ...) and
effects (`Minted`, `Bought`, ...) on a record of storage. `ReleaseLaunch` composes them with
the claim contracts into `world`, and models the EVM's calls with `stack`: an entry point
does its effects and pushes a frame (`Enter`), the receiver's code is then *any* sequence of
entry points by anybody, and the frame ends by `Accept`, by `PayPlatform` (the purchase goes
on to its second external call) or by `Refuse`, which restores the storage as it was when
the call began, inner calls included. Time and deployments happen only between transactions.
Reentrancy guards are `InSale` and `InClaim(c)`.

Claim contracts are records with their kind; `DeployHolder`, `DeployRecovery`,
`DeployWeekend` are the constructors. `DeployRecovery`'s list of earlier claimants is the
operator's (a fixed list in `scripts/deploy-genesis-claim-recovery.mjs:265-268`): the
contract checks only that the addresses are distinct and as many as the unsold copies, and
the model takes any list that includes the wallets that claimed.

History variables `direct` and `early.opened` are read by no action's guard.

Properties: `SupplyAccounted`, `HoldersMatchSupply`, `Solvent`, `SoldWithinCap`,
`NeitherStarves`, `FreeOnce`, `SupersededNeverMints`. `PromiseKept` is the refinement: with
the committed world (the storage under the outermost call) mapped to
copies/paid/free/extra, every step is a step of `ReleasePromise` or a stutter, so every
transaction, with all its callbacks, is one atomic step that adds exactly the copies that
were paid for, claimed or accounted for by the artist.

Left out: several token IDs (section 10 has the numbering and album rules of V6), approvals,
royalties, metadata, handover of admin and signer. A voucher is abstracted to "anyone may hold one" - `GenesisClaim`
says who can; the weekend Merkle tree is the set `Allowlist`.

## 4. The history a claim rests on: `GenesisScan`

Each API instance keeps a verified history (`mem`), believes something of the shared row
(`base`, the `persistedBase` of `syncPersisted`), serves a queue of scans of which the last can
be joined (`queue`), and runs one (`run`). A block is its number and the fork that mined it, so
`hash` is a fork and the logs read for a block are the fork they were read on. Steps are the
RPC calls and statements: head, block hash, checkpoint read, chunk of logs, end hash,
compare-and-set. Every one may fail, instances may crash, and the chain reorganises in between.

`ScanSound` is both of:

* `CheckpointTrustworthy` - what makes resuming sound: if the block a history or one of its
  anchors ends with is canonical, so is every log below it. It is asked of the row, of every
  process and of every scan under way.
* `CompleteAnswers` - a request gets every block it asked for, up to its own newest issuance,
  canonical down to the confirmation depth, although another request's scan read them.

A reorganisation deeper than `Confirmations` happens only while no scan is between its checks
(`DeepMidScan = FALSE`); with `TRUE` the first property fails, see section 13. `ScanSound` is
proved for any number of instances, requests, blocks, forks and anchors and any lag of the head
read (section 12); the run has one anchor and no lag.

## 5. From the chain to the tables: `Indexer`, `WorkerLease`, `RpcPacer`, `Resale`

`Indexer` is one worker with the contracts of one chain: `BeginRebuild`, `Derive`, `Replay` (a
rebuild in its two transactions), `ReadTip`, `Verify` and `Admit` (per contract: compare the
recorded blocks with the chain, rewind at a difference), `FetchLogs`, `FetchBlock`,
`ProcessLog` (one transaction), `RegressGroup` (a reorganisation seen during a chunk),
`Advance` (checkpoints and finalization), `FinishScan`. `Fail*` are the catch blocks, with the
partial chunk they persist; `Crash` is the process. Tables: `blocks`, `transfers`, `purchased`
and `purchases`, `snapshot`, `job`, `checkpoint`.

* `IndexTrue` - below a checkpoint nothing is missing (`IndexComplete`) and nothing is canonical
  that the chain dropped (`NoPhantom`), unless the next cycle will find it; `FinalizedStands`; `SnapshotMatches` -
  what media access reads is what the rows say, a sold copy counts once.
* `CatchesUp`, `RebuildDone` - liveness. A rebuild that fails is taken up again; one whose failure
  could not be recorded (`faults.unrecorded`) or that died is not, and `RebuildDone` sets both apart.
* `perils` and the counts of `faults` name the circumstances in which the code does not keep
  them: reorganisations of several contracts (finding 3), together with a fault, below every
  recorded block, or with a transaction mined again (section 13).

`WorkerLease` has several worker processes on one database: `Acquire`, `Heartbeat` at the start of
a cycle, at the pacer's waits and after each block, `Release`, `Die`; the rest of a cycle
(`MarkRunning` to `Advance`) writes without looking at the lease, so a worker that stalls past it
goes on beside its successor until it next reports. `RpcPacer` is `schedule` with its pump:
`Schedule` into a lane, `Reported`, `Wake`, and the ways a call ends, each of which sets the gate.

`WorkerKept`:

* `Exclusive` - of two workers in their cycles one has not had a heartbeat for longer than the
  lease; whatever they overwrite, no log and no purchase below the checkpoint is skipped, and a
  purchase is credited once unless a worker wrote without the lease or died rebuilding (`perils`).
* `Fair` - a waiting call of the scan is overtaken by at most `FairnessWindow` settlements, and no
  call of either lane is made sooner than the spacing allows after a success or a 429.

`Resale` is the marketplace as its logs tell it (`ListingAt`), the sequential pass
(`Scan*`: apply the log, read the listing at the log's block, overwrite the row) and the
settlement loop (`Settle*`: the same for logs of transactions the frontend reported, ahead of
the pass and beside it).

* `MirrorKept`: `MirrorTrue` - when the pass has caught up every row is the chain's, whoever wrote it last.
  `ScanProceeds` - the pass meets no log that it cannot project, except in the circumstances
  `perils` names. `SettlementHarmless`, which drops one of them, is what the loop's comment
  says and is refuted (finding 4).

## 6. Wallets and accounts: `Account`

Sign-in: `CreateChallenge`, `ReadChallenge` (row and signature), `ConsumeNonce` (the conditional
UPDATE), `CreateSession`. X: start, the approval at X, complete with its read, consumption,
exchange and save, disconnect. Requests interleave statement by statement and may die, and
clients send the same thing twice.

`AccountsProven`:

* `OneSessionPerNonce` - a signed challenge opens one session at most.
* `LinkProven` - whoever is connected approved an attempt this very wallet started.

## 7. Artist verification: `VerificationDesk`, `ReviewerAlert`

`VerificationDesk` has the requests of applicants and reviewers, read, check and write apart,
the status machine of `src/lib/verification.js`, and the unique index over live applications.
`OneLiveApplication`: racing submissions and decisions never leave a wallet two of them.

`ReviewerAlert` is the outbox: `NotifySubmitted`, `Sweep` (stale claims, missing rows),
`SweepDue`, `Claim`, `Send`, `Finish`, `Redeploy`. Time is the order in which a retry comes due,
a claim runs out while its message is still being sent, an hour and 72 hours pass.

* `NoDuplicateAlert` - at most one message, plus one per message X delivered and reported as
  failed. `OutcomesFinal` - a recorded outcome is never overwritten by a late one.
* `Alerted` - liveness: delivered or given up, through crashes and restarts.

## 8. The Studio: `Experiences`, `Publication`

`Experiences`: saving an experience takes the lock of its edition, then of its files in order,
reads the siblings and writes (`Create`, `Update`, `LockEdition`, `LockFile`, `Decide`, `Write`), with
the status `patchStatus` gave before the locks, an archived one as a draft again if asked; publication takes file locks, then the
row, and starts again when the row now needs another file; archiving takes only the row. Locks
have holders, so waiting is a state.

* In `StudioKept`: `FileInOneEdition`, `OnePrimary` - no file is unlocked by active experiences of two
  editions, and an edition has one primary; `NoWaitCycle` - among requests that wait, one waits for a request
  that does not: the lock orders of all paths agree.

`Publication`: the tracks of a sequential release. `CreateRead`, `CreateLock`, `CreateCommit`
(the release row locked FOR UPDATE, the next number reserved), saving and freezing metadata,
sending, recording the attempt, verifying the chain, and the three saves of a confirmation.

* Also in `StudioKept`: `OneNumberEach` - a saved track has exactly one number, also when it is posted
  twice at once; `PublishedAsCreated`, `Finishable` - a published track exists on chain under its
  stored URI, and a confirmation that stopped between its saves can be finished.
* `Overtake` and `Repost` allow two things the code does not exclude and which part what is stored
  from the chain (section 13): `PublishedAsCreated`, and of `Finishable` that the chain is not
  refused, are said without them (`Orderly`), everything else with them too. The run has both FALSE.

## 9. Access to media: `MediaGate`, `Playback`

Time is a set of ages: how long a wallet has not held the token, how long the experience has
been off the site, since when a grant is revoked, since when the index succeeded. The index is
the record ownership reads: owner, REORG_PENDING, rebuild job, checkpoint status; runs read the
chain, apply what they read in chunks, succeed or stop, and reorganisations hand the row to a
rebuild. `Load`, `AssertCheckpoint`, `VerifyOwner`, `IssueGrant` are the awaits of `issueGrant`;
`ReadGrant`, `Serve` those of `openMedia`.

`AccessEndsInTime`: whoever is served held the token less than `HolderWindow` ago, the experience
was on the site less than `ExperienceWindow` ago, and the grant was not revoked before the
request began. The first is said unless `Overwrites`, by which a transfer read again hides a loss
(section 13). The windows are the sums of the configured limits and of two the code does not
have: `RunTime` (how long an indexer run lasts, and how far back a reorganisation reaches) and
`Patience` (how long a request lasts). They are tight: one tick less is violated. The property
says what the configuration buys; it does not say the code bounds a run.

`Playback` is the other end, in the browser. `Play`, `Select`, `Resume`, `Unlock` are the visitor's
clicks; `Granted`, `UnlockGranted`, `Denied`, `Expire`, `Break` what the gateway and the audio
element answer; `Connect`, `ChangeAccount`, `ChangeChain`, `LoseAccount`, `Disconnect`, `SignedIn`,
`SignInFails`, `SetOwnership` the wallet. The provider's listeners stay wired after it reported no
account (`wallet.wired`), so another chain or account may still be reported then. A request
carries the tasks that await it (`tasks`): a new track or a new wallet
empties them (the code's `generation`), a new wallet also takes the request off the shared ones
(`authEpoch`).

`PlaybackKept`:

* `SourceOfTrack` - the element never holds a source of another track than the one shown.
* `GrantsOfSession` - of the grants the player asked for it keeps those of the wallet authorized now.
* `Relocked` - once there is no account and the player was told, no stream it asked for is left,
  whatever was asked, granted, renewed or signed before. Set apart (`wallet.late`): a sign-in that
  outlived the account and was taken since (section 13).

The last two are not asked of grants a page asked for itself (section 13).

## 10. Resales, albums, proofs of provenance, the weekend claim

`Marketplace`: `CreateListing`, `CancelListing`, `ExpireListing`; `Buy` reduces the listing,
moves the copies and calls the buyer; `Pay` is one call's return and the next payment; `Settle`
the return of the sale. Between a call and its return anybody may do anything but buy (the
reentrancy guard covers only `buy`), tokens and approvals included. `Revert` undoes the sale and
all that was done inside it.

* `SalesSettle` - between sales the contract holds no coin; the three payments of a listing add
  up to the price of the copies delivered, at least 95% of it the seller's; copies sold and left
  add up to what was listed; a listing ended once, as SOLD if and only if nothing is left.

`AlbumRelease`: token numbers named by the transaction and accepted only if they are the next,
standalone editions until the release becomes an album, tracks and singles under limits that
`approveExpandedRelease` moves, closing, the roles that may do each.

* `AlbumSound` - numbers without a gap, counters that count the tracks, the album within the
  limits in force, no royalty to the platform. `EditionsStand` - of every step: editions stay as
  created, an album takes tracks only, a closed one nothing. Both are proved.

`Provenance`: `Find`, `Create`, `LoadRetry`, `Retry`, `Inspect`, `Load`, `Write` are the
statements and chain reads of `prepare`, `submit`, `confirm` and of the proof part of
`confirmPublication`. A node may lag. Transactions are sent by anybody and mined at any time.

* `ProofsHold` - a submitted or verified row names a transaction that commits its own root, a
  verified one a successful one, and a verified row is never rewritten.

`WeekendConfig`: the read of the contract (`Ask` starts or joins it, `ReadEnds`, `ReadFails`), the
cache, `observedClose`, `neverActivated`, `Activate` on chain, restarts.

* `AnswersTrue` - what is taken as final is true; "open" is never said of a closed window; "closed"
  is never said of an open one to a request of a time when every node knows of the last
  activation there could be. Before that the code can say so: a read that began before the
  deadline, or that met a node one block behind, shows an inactive claim, and whoever joined it
  gets 409 although the claim was activated in the last second. The next request reads again.
  The margin of 120 s (`server/genesis-weekend-claim.js:207`) must cover the lag of a node, and
  the window must outlast lag, read and cache together; both are assumptions.

## 11. Runs

| run | instance | shows |
|---|---|---|
| `GenesisClaim` | 2 servers, 2 wallets, 1 unit of 1 ID that is resold, Life 1, Grace 1, ReadLag 1, window of 3 s, 5 s of time, 2 transfers, 3 vouchers | the safety properties of one contract and the inductive invariant |
| `GenesisUnits` | 1 server, 3 wallets, 2 contracts, 2 token IDs with 2 and 1 units, amounts 1 and 2, mints and burns; two starts: the recovery has just happened, or two transfers have and the recovery is still to come | unit arithmetic of the replay; one mint per wallet across a recovery |
| `GenesisRecoveryLedger` | 2 contracts, 1 server, 2 wallets, 1 transfer, 3 vouchers | **violated**: finding 1 |
| `Settling` | `GenesisClaim` with 1 server, ReadLag 1, 5 s against a window of 3 s, or `ReviewerAlert` with 1 submission, 2 deliveries, 3 attempts, 2 restarts; fair | what must end, ends |
| `ReleaseSale` | capped at 3, two offers (one with a platform cut of one coin, one that rounds to zero), one holder claim, early access, transfers, calls two deep | money, copies and caps |
| `ReleaseClaims` | capped at 4, three claim contracts of any kinds, calls two deep | free copies across generations, the inductive invariant, the refinement |
| `ReleaseRoles` | open edition, one claim contract, roles and pauses change anywhere, also inside callbacks | every copy on one contract's books |
| `EarlyAccess` | calls one deep | **violated**: finding 2 |
| `Requests` | one of fourteen components per behaviour, see below | the server's requests and passes, and the player, under interleaving, failures and crashes |
| `Indexer` | a release alone or with its sale, 2 transactions, 3 blocks, chunks of 2, 1 reorganisation, 1 fault | the index, and liveness |
| `IndexerGroup` | the same | **violated**: finding 3 |
| `SettlementAhead` | 1 listing of 2 copies, 4 logs, 1 fault | **violated**: finding 4 |

`MCRequests` and `MCSettling` each put several components into one run. They share neither
state nor steps: `part` is chosen at the start and says which one this behaviour is of, and the
variables `v1` to `v11` are handed to it by INSTANCE (`AlbumRelease` is extended instead and
keeps its own variables, so that the run checks the very definitions `AlbumReleaseProofs` proves;
in the other components they stay as initialized). Nothing is lost by it, as no property
relates two of these components, and a product of them would be as large as its factors
multiplied. `Requests` has: `GenesisScan` with 2 instances, 2 callers, 3 requests, 3 blocks, 2
forks, 1 confirmation, 1 anchor, 1 fault; `Account` with 2 wallets, 2 X users, 2 challenges, 2
attempts, 2 requests; `VerificationDesk` with 1 wallet, 2 applications, 2 requests; `Resale`
with 1 listing of 2 copies, 4 logs, 1 fault, 1 attempt; `Experiences` with 2 editions, 3
experiences, 2 files, 2 requests; `Publication` with 2 tracks, 2 tabs, 2 documents, 2
transactions; `MediaGate` with 2 wallets, 1 grant, 1 request and every limit 1; `Provenance` with 1 row and a
foreign root, 2 transactions, 2 requests; `Marketplace` with 2 accounts that hold a copy each of
both classes, 1 listing of 1 or 2 copies at 39 (the platform's cut of one copy rounds to zero, of
two copies to one coin), 3 seconds; `AlbumRelease` with 2 wallets, limits of 1 track and 0
singles, raised to 3 at most, numbers 1 to 4; `WeekendConfig` with 2 callers, deadline 2, window
4, every delay 1, 8 seconds; `Playback` with 2 tracks, 2 wallets, 2 requests for grants, 1
signature asked for at a time; `WorkerLease` with 2 workers, a lease of 1, 2 blocks in chunks of
2; `RpcPacer` with 4 calls to a lane, a window of 2, spacing 1, cooldown 2, a penalty of 2 and
no wait above 3, and a node that asks for 0 or 4.

Why the bounds are enough. The hazards of the claim are pairwise: two wallets, one unit,
one transfer between them, a voucher issued on each side, and one that expires in between;
two transfers let the unit come back, three vouchers let a wallet be issued again after an
expiry. Time only matters in its order relative to window, deadline and grace; five seconds
cover all orders with Life = Grace = ReadLag = 1. Two instances suffice because the lock
admits one at a time. On chain, depth two nests every entry point in every callback;
deeper nesting repeats the guards. Three claim contracts cover the chain holder, recovery,
weekend and every pair. `ReleaseClaims` caps the edition; an open one appears in `ReleaseRoles`
with one claim contract only. The races of the server are between two requests for one row, so
two requests, two instances or two passes are enough to lose an update, and a single fault is
placed between any two statements. Two transactions let one be dropped by a reorganisation
while the other stands; three blocks put a chunk boundary between them. Two editions of three
experiences give a sibling, a rival and a lock order that could close a cycle. Two requests for
grants let the older answer last; two wallets let a grant or a signature of one arrive in the
session of the other. Two workers and a lease of 1 let one stall at any statement while the other
takes over; four calls to a lane are more than the window, and an asked wait of 4 is more than the
longest one. With every limit
of `MediaGate` 1 each delay can be spent in full and on its own. Bounds are constants whose
comments say "bound". Not reached by them: three signatures under way, a scan with more than one anchor, a head read
that lags (`HeadLag = 0`), three reorganisations in a row, cycles of three lock holders.

Symmetry is used only over servers, over wallets with equal initial units, over accounts, and in
`Requests` over callers (in `Playback` the tracks) and over `x1`, `x2`, which stand for the scan's
instances, the challenges of `Account`, the tracks of `Publication`, the wallets of `MediaGate` and
`Playback`, the transactions of `Provenance` and the workers of `WorkerLease`: interchangeable in
each. No run with a liveness property uses it; `ScanSound`, `ProofsHold`, `EditionsStand` and
`SettlementIsFinal` speak of single steps.

`CHECK_DEADLOCK FALSE`: time, vouchers, blocks and requests are bounded, so every behaviour
ends; a stuck lock is what `LockReleased` and `NoWaitCycle` (in `StudioKept`) look for.

Fairness of `Settling`, stated in `MCSettling` for the component that runs.

* Claims: weak fairness of `Tick` (blocks are produced) and of `Proceed(s)` (every await ends:
  Genesis reads have a request timeout and a scan budget
  (`server/genesis-claim.js:450`, `:480`, `:708`), destination reads the request timeout of
  ethers' `JsonRpcProvider`, and a dead database connection ends its transaction; a request
  goes on or aborts). Strong fairness of `BeginReconcile(s)`: the operator's script queues for
  the lock again and again, and PostgreSQL grants the lock in order. "Eventually no
  reconciliation is interrupted" (`<>[][~Interrupted]_vars`): without it a script that always
  crashes settles nothing. It says nothing about requests, which may abort for ever.
* Alerts: weak fairness of a delivery's steps (a call to X ends at its socket's timeout), of the
  sweep (a timer of a minute, `server/index.js:115`), of a retry coming due and of a claim
  running out (both are clock); strong fairness of the sweep's delivery of one row, which is
  enabled and disabled as workers come and go but gets its turn in the list each time. Nothing
  forces the hour that a lost enqueue has to be made good, and `Alerted` says so.

Fairness of `Indexer`: weak fairness of a cycle's steps, as the worker's loop starts a cycle when
the last one has ended and is restarted when the process dies. None of the chain.

## 12. Proofs

`GenesisClaimProofs.tla`, for any servers, wallets, token IDs, units, lifetime, grace, clock
skew, window, allocation and bounds that satisfy `LedgerAssumption` and `ClaimAssumption`:

* `TypeCorrect`: `Spec => []TypeOK`.
* `Invariance`: `NumContracts = 1 => (Spec => []IInv)`.
* `StandingVouchersReserved`, `RowsSettledTruthfully`: the two properties, from `IInv`.
* `UnitsBackClaims`: `NumContracts = 1 => (Spec => []UnitBacksOneClaim)`, the promise of
  `server/genesis-claim-ledger.js`, for any wallets, token IDs and history of transfers, mints and burns.
* `UnitsBackClaimsUntilRecovery`: `Spec => []UnitsBackOneClaim`, for any number of contracts: the same,
  and `LedgerNeverThrows`, as long as every row is of the live contract (`OneContract`).
* `SettledRowsStay`: `NumContracts = 1 => (Spec => SettlementIsFinal)`, from `IInv`: a session stages
  changes only for rows that are PENDING in the committed table, which nobody else writes.
* `NoWalletClaimsTwice`: `Spec => []OneClaimPerWallet`, for any number of contracts. The count of
  claim mints is tied to the wallets the contracts recorded: a contract whose books account for
  the whole supply knows every wallet that ever claimed, so whom it mints for is new, and the
  count grows with the set.
* `ReviewerToldOnce`, `OutcomesStay`: `NoDuplicateAlert` and `OutcomesFinal`, as `MCSettling` runs
  `ReviewerAlert`. The invariant: a row has one delivery under way at most, only while it is
  SENDING or was given up as UNCONFIRMED (`UnderWay`, `OneDelivery`), and what may be sent again
  was delivered no more often than misreported (`NothingLeft`).

The assumption that carries them is `ReadLag <= Grace`: a read lags by no more than the 120
seconds of `RESERVATION_EXPIRY_GRACE_SECONDS`. Without `NumContracts = 1` or `OneContract`
these properties are false: rows of an older contract in the ledger break them (Findings). What is
inductive is `OneContract => IInv`, for every step but a recovery, next to facts that a recovery keeps (every
voucher and every claim has a row, and a row that was there stays); with one contract `OneContract`
always holds.

Why `IInv`. `StandingVoucherReserved` is not inductive: that a row can be expired safely
depends on what the request in progress has read. `IInv` adds

1. `NoncesUnique` - a nonce names one voucher and one row, so "the row carries the nonce" makes sense;
2. `ClaimsInTime` - a redeemed nonce was redeemed by its voucher's deadline, so a node that is
   at most `ReadLag` behind a clock past deadline + grace has seen it;
3. `ReleasedAreDead` - what is released can never be redeemed;
4. `SessionsSound` - what an open request listed is still the committed table (only the lock
   holder writes), and every change it has staged is true of the chain and stays true.

and `UnitsKept`, for the units:

5. `RowsBehindHead`, `HistoryLegal` - a row's block is in the history, and a transfer takes no
   more than its sender had;
6. `LedgerReplays` - at *every* block, not only at the head, the used units that
   `ReplayUsedUnits` computes from the reserved rows are at most the balances;
7. `StillCounted` - an issuance decides from all rows but those it has itself released.

The key lemma, `OverdueUnclaimedIsDead`, is where the grace is used: overdue at the clock
read, unclaimed at a lagging view, hence dead. Each action has a lemma that it preserves
`RowsSound` (1 to 4) and `UnitsKept` (5 to 7); `Next` is split by `CASE`. `TypeOK` and `IInv` are also checked by TLC
(run `GenesisClaim`).

The ledger. `ReplayUsedUnits` and `BalancesAt` are recursive functions over the history, so what they do
step by step is proved from their defining equations and the least number at which it would fail
(`LeastOfNaturals`, `Climb`), because the library's induction rules cannot be instantiated here. From that:
a transfer moves used units along with the units (`MoveBelow`, `MoveWithin`); after the last reservation a history that
grows keeps the replay within the balances (`StaysWithin`); so does dropping a reservation, `FewerWithin` (an expired row); and so does one more
reservation of a unit found unused at a block no reservation is after, `OneMoreWithin`. `Issue` has both: the unit
comes from the replay through the scanned block, and a scan that is behind a reservation refuses; `IssueUnits` rests on it. `BackedByUnits` counts:
over the history, wallets with a reservation plus units held unused never exceed the initial
and minted units, since a reservation takes one unused unit and a transfer creates none.

`ReleaseLaunchProofs.tla`, for any accounts, number of claim contracts, depth of nested calls,
fee, prices, caps, allocations and times that satisfy `FeeAssumption` and `LaunchAssumption`:

* `TypeCorrect`, `Invariance`: `Spec => []TypeOK`, `Spec => [](TypeOK /\ IInv)`.
* `SaleStaysSolvent`, `CapRespected`, `OneFreeCopyPerWallet`, `RoomForBoth`,
  `SupersededIsSilent`: `Solvent`, `SoldWithinCap`, `FreeOnce`, `NeitherStarves` and the action
  property `SupersededNeverMints`, from `IInv`.
* `EveryCopyHeld`, `EveryCopyOnOneBook`: `HoldersMatchSupply` and `SupplyAccounted`. The sum of a
  count is the number of its units (`Totals`), a set whose growth the library's theorems on finite
  sets give (`TotalGrows`, `TotalMoves`), so that no induction over a fold is needed.
* `PromiseImplemented`: `Spec => PromiseKept`, the refinement. Initial states map to initial
  states, and every step to one `Transaction` or a stutter.

Why `IInv`. Four things keep these properties from being inductive.

1. A refused call brings back an older storage, so whatever is needed of the storage is needed
   of every *level*: the storage now (level 0) and the one each unfinished call would be undone
   to. `IInv` says `Sound` and `Balanced` of all of them. That at most one frame belongs to the
   sale (its reentrancy guard) is what makes the cut still to be paid unique at each level.
2. Claim contracts share nothing but the equation `mintedSupply = sold + claimedSupply`, which
   each checks for itself. `CountsSound` says that `sold + claimedSupply` never exceeds
   `mintedSupply`; hence one mint by contract c, which counts in c's books only, leaves every
   other contract short of the equation, and nothing ever closes the gap (`LockedIn`: a sale moves
   both sides, every other mint widens it). `OthersYield` is the consequence: when c has
   minted, any other contract is locked, or was deployed after it and either lists c's
   claimants as prior ones or, being a weekend claim, asks c before it mints. A wallet that
   claims twice would need a contract that is neither.
3. The supply counts copies twice over, by their holder and by their book, and the promise a third
   time, by who claimed: `Books` ties the three counts together, at every level. A claim adds to
   the last one only if the claimant is new, which is item 2 (`ClaimantIsNew`).
4. What is committed changes when the outermost call returns, to whatever all its callbacks left.
   `Grown` says between any two levels that the inner storage has at least what was bought,
   claimed and issued at the outer one; with `Books` at both ends the difference is one
   transaction (`GrowthIsTransaction`). Each step is shown to keep the invariant and to let what
   is committed only grow (`Preserved`).

`MintKeepsCounts` and `ClaimSound` carry the second argument, `EnterStep` and `PopStep` the first:
every entry point is `EnterStep` with a sound new storage, and the two ways a call ends
are `PopStep`.

`AlbumReleaseProofs.tla`, for any wallets, limits and numbers that satisfy `AlbumAssumption`:
`AlbumAlwaysSound` and `EditionsAlwaysStand`. `AlbumSound` is inductive as it stands: that a
counter is the number of tracks needs every other part (a new number is one beyond all there are,
so the track is new), and that limits hold needs that none is set below what the album has. One
lemma per action; `FiniteAlbum` gives the finiteness that counting one more needs.

The components of `Requests` are proved about as `MCRequests` runs them, so that a theorem states
the very property the run checks: `SpecOne => []P` (or `SpecOne => P` of an action property), where `P` says something of the component that
`part` names. Each proof shows `part = "..." => IInv` inductive, the other parts being trivial. In
those proofs the variables are `v1` to `v11`. TLC checks each `IInv` first: `TypesOK` is, for the
component that runs, its `IInv`. `TypesAlwaysOK` (in `AlbumReleaseProofs.tla`, which extends the
other proofs about `MCRequests`) puts the fourteen invariants back together.

`AccessProofs.tla`.

* `AccountsAlwaysProven`. What is consumed is consumed once: a session is opened only by the
  request that consumed its challenge, no two requests are at that step for one challenge
  (`ConsumedOnce`), and a completion under way is of an attempt of its wallet and saves a user
  who approved it (`Completing`).
* `OneLiveApplicationAlways`. The partial unique index is what holds, whatever the handlers read
  before; the invariant says that the live applications of a wallet are one.
* `AccessAlwaysEnds`. Each check hands on how old what it saw can be by now:
  `IndexRecent`, `RequestsRecent`, `GrantsRecent`, `ServesRecent` bound the time since the loss by the age of the
  last success, of the request, of the grant and of the file being sent, and add up to the bound,
  each unless `Overwrites`; publication and revocation need no such condition.
* `AnswersAlwaysTrue`. What is cached, and what a read under way will see, is no older than lag
  and read time; who asked late waits for a read that began late.
* `PlaybackAlwaysKept`. What may still be kept was asked for by the wallet of the session, a
  task that will not set the track waits for the one the player is on, and every other for one
  of the queue (`Due`). Without an account there is no authorization unless a sign-in came late
  (`Signed`), so that nothing is renewed behind the empty ownership.

`StudioProofs.tla`.

* `StudioAlwaysKept`. A lock is held by the request that is at the step that took it, and by no
  other (`LocksHeld`); what a save decided under its locks stands until it is written (`Decided`).
  Files are locked in their order, after the edition and before the row, so along a chain of waits the
  lock waited for grows; as `Files` is finite no chain closes (`NoWaitCycle`). For the tracks: a track keeps the number it was
  given (`NumbersGiven`), what a tab has read of the chain stays so (`Grounded`), and, where `Orderly`, a
  published row was seen on chain (`StandsOnChain`).
* `ProofsAlwaysHold`: what a request is about to write it has seen on chain (`Seen`), and what is
  on chain stays; a verified row is never written again.

`WorkerProofs.tla`: `WorkerAlwaysKept`. The owner of the lease is as old in it as its last heartbeat
(`LeaseReported`); what a worker has passed in its chunk is stored (`ChunkStored`); until a rebuild
has begun nobody scans (`RebuildFirst`); the balance counts the purchases stored, while no peril
happened. For the pacer, time left and time since the last answer never add up to less than
the spacing and the cooldown (`KeepsDistance`). `Spacing` is `Min(MaxDelay, MinInterval)`: the
configuration lets `INDEXER_RPC_MIN_INTERVAL_MS` exceed `INDEXER_RETRY_MAX_DELAY_MS`, and `bump`
(`server/indexer-rpc.js:87-90`) cuts it.

`ScanAlwaysSound`, in the same module, for any instances, requests, blocks, forks, chunks, anchors,
confirmations, head lag and faults that satisfy `ScanAssumption`. `IInv` of `GenesisScan` is needed because
neither half of `ScanSound` is inductive:

1. A history is written from what a scan has read, chunk by chunk, while the chain moves. So what a
   scan past its checks has in hand, cached or fresh, must be canonical as far as it may be kept
   (`ReadTruly`): up to `Confirmations` below the head the scan was asked for. A block more only
   adds above it, and a reorganisation within the confirmation depth stays above it
   (`RunGoesOn`).
2. Rewinding goes from anchor to anchor, so anchors rise towards the end and lie within the logs
   (`Sound`), in the row, in every process and in every scan: the newest canonical one is then a
   sound history of its own (`RewoundSound`), and so is an extension, whose anchors are the old
   ones and the old end (`ExtensionSound`).
3. An answer goes to whoever joined the scan, so a request is in one queue at most, with a scan
   that starts low enough for it (`QueueSound`, `RequestsSound`); what it is told then begins
   where it asked (`ToldTruly`).

The parts of `IInv` are restated of one history, one run and one queue on a given chain
(`HistorySound`, `RunOn`, `QueueOn`), so that one lemma serves the row, the processes and the scans, before
and after a step. `IInv` is kept with `DeepMidScan` too; what it then no longer says is that the logs
are canonical.

`IndexerProofs.tla`, for any transactions, height of the chain, chunk and budget, confirmations,
reorganisations and faults that satisfy `IndexerAssumption`: `Invariance` (`Spec => []IInv`),
`IndexStaysTrue`, `FinalizedAlwaysStands`, `SnapshotAlwaysMatches`.

Why `IInv`. After a reorganisation the tables are wrong until the worker rewinds, so what is kept is
that the rewind will go far enough; and the promises hold in different histories, hence so do the
parts of the invariant.

1. Always: the shape of a cycle (`CycleShaped`), finalized purchases in recorded blocks (`Standing`),
   hashes of forks that were and a transaction in one block (`ChainSound`).
2. While no cycle failed, died or met a reorganisation (`Straight`): rows that count are of recorded blocks,
   what is recorded agrees with the chain up to some block and differs from there on
   (`AgreementClosed`), and checkpoints cover it. So the walk back stops at the block, and every
   phantom is above it.
3. Before any reorganisation, whatever failed or died (`Unforked`): a log of the chunk in hand is
   done, due, or of a block still to fetch (`ChunkDone`), below a checkpoint all are done, and the
   balance counts what is credited.
4. Of a release without a sale, unharmed, through every reorganisation outside `perils` (`Alone`): what is
   missing is above the block where the walk back will stop (`MissingSeen`, `Caught`); and
   whatever failed or died, the balance is that of the canonical mints unless a rebuild is due
   or half done (`Balanced`).

`MarketProofs.tla`.

* `SalesAlwaysSettle`. Inside a sale the contract holds what its payees have still to get, the
  listing's books balance once they have it, and the world the sale would be undone to is one
  between sales (`MarketIInv`). Rounding is the arithmetic part: the cuts are rounded down, so the seller gets
  no less than 95 per cent.
* `MirrorAlwaysKept`. The chain sells only what is left of a listing that stands (`ChainTrue`);
  what a pass has in hand is a closed log and the listing as of its block (`InHand`); a listing whose
  closed logs the pass has behind it is as the chain has it, or EXPIRED by the clock, unless the
  pass overtook the loop (`Mirrored`); and what a log still to come needs of the row, the row has
  (`Ready`), as long as logs are projected in turn (`InTurn`) and blocks have one log of a listing
  (`Separate`). The perils in these are the circumstances of `MirrorTrue` and `ScanProceeds`, no others.

What the proofs assume of the constants are the assumptions each module states (`...Assumption`),
which the runs evaluate. `ScanAlwaysSound` has `~DeepMidScan` as a hypothesis; `Overwrites`, `Overtake` and
`Repost` are no hypotheses of the theorems but conditions of single conjuncts of the properties. The code does
not exclude any of the four (Findings), and without the conditions those conjuncts are false.

Every invariant and every action property of a passing run is a theorem, `ScanSound` under that hypothesis.
Model-checked only: liveness (fairness and ENABLED are beyond the prover), and the four properties the code
violates (Findings), which TLC refutes.

## 13. Findings

1. **A recovery's old rows are settled in the new contract's name** (run
   `GenesisRecoveryLedger`). `list()` reads the rows of all `ledgerContracts`, but `setStatus`
   writes by the configured contract (`server/genesis-claim-store.js:50`). When an old row is
   overdue, the wallet's row under the *new* contract is set EXPIRED although its voucher is
   good; its unit then counts as free and can back a second claim.
2. **Early access can be reconfigured after its window opened** (run `EarlyAccess`).
   `contracts/GenesisHolderClaim.sol:327` refuses while it is enabled; disabling it first lifts
   the lock, which the comment above the function excludes.
3. **A reorganisation withdraws the rows of contracts that do not rewind** (run `IndexerGroup`).
   Contracts of a chain are admitted one after the other. The first to notice calls
   `handleReorg`, which marks every block and event of the chain from the fork on
   (`server/indexer-store.js:88-94`) but rewinds only its own checkpoint; the others then have no
   recorded block left to compare (`server/indexer.js:617-640`) and never read theirs again.
4. **A settlement ahead of an earlier log stops the pass** (run `SettlementAhead`). The loop
   overwrites the row with the listing as read on chain; the pass then meets the earlier
   `ListingSold` on a row that is no longer ACTIVE (`server/indexer-store.js:400-403`), throws,
   and throws again in every cycle.

Other differences met while modelling. A property that would fail on one of these says so in its
comment or is guarded by the constant named here.

* Applications: `decide` updates by id alone (`server/verification-service.js:228`), so of two
  reviewers the later wins and DECLINED can become VERIFIED, which the table of
  `src/lib/verification.js:50-58` does not allow. `OneLiveApplication` holds all the same.
* Scan: a reorganisation deeper than the confirmations that hits a scan between its checks
  (`DeepMidScan`) binds logs of one fork to the hash of another
  (`server/genesis-claim.js:1007-1010`), against `genesis-scan-checkpoint-store.js:6-8`. The
  fallback endpoint may answer the head read, which the comment near `genesis-claim.js:490`
  reserves to the primary.
* X: two starts at once leave two open attempts ("one pending attempt at a time",
  `server/x-link.js:149`), and a disconnect while a completion is under way is followed by the
  link being saved.
* Alerts: a message that X delivers and reports as failed is sent again; `NoDuplicateAlert`
  counts these. `server/verification-notifier.js:10-14` calls the messages at-most-once.
* Indexer: a transaction mined again after a reorganisation keeps its non-canonical row
  (`ON CONFLICT DO NOTHING`), and a rebuild then drops it; a death between `handleReorg` and the
  checkpoint loses the rewind; a death during a rebuild leaves the job RUNNING for good, and so does
  a rebuild that fails when the UPDATE to FAILED fails as well (`server/indexer-store.js:140-142`
  swallows that error, and `getPendingRebuildJob` looks for PENDING and FAILED only); a
  reorganisation below every recorded block is only followed to the lowest recorded one; a
  purchase of a group re-read after COMPLETED is not credited.
* Worker: a rebuild sends no heartbeat; one that outlives the lease can have the successor credit
  a purchase again that it has just counted (`perils` of `WorkerLease`). In the pacer the jitter
  after a success (`server/indexer-rpc.js:98-100`) never exceeds the interval it is compared with,
  so it has no effect, against the comment.
* Player: of two plays that wait for grants of different tracks the one answered first wins,
  also the older one, although `src/lib/audio.js:465-466` lets the newer win. `playGranted`, called by
  pages that asked for a grant themselves, looks neither at the track nor at the wallet of the
  moment. `authenticate` installs the session of the account it asked even if another one is
  connected by then, or none. After the provider reported no account and the player was re-locked, such
  a late session lets a page's grant play and the player renew it; a change of chain then clears
  the session and leaves the stream on the element, as `onChainChanged`
  (`src/lib/WalletContext.jsx:241-244`) pushes no ownership, against the comment at `:101-102`.
* Marketplace: two logs of a listing in one block, a listing expired by the clock and then
  cancelled, and a settlement overtaken by the pass between its read and its write each leave a
  row wrong or the pass stuck (`perils`).
* Access: a transfer read again replaces the whole row and clears the REORG_PENDING mark
  (`server/indexer-store.js:496` against `:94`) before the rebuild has run, so until then a wallet
  that lost the token long ago can be served (`Overwrites`). Freshness counts from the end of a
  run, not from the head it read, and nothing bounds the run.
* Studio: metadata stored while another tab has the track created leaves a stored URI that is not
  the chain's (`Overtake`; `server/studio-service.js:785-788` calls it frozen). Posting a draft
  again through `createEdition` wipes its metadata and its attempt, after which it can be neither
  published nor confirmed, and a racing re-post reopens a published track (`Repost`; the comment
  near `:1293`). Saves of experiences and releases write a status read before the locks, so
  PUBLISHED can return to DRAFT. A death between the saves of track and release while a second
  draft is open cannot be finished until that one is published, and confirming again republishes
  an archived release.

## 14. Not modelled

`PROJECT.json` gives each component's status and reason. In short: the frontend's pages and forms, the
scripts, the separate `artist-verification/` application, migrations and routing make most of the
repository's lines and hold no protocol of their own (what they do to the rest enters the models
as actions); older generations of token, sale and marketplace are superseded by the ones
modelled; factories and the role granter do one thing in one transaction. Within the modelled
components: cryptography, EIP-712 and Merkle encoding, OAuth URLs, storage back ends, retries
inside a call, wording.

## 15. Plan

Done: the modules of sections 2 to 10 and the proofs of section 12. Next, in this order:

1. The older marketplaces and the older sale, which credit instead of pay.
