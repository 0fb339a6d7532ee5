------------------------------ MODULE MCRequests ------------------------------
(***************************************************************************)
(* Components that share neither state nor steps, checked in one run: a    *)
(* behaviour picks one of them at the start and is a behaviour of that     *)
(* one.  The album keeps its own variables, which stay as they were        *)
(* initialized in the other components; v1 to v11 hold the state of        *)
(* whichever of those was picked, and the ones it does not need stay 0.    *)
(***************************************************************************)
EXTENDS AlbumRelease, TLC

CONSTANTS
  x1, x2, c1, c2, w1, w2, u1, u2, s1, s2, l1, a1, a2, e1, e2, x3, x4, y1, g1, r1,
  Instances, NoInstance, Callers, Confirmations, MaxAnchors, ChunkBlocks, HeadLag, DeepMidScan,
  FirstHead, MaxHead, MaxForks, Issuances, MaxAsks, MaxFaults,   \* GenesisScan, Resale
  XUsers, Nonces, Attempts,                             \* Account
  Apps, Applicants,                                     \* VerificationDesk
  Listings, Amount, Expiring, MaxAttempts, MaxLogs,     \* Resale
  Editions, ExperienceIds, EditionOf, Forms, Files,     \* Experiences
  Nobody, NoUri, MaxSent, Overtake, Repost,             \* Publication
  Readers, Grants, GrantTtl, Staleness, RunTime, Patience, Overwrites,  \* MediaGate
  Copies, Prices, Amounts, Expiries, ShopEnd,           \* Marketplace
  Deadline, Duration, CacheTtl, Margin, Lag, ReadTime, WeekendEnd,   \* WeekendConfig
  MaxSignIns,                                           \* Playback
  Ttl, Height,                                          \* WorkerLease
  MinInterval, Cooldown, MaxDelay, Penalty, FairnessWindow, RetryAfters, MaxQueued   \* RpcPacer

VARIABLES part, v1, v2, v3, v4, v5, v6, v7, v8, v9, v10, v11

Scan == INSTANCE GenesisScan WITH
  chain <- v1, forks <- v2, store <- v3, mem <- v4, base <- v5, queue <- v6, run <- v7, caller <- v8,
  asks <- v9, faults <- v10

Auth == INSTANCE Account WITH Requests <- Callers,
  nonces <- v1, sessions <- v2, attempts <- v3, links <- v4, request <- v5

Desk == INSTANCE VerificationDesk WITH Wallets <- Applicants, Requests <- Callers, apps <- v1, request <- v2

Market == INSTANCE Resale WITH
  logs <- v1, height <- v2, elapsed <- v3, submitted <- v4, rows <- v5, marked <- v6, scan <- v7,
  settle <- v8, attempts <- v9, perils <- v10, faults <- v11

\* x3 and x4 are experiences of one edition, y1 of another; each may unlock these files.
TwoEditions == [x \in ExperienceIds |-> IF x = y1 THEN e2 ELSE e1]
FormsSent == [x \in ExperienceIds |-> CASE x = x3 -> {<<{1, 2}, "set">>}
                           [] x = x4 -> {<<{2}, "set">>}
                           [] x = y1 -> {<<{1}, "keep">>}]

Saves == INSTANCE Experiences WITH Requests <- Callers, Free <- Nobody, Ids <- ExperienceIds,
  rows <- v1, release <- v2, editionLock <- v3, fileLock <- v4, rowLock <- v5, req <- v6

Release == INSTANCE Publication WITH Tabs <- Callers, Editions <- Instances, Uris <- XUsers,
  editions <- v1, numbers <- v2, releaseRow <- v3, releaseLock <- v4, created <- v5, sent <- v6,
  count <- v7, tab <- v8

Media == INSTANCE MediaGate WITH Wallets <- Instances, Requests <- Readers,
  published <- v1, offAge <- v2, holder <- v3, lostAge <- v4, index <- v5, grants <- v6, req <- v7

Proofs == INSTANCE Provenance WITH Roots <- Listings, Foreign <- Nobody, Txs <- Nonces, Requests <- Callers,
  proofs <- v1, chain <- v2, req <- v3

Shop == INSTANCE Marketplace WITH Accounts <- Wallets, Ids <- Listings, Classes <- {"release", "genesis"},
  MaxTime <- ShopEnd,
  world <- v1, sale <- v2, now <- v3

Weekend == INSTANCE WeekendConfig WITH MaxTime <- WeekendEnd,
  now <- v1, activated <- v2, cached <- v3, inflight <- v4, neverActivated <- v5, observedClose <- v6, caller <- v7

Player == INSTANCE Playback WITH Tracks <- Callers, Wallets <- Instances, NoWallet <- Nobody, MaxRequests <- MaxSent,
  queue <- v1, current <- v2, element <- v3, owned <- v4, wallet <- v5, auth <- v6, grants <- v7, granted <- v8,
  expired <- v9, renewed <- v10, requests <- v11

Lease == INSTANCE WorkerLease WITH Workers <- Instances, Gone <- NoUri, ChunkSize <- ChunkBlocks,
  lease <- v1, worker <- v2, next <- v3, rows <- v4, balance <- v5, job <- v6, perils <- v7

Pacer == INSTANCE RpcPacer WITH
  queues <- v1, pump <- v2, streak <- v3, gate <- v4, elevated <- v5, answered <- v6, overtaken <- v7

\* The assumptions on the constants, as each module states them.
ASSUME Parameters ==
  /\ Scan!ScanAssumption /\ Auth!AccountAssumption /\ Desk!DeskAssumption /\ Saves!ExperiencesAssumption
  /\ Release!PublicationAssumption /\ Media!MediaGateAssumption
  /\ Market!ResaleAssumption /\ Shop!MarketplaceAssumption /\ AlbumAssumption /\ Weekend!WeekendAssumption
  /\ Player!PlaybackAssumption /\ Lease!LeaseAssumption /\ Pacer!PacerAssumption

vVars == <<v1, v2, v3, v4, v5, v6, v7, v8, v9, v10, v11>>
allVars == <<part, vVars, albumVars>>

Starts ==
  \/ part = "scan" /\ Scan!Init /\ v11 = 0
  \/ part = "account" /\ Auth!Init /\ v6 = 0 /\ v7 = 0 /\ v8 = 0 /\ v9 = 0 /\ v10 = 0 /\ v11 = 0
  \/ part = "desk" /\ Desk!Init /\ v3 = 0 /\ v4 = 0 /\ v5 = 0 /\ v6 = 0 /\ v7 = 0 /\ v8 = 0 /\ v9 = 0 /\ v10 = 0 /\ v11 = 0
  \/ part = "market" /\ Market!Init
  \/ part = "saves" /\ Saves!StudioInit /\ v7 = 0 /\ v8 = 0 /\ v9 = 0 /\ v10 = 0 /\ v11 = 0
  \/ part = "tracks" /\ Release!PubInit /\ v9 = 0 /\ v10 = 0 /\ v11 = 0
  \/ part = "media" /\ Media!MediaInit /\ v8 = 0 /\ v9 = 0 /\ v10 = 0 /\ v11 = 0
  \/ part = "proofs" /\ Proofs!Init /\ v4 = 0 /\ v5 = 0 /\ v6 = 0 /\ v7 = 0 /\ v8 = 0 /\ v9 = 0 /\ v10 = 0 /\ v11 = 0
  \/ part = "shop" /\ Shop!Init /\ v4 = 0 /\ v5 = 0 /\ v6 = 0 /\ v7 = 0 /\ v8 = 0 /\ v9 = 0 /\ v10 = 0 /\ v11 = 0
  \/ part = "album" /\ v1 = 0 /\ v2 = 0 /\ v3 = 0 /\ v4 = 0 /\ v5 = 0 /\ v6 = 0 /\ v7 = 0 /\ v8 = 0 /\ v9 = 0 /\ v10 = 0 /\ v11 = 0
  \/ part = "weekend" /\ Weekend!WeekendInit /\ v8 = 0 /\ v9 = 0 /\ v10 = 0 /\ v11 = 0
  \/ part = "player" /\ Player!Init
  \/ part = "lease" /\ Lease!Init /\ v8 = 0 /\ v9 = 0 /\ v10 = 0 /\ v11 = 0
  \/ part = "pacer" /\ Pacer!Init /\ v8 = 0 /\ v9 = 0 /\ v10 = 0 /\ v11 = 0

InitOne == AlbumInit /\ Starts

Steps ==
  \/ part = "scan" /\ Scan!Next /\ UNCHANGED <<part, v11>>
  \/ part = "account" /\ Auth!Next /\ UNCHANGED <<part, v6, v7, v8, v9, v10, v11>>
  \/ part = "desk" /\ Desk!Next /\ UNCHANGED <<part, v3, v4, v5, v6, v7, v8, v9, v10, v11>>
  \/ part = "market" /\ Market!Next /\ UNCHANGED part
  \/ part = "saves" /\ Saves!StudioNext /\ UNCHANGED <<part, v7, v8, v9, v10, v11>>
  \/ part = "tracks" /\ Release!PubNext /\ UNCHANGED <<part, v9, v10, v11>>
  \/ part = "media" /\ Media!MediaNext /\ UNCHANGED <<part, v8, v9, v10, v11>>
  \/ part = "proofs" /\ Proofs!Next /\ UNCHANGED <<part, v4, v5, v6, v7, v8, v9, v10, v11>>
  \/ part = "shop" /\ Shop!MarketNext /\ UNCHANGED <<part, v4, v5, v6, v7, v8, v9, v10, v11>>
  \/ part = "weekend" /\ Weekend!WeekendNext /\ UNCHANGED <<part, v8, v9, v10, v11>>
  \/ part = "player" /\ Player!Next /\ UNCHANGED part
  \/ part = "lease" /\ Lease!Next /\ UNCHANGED <<part, v8, v9, v10, v11>>
  \/ part = "pacer" /\ Pacer!Next /\ UNCHANGED <<part, v8, v9, v10, v11>>

NextOne ==
  \/ Steps /\ UNCHANGED albumVars
  \/ part = "album" /\ AlbumNext /\ UNCHANGED <<part, vVars>>

SpecOne == InitOne /\ [][NextOne]_allVars

\* Type correctness of the component that runs; of those with proofs, their inductive invariant.
TypesOK ==
  CASE part = "scan" -> Scan!IInv
    [] part = "account" -> Auth!IInv
    [] part = "desk" -> Desk!IInv
    [] part = "market" -> Market!ResaleIInv
    [] part = "saves" -> Saves!StudioIInv
    [] part = "tracks" -> Release!PubIInv
    [] part = "media" -> Media!MediaIInv
    [] part = "proofs" -> Proofs!IInv
    [] part = "shop" -> Shop!MarketIInv
    [] part = "album" -> AlbumTypeOK
    [] part = "weekend" -> Weekend!WeekendIInv
    [] part = "player" -> Player!IInv
    [] part = "lease" -> Lease!IInv
    [] part = "pacer" -> Pacer!IInv

\* The components' properties, each stated in its own module.  AlbumSound and EditionsStand are
\* checked as AlbumRelease states them.
ScanSound == [][part = "scan" => Scan!CheckpointTrustworthy' /\ Scan!CompleteAnswers]_allVars
AccountsProven == part = "account" => Auth!OneSessionPerNonce /\ Auth!LinkProven
OneLiveApplication == part = "desk" => Desk!OneLiveApplication
MirrorKept == part = "market" => Market!MirrorTrue /\ Market!ScanProceeds
StudioKept ==
  /\ part = "saves" => Saves!FileInOneEdition /\ Saves!OnePrimary /\ Saves!NoWaitCycle
  /\ part = "tracks" => Release!OneNumberEach /\ Release!PublishedAsCreated /\ Release!Finishable
AccessEndsInTime == part = "media" => Media!AccessEndsInTime
ProofsHold == [][part = "proofs" => Proofs!Evidence' /\ Proofs!Immutable]_allVars
SalesSettle == part = "shop" => Shop!SalesSettle
PlaybackKept == part = "player" => Player!SourceOfTrack /\ Player!GrantsOfSession /\ Player!Relocked
WorkerKept == (part = "lease" => Lease!Exclusive) /\ (part = "pacer" => Pacer!Fair)
AnswersTrue == part = "weekend" => Weekend!AnswersTrue

\* Requests are alike, and so are the player's tracks, which have their names.  x1 and x2 are the
\* instances of the scan, the challenges of the accounts, the editions of the publication, the
\* wallets of the media and of the player, the transactions of the proofs and the workers of the
\* lease: interchangeable in each, and one group of permutations for TLC.
Sym == Permutations({x1, x2}) \cup Permutations(Callers)
=============================================================================
