--------------------------------- MODULE Resale ---------------------------------
(***************************************************************************)
(* The marketplace and its mirror in the database: listings and sales on   *)
(* chain (contracts/VoidUnifiedMarketplace.sol), the indexer's sequential  *)
(* pass over their logs (server/indexer.js, server/indexer-store.js), and  *)
(* the settlement loop that runs beside it and projects the logs of        *)
(* transactions the frontend reported ahead of time                        *)
(* (server/marketplace-settlement-reconcile.js).  Both project a log in    *)
(* one transaction, then read the listing at the log's block and overwrite *)
(* the row with it.                                                        *)
(*                                                                         *)
(* Each listing offers Amount copies and each sale takes one.  A block can *)
(* be read once it is closed, that is, confirmed.                          *)
(*                                                                         *)
(* Left out: reorganisations (Indexer), payments, reverted transactions,   *)
(* logs that do not match the listing they name.                           *)
(***************************************************************************)
EXTENDS Integers, Sequences, FiniteSets

CONSTANTS
  Listings, Amount,
  Expiring,          \* the listings created with an expiry
  MaxAttempts,       \* maxAttempts of the settlement loop
  MaxLogs, MaxFaults \* bounds: logs of the marketplace, failed cycles

ResaleAssumption == {Amount, MaxAttempts, MaxLogs, MaxFaults} \subseteq Nat /\ MaxLogs > 0

VARIABLES
  logs,        \* the marketplace's logs, in order, each with its block
  height,      \* the block being mined
  elapsed,     \* listings whose expiry has passed
  submitted,   \* transactions: the logs of those the frontend reported
  rows,        \* listings
  marked,      \* marketplace_event_projections, and with them purchases: the logs that were projected
  scan,        \* the sequential pass: its checkpoint, the next log, and what it is doing with it
  settle,      \* the settlement loop, likewise
  attempts,    \* its failures, in memory
  perils,      \* history: circumstances the properties set apart
  faults       \* failures so far

vars == <<logs, height, elapsed, submitted, rows, marked, scan, settle, attempts, perils, faults>>
onChain == <<logs, height, elapsed, submitted>>
mirror == <<rows, marked>>

-----------------------------------------------------------------------------
\* The marketplace.

NoListing == [status |-> "NONE", left |-> 0]
Ids == DOMAIN logs
Logged(l, kind, b) == {i \in Ids : logs[i].listing = l /\ logs[i].kind = kind /\ logs[i].block <= b}

\* The listing with these logs of its four kinds.
ListingFrom(created, cancelled, expired, sold) ==
  LET left == Amount - Cardinality(sold) IN
  IF created = {} THEN NoListing
  ELSE [left |-> left,
        status |-> CASE cancelled # {} -> "CANCELLED"
                     [] cancelled = {} /\ expired # {} -> "EXPIRED"
                     [] cancelled = {} /\ expired = {} -> IF left = 0 THEN "SOLD" ELSE "ACTIVE"]

\* getListing at the end of block b.
ListingAt(l, b) == ListingFrom(Logged(l, "Created", b), Logged(l, "Cancelled", b), Logged(l, "Expired", b), Logged(l, "Sold", b))

Log(l, kind) ==
  /\ Len(logs) < MaxLogs
  /\ logs' = Append(logs, [listing |-> l, kind |-> kind, block |-> height])
  /\ \E reported \in {{}, {Len(logs) + 1}} : submitted' = submitted \cup reported
  /\ perils' = IF \E i \in Ids : logs[i].listing = l /\ logs[i].block = height THEN perils \cup {"same block"} ELSE perils
  /\ UNCHANGED <<height, elapsed, mirror, scan, settle, attempts, faults>>

CreateListing(l) == ListingAt(l, height) = NoListing /\ l \notin elapsed /\ Log(l, "Created")
Active(l) == ListingAt(l, height).status = "ACTIVE"
CancelListing(l) == Active(l) /\ Log(l, "Cancelled")
ExpireListing(l) == Active(l) /\ l \in elapsed /\ Log(l, "Expired")
Buy(l) == Active(l) /\ l \notin elapsed /\ Log(l, "Sold")

CloseBlock ==
  /\ \E i \in Ids : logs[i].block = height
  /\ height' = height + 1
  /\ UNCHANGED <<logs, elapsed, submitted, mirror, scan, settle, attempts, perils, faults>>

Elapse(l) ==
  /\ l \in Expiring \ elapsed
  /\ elapsed' = elapsed \cup {l}
  /\ UNCHANGED <<logs, height, submitted, mirror, scan, settle, attempts, perils, faults>>

-----------------------------------------------------------------------------
\* The store.

Closed(i) == i \in Ids /\ logs[i].block < height

\* applyMarketplaceEvent can bring the row to where the log says.
Applies(i) ==
  LET row == rows[logs[i].listing] IN
  CASE logs[i].kind = "Created" -> TRUE
    [] logs[i].kind = "Cancelled" -> row.status \in {"ACTIVE", "CANCELLED"}
    [] logs[i].kind = "Expired" -> row.status \in {"ACTIVE", "EXPIRED"}
    [] logs[i].kind = "Sold" -> row.status = "ACTIVE" /\ row.left > 0

Applied(i) ==
  LET row == rows[logs[i].listing] IN
  CASE logs[i].kind = "Created" -> [status |-> "ACTIVE", left |-> Amount]
    [] logs[i].kind = "Cancelled" -> [row EXCEPT !.status = "CANCELLED"]
    [] logs[i].kind = "Expired" -> [row EXCEPT !.status = "EXPIRED"]
    [] logs[i].kind = "Sold" -> [status |-> IF row.left = 1 THEN "SOLD" ELSE "ACTIVE", left |-> row.left - 1]

\* Mutant: a log that was projected before is not followed by a read of its listing.
FollowedByReadOnce(i) == i \notin marked

FollowedByRead(i) == TRUE

\* What a pass does next with a log that was projected.
Next1(p, i) == IF FollowedByRead(i) THEN [p EXCEPT !.step = "read"] ELSE [p EXCEPT !.step = "done"]

\* One transaction: the marker, then the row; a log that has its marker is a duplicate.
Project(i) ==
  IF i \in marked THEN UNCHANGED mirror
  ELSE /\ Applies(i)
       /\ rows' = [rows EXCEPT ![logs[i].listing] = Applied(i)]
       /\ marked' = marked \cup {i}

\* The listing as of the log's block.
Snapshot(i) == ListingAt(logs[i].listing, logs[i].block)

\* reconcileMarketplaceListing: the row becomes the snapshot, or EXPIRED by the clock.
Reconciled(l, snap) == IF snap.status = "ACTIVE" /\ l \in elapsed THEN [snap EXCEPT !.status = "EXPIRED"] ELSE snap

Reconcile(i, snap, overtaken) ==
  LET l == logs[i].listing IN
  /\ rows' = [rows EXCEPT ![l] = Reconciled(l, snap)]
  /\ perils' = perils \cup (IF Reconciled(l, snap) # snap THEN {"elapsed"} ELSE {}) \cup overtaken
  /\ UNCHANGED marked

-----------------------------------------------------------------------------
\* The sequential pass.

BlockOf(i) == {j \in Ids : logs[j].block = logs[i].block}

ScanApply ==
  /\ scan.step = "apply" /\ Closed(scan.at)
  /\ Project(scan.at)
  /\ scan' = Next1(scan, scan.at)
  /\ UNCHANGED <<onChain, settle, attempts, perils, faults>>

ScanRead ==
  /\ scan.step = "read"
  /\ scan' = [scan EXCEPT !.step = "write", !.snap = Snapshot(scan.at)]
  /\ UNCHANGED <<onChain, mirror, settle, attempts, perils, faults>>

ScanWrite ==
  /\ scan.step = "write"
  /\ Reconcile(scan.at, scan.snap, {})
  /\ scan' = [scan EXCEPT !.step = "done", !.snap = NoListing]
  /\ UNCHANGED <<onChain, settle, attempts, faults>>

\* The checkpoint moves when every log of the block is done.
ScanNext ==
  /\ scan.step = "done"
  /\ scan' = [scan EXCEPT !.step = "apply", !.at = @ + 1,
                !.from = IF \A j \in BlockOf(scan.at) : j <= scan.at THEN scan.at + 1 ELSE @]
  /\ UNCHANGED <<onChain, mirror, settle, attempts, perils, faults>>

\* A log that cannot be projected ends the cycle; the next one starts at the checkpoint again.
Throws == scan.step = "apply" /\ Closed(scan.at) /\ scan.at \notin marked /\ ~Applies(scan.at)

ScanFails ==
  /\ Throws \/ (faults < MaxFaults /\ scan.step # "apply")
  /\ scan' = [scan EXCEPT !.step = "apply", !.at = scan.from, !.snap = NoListing]
  /\ faults' = IF Throws THEN faults ELSE faults + 1
  /\ UNCHANGED <<onChain, mirror, settle, attempts, perils>>

-----------------------------------------------------------------------------
\* The settlement loop, between any two steps of the pass.

SettlePick(i) ==
  /\ settle.step = "idle" /\ i \in submitted \ marked /\ Closed(i) /\ attempts[i] < MaxAttempts
  /\ settle' = [settle EXCEPT !.step = "apply", !.at = i]
  /\ UNCHANGED <<onChain, mirror, scan, attempts, perils, faults>>

Earlier(i) == {j \in Ids \ marked : j < i /\ logs[j].listing = logs[i].listing}

SettleApply ==
  /\ settle.step = "apply"
  /\ LET i == settle.at IN
     IF i \in marked \/ Applies(i)
     THEN /\ Project(i)
          /\ settle' = Next1(settle, i)
          /\ perils' = IF Earlier(i) # {} THEN perils \cup {"ahead"} ELSE perils
          /\ UNCHANGED attempts
     ELSE /\ attempts' = [attempts EXCEPT ![i] = @ + 1]
          /\ settle' = [settle EXCEPT !.step = "idle"]
          /\ UNCHANGED <<mirror, perils>>
  /\ UNCHANGED <<onChain, scan, faults>>

SettleRead ==
  /\ settle.step = "read"
  /\ settle' = [settle EXCEPT !.step = "write", !.snap = Snapshot(settle.at)]
  /\ UNCHANGED <<onChain, mirror, scan, attempts, perils, faults>>

SettleWrite ==
  /\ settle.step = "write"
  /\ Reconcile(settle.at, settle.snap, IF scan.at > settle.at THEN {"overtaken"} ELSE {})
  /\ settle' = [settle EXCEPT !.step = "done", !.snap = NoListing]
  /\ UNCHANGED <<onChain, scan, attempts, faults>>

SettleDone ==
  /\ settle.step = "done"
  /\ settle' = [settle EXCEPT !.step = "idle"]
  /\ UNCHANGED <<onChain, mirror, scan, attempts, perils, faults>>

\* An RPC or database failure counts as an attempt.
SettleFails ==
  /\ settle.step \in {"apply", "read", "write"} /\ faults < MaxFaults
  /\ settle' = [settle EXCEPT !.step = "idle", !.snap = NoListing]
  /\ attempts' = [attempts EXCEPT ![settle.at] = IF @ < MaxAttempts THEN @ + 1 ELSE @]
  /\ faults' = faults + 1
  /\ UNCHANGED <<onChain, mirror, scan, perils>>

\* The worker dies with both, and starts again.
Restart ==
  /\ faults < MaxFaults /\ faults' = faults + 1
  /\ scan' = [scan EXCEPT !.step = "apply", !.at = scan.from, !.snap = NoListing]
  /\ settle' = [settle EXCEPT !.step = "idle", !.snap = NoListing]
  /\ attempts' = [i \in DOMAIN attempts |-> 0]
  /\ UNCHANGED <<onChain, mirror, perils>>

-----------------------------------------------------------------------------
Init ==
  /\ logs = <<>> /\ height = 1 /\ elapsed = {} /\ submitted = {}
  /\ rows = [l \in Listings |-> NoListing] /\ marked = {}
  /\ scan = [from |-> 1, at |-> 1, step |-> "apply", snap |-> NoListing]
  /\ settle = [at |-> 1, step |-> "idle", snap |-> NoListing]
  /\ attempts = [i \in 1..MaxLogs |-> 0]
  /\ perils = {} /\ faults = 0

Market == CloseBlock \/ \E l \in Listings : CreateListing(l) \/ CancelListing(l) \/ ExpireListing(l) \/ Buy(l) \/ Elapse(l)
Scan == ScanApply \/ ScanRead \/ ScanWrite \/ ScanNext \/ ScanFails
Settle == SettleApply \/ SettleRead \/ SettleWrite \/ SettleDone \/ SettleFails \/ \E i \in Ids : SettlePick(i)

Next == Market \/ Scan \/ Settle \/ Restart

Spec == Init /\ [][Next]_vars

-----------------------------------------------------------------------------
\* Type correctness of the chain, the mirror and both passes.
Kinds == {"Created", "Cancelled", "Expired", "Sold"}
Rows == [status : {"NONE", "ACTIVE", "SOLD", "CANCELLED", "EXPIRED"}, left : 0..Amount]

TypeOK ==
  /\ logs \in Seq([listing : Listings, kind : Kinds, block : Nat]) /\ Len(logs) <= MaxLogs /\ height \in Nat
  /\ rows \in [Listings -> Rows] /\ marked \subseteq Ids
  /\ scan \in [from : 1..(MaxLogs + 1), at : 1..(MaxLogs + 1), step : {"apply", "read", "write", "done"}, snap : Rows]
  /\ settle \in [at : 1..MaxLogs, step : {"idle", "apply", "read", "write", "done"}, snap : Rows]
  /\ attempts \in [1..MaxLogs -> 0..MaxAttempts]

(***************************************************************************)
(* The mirror ends true: once the pass is through with every closed log,   *)
(* each listing's row is the chain's, or EXPIRED by the clock; also when   *)
(* the settlement loop ran ahead of it or cycles were repeated, unless the *)
(* pass overtook the loop between its read of a listing and its write.     *)
(***************************************************************************)
CaughtUp == scan.step = "apply" /\ ~Closed(scan.at) /\ \A i \in Ids : Closed(i) => i < scan.at
MirrorTrue ==
  CaughtUp /\ "overtaken" \notin perils =>
    \A l \in Listings :
      \/ rows[l] = ListingAt(l, height - 1)
      \/ rows[l] = Reconciled(l, ListingAt(l, height - 1))

(***************************************************************************)
(* The pass never meets a log it cannot project, except where a listing    *)
(* had two logs in a block, was settled ahead of an earlier log, or was    *)
(* expired by the clock: then it fails at that block again and again.      *)
(***************************************************************************)
ScanProceeds == Throws => perils \cap {"same block", "ahead", "elapsed"} # {}

(***************************************************************************)
(* marketplace-settlement-reconcile.js:17-19: every write of the           *)
(* settlement loop is one the pass would make later, and the later pass is *)
(* a no-op: what the loop settled ahead never makes the pass fail.         *)
(***************************************************************************)
SettlementHarmless == Throws => perils \cap {"same block", "elapsed"} # {}

-----------------------------------------------------------------------------
(***************************************************************************)
(* Why: the chain only sells what is left of a listing that stands; what a *)
(* pass has in hand is a closed log and its listing as of it; a listing    *)
(* whose closed logs the pass has behind it is as the chain has it; and    *)
(* one with logs to come has what they need.                               *)
(***************************************************************************)
Of(l, kind) == {i \in Ids : logs[i].listing = l /\ logs[i].kind = kind}
Before(i, kind) == {j \in Of(logs[i].listing, kind) : j < i}
MarkedOf(l, kind) == Of(l, kind) \cap marked

ChainTrue ==
  /\ \A i \in Ids : logs[i].block <= height
  /\ \A i, j \in Ids : i <= j => logs[i].block <= logs[j].block
  /\ \A l \in Listings : Cardinality(Of(l, "Sold")) <= Amount
  /\ \A i \in Ids : logs[i].kind # "Created" =>
       /\ Before(i, "Created") # {} /\ Before(i, "Cancelled") = {} /\ Before(i, "Expired") = {}
       /\ Cardinality(Before(i, "Sold")) < Amount

InHand ==
  /\ scan.from <= scan.at /\ scan.at <= Len(logs) + 1
  /\ \A i \in marked : Closed(i)
  /\ \A i \in Ids : i < scan.at => i \in marked
  /\ scan.step # "apply" => scan.at \in marked
  /\ scan.step = "write" => scan.snap = Snapshot(scan.at)
  /\ settle.step # "idle" => Closed(settle.at)
  /\ settle.step \in {"read", "write", "done"} => settle.at \in marked
  /\ settle.step = "write" => settle.snap = Snapshot(settle.at)
  /\ settle.step = "apply" => attempts[settle.at] < MaxAttempts

Passed(i) == i < scan.at \/ (i = scan.at /\ scan.step = "done")
AsOnChain(l) == rows[l] \in {ListingAt(l, height - 1), Reconciled(l, ListingAt(l, height - 1))}

Mirrored ==
  "overtaken" \notin perils =>
    \A l \in Listings : (\A i \in Ids : logs[i].listing = l /\ Closed(i) => Passed(i)) => AsOnChain(l)

Separate == "same block" \notin perils => \A i, j \in Ids : i # j /\ logs[i].listing = logs[j].listing => logs[i].block # logs[j].block

InTurn == "ahead" \notin perils => \A i \in marked, j \in Ids : j < i /\ logs[j].listing = logs[i].listing => j \in marked

Ready ==
  perils \cap {"same block", "ahead", "elapsed"} = {} =>
    \A l \in Listings : MarkedOf(l, "Created") # {} =>
      /\ rows[l].left >= Amount - Cardinality(MarkedOf(l, "Sold"))
      /\ rows[l].status = "ACTIVE" \/ rows[l].left = 0 \/ MarkedOf(l, "Cancelled") # {} \/ MarkedOf(l, "Expired") # {}

ResaleIInv == TypeOK /\ ChainTrue /\ InHand /\ Mirrored /\ Separate /\ InTurn /\ Ready
=============================================================================
