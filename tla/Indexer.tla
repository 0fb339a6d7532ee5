-------------------------------- MODULE Indexer --------------------------------
(***************************************************************************)
(* The blockchain indexer: one worker that scans the logs of a release and *)
(* of its primary sale into the database, rewinds across a reorganisation  *)
(* and rebuilds what is derived from the logs (server/indexer.js,          *)
(* server/indexer-store.js, server/indexer-worker.js).  A cycle is a step  *)
(* per RPC read and per database transaction; the worker may die, or the   *)
(* RPC or the database fail, between any two.                              *)
(*                                                                         *)
(* Every transaction mints one unit of one token to one wallet: the        *)
(* release logs the mint, and the sale logs the purchase of those it sold. *)
(* A block is its hash (the fork it was mined on) and its transactions.    *)
(*                                                                         *)
(* Left out: the other kinds of contract (the marketplace is Resale), the  *)
(* lease of the worker (WorkerLease), RPC pacing (RpcPacer), malformed     *)
(* logs.                                                                   *)
(***************************************************************************)
EXTENDS Integers, SequencesExt

CONSTANTS
  Txs,             \* mint transactions
  Sales,           \* those made through the primary sale
  Configurations,  \* the contracts that may be indexed, in order: a "release", alone or with its "sale"
  Confirmations, ChunkSize, MaxChunks,
  MaxHeight, MaxForks, MaxFaults   \* bounds: blocks, reorganisations, faults

ASSUME IndexerAssumption ==
  /\ IsFiniteSet(Txs) /\ Sales \subseteq Txs
  /\ \A c \in Configurations : c \in Seq({"release", "sale"}) /\ Len(c) = Cardinality(ToSet(c)) /\ "release" \in ToSet(c)
  /\ Confirmations \in Nat /\ ChunkSize \in Nat \ {0} /\ MaxChunks \in Nat \ {0}
  /\ {MaxHeight, MaxForks, MaxFaults} \subseteq Nat

VARIABLES
  configs,      \* the contracts this deployment indexes
  chain,        \* the canonical chain
  forks,        \* reorganisations so far
  perils,       \* history: circumstances of a reorganisation the properties set apart, see Reorg
  faults,       \* history: failed cycles, rebuilds whose failure was not recorded, crashes, reorganisations during a cycle
  blocks,       \* chain_blocks: the canonical hash recorded of a height, or None
  transfers,    \* transfers: a row per mint
  purchased,    \* blockchain_events: a row per Purchased log
  purchases,    \* primary_purchases, with primary_sale_projections their marker
  snapshot,     \* ownership_snapshots: the row of the wallet
  job,          \* indexer_rebuild_jobs
  checkpoint,   \* indexer_checkpoints
  worker        \* the cycle in flight

vars == <<configs, chain, forks, perils, faults, blocks, transfers, purchased, purchases, snapshot, job, checkpoint, worker>>
world == <<configs, chain, forks, perils, faults>>
rows == <<transfers, purchased, purchases, snapshot>>

-----------------------------------------------------------------------------
Heights == 1..MaxHeight
members == ToSet(configs)
FirstOf(S) == configs[Min({i \in DOMAIN configs : configs[i] \in S})]
None == -1
OnChain == UNION {chain[h].txs : h \in DOMAIN chain}
Logs(m) == IF m = "sale" THEN Sales ELSE Txs
NoRow == [at |-> 0, hash |-> None, canonical |-> FALSE]
NoPurchase == [at |-> 0, hash |-> None, status |-> "NONE"]
Canonical(table) == {t \in Txs : table[t].canonical}

Idle == [step |-> "idle", latest |-> 0, next |-> [m \in members |-> 0], chunk |-> 0, end |-> 0, at |-> 0,
         from |-> 0, logs |-> {}, todo |-> {}, due |-> {}]
Admitted == {m \in members : worker.next[m] # 0}
Target == worker.latest - Confirmations

\* Mutant: the target block itself is left out.
ActiveMembersShort == {m \in Admitted : worker.next[m] < Target}

ActiveMembers == {m \in Admitted : worker.next[m] <= Target}

Init ==
  /\ configs \in Configurations
  /\ chain = <<>> /\ forks = 0 /\ perils = {} /\ faults = [failed |-> 0, unrecorded |-> 0, crashed |-> 0, during |-> 0]
  /\ blocks = [h \in Heights |-> None]
  /\ transfers = [t \in Txs |-> NoRow] /\ purchased = [t \in Txs |-> NoRow]
  /\ purchases = [t \in Txs |-> NoPurchase]
  /\ snapshot = [amount |-> 0, at |-> 0, pending |-> FALSE]
  /\ job = "NONE"
  /\ checkpoint = [m \in members |-> [next |-> 1, last |-> 0, status |-> "NONE", succeeded |-> FALSE]]
  /\ worker = Idle

-----------------------------------------------------------------------------
\* The chain.

\* A block mined during a cycle is above the tip the cycle read, as if it came after.
Mine(txs) ==
  /\ worker.step = "idle" /\ Len(chain) < MaxHeight /\ txs \subseteq Txs \ OnChain /\ Cardinality(txs) <= 1
  /\ chain' = Append(chain, [hash |-> forks, txs |-> txs])
  /\ perils' = perils \cup (IF \E t \in txs : transfers[t] # NoRow THEN {"remined"} ELSE {})
  /\ UNCHANGED <<configs, forks, faults, blocks, rows, job, checkpoint, worker>>

FaultsSoFar == faults.failed + faults.unrecorded + faults.crashed + faults.during
Faulty == FaultsSoFar < MaxFaults

(***************************************************************************)
(* Blocks from h on are replaced, at any depth and at any moment, and one  *)
(* of the transactions that are not below h is mined in their place.       *)
(***************************************************************************)
Recorded == {i \in Heights : blocks[i] # None}

Reorg(h) ==
  /\ h \in DOMAIN chain /\ forks < MaxForks
  /\ forks' = forks + 1
  /\ IF worker.step = "idle" THEN UNCHANGED faults
     ELSE Faulty /\ faults' = [faults EXCEPT !.during = @ + 1]
  /\ \E t \in {{}} \cup {{x} : x \in Txs \ UNION {chain[i].txs : i \in 1..(h - 1)}} : \E at \in h..Len(chain) :
       /\ chain' = [i \in DOMAIN chain |-> IF i < h THEN chain[i]
                                           ELSE [hash |-> forks', txs |-> IF i = at THEN t ELSE {}]]
       /\ perils' = perils \cup (IF \E x \in t : transfers[x] # NoRow THEN {"remined"} ELSE {})
                           \cup (IF \A i \in Recorded : i >= h THEN {"bottom"} ELSE {})
  /\ UNCHANGED <<configs, blocks, rows, job, checkpoint, worker>>

-----------------------------------------------------------------------------
\* The store.

Orphan(table, from) == [t \in Txs |-> IF table[t].at >= from THEN [table[t] EXCEPT !.canonical = FALSE] ELSE table[t]]

\* handleReorg, one transaction; a row that was never recorded is at 0.
HandleReorg(from) ==
  /\ blocks' = [h \in Heights |-> IF h >= from THEN None ELSE blocks[h]]
  /\ transfers' = Orphan(transfers, from) /\ purchased' = Orphan(purchased, from)
  /\ purchases' = [t \in Txs |-> IF purchases[t].at >= from THEN [purchases[t] EXCEPT !.status = "REORGED"] ELSE purchases[t]]
  /\ snapshot' = IF snapshot.at >= from THEN [snapshot EXCEPT !.pending = TRUE] ELSE snapshot
  /\ job' = "PENDING"

Credit(h) == snapshot' = [amount |-> snapshot.amount + 1, at |-> h, pending |-> FALSE]

\* applyTransfer: the row and the balance in one transaction; mints of the sale leave the balance to its own log.
ApplyTransfer(t, h, hash) ==
  /\ IF transfers[t] # NoRow THEN UNCHANGED <<transfers, snapshot>>
     ELSE /\ transfers' = [transfers EXCEPT ![t] = [at |-> h, hash |-> hash, canonical |-> TRUE]]
          /\ IF t \in Sales /\ "sale" \in members THEN UNCHANGED snapshot ELSE Credit(h)
  /\ UNCHANGED <<purchased, purchases>>

\* recordEvent of the Purchased log, a transaction before that of applyPrimaryPurchase; both ignore what they have.
Noted(t, h, hash) ==
  IF purchased[t] # NoRow THEN purchased ELSE [purchased EXCEPT ![t] = [at |-> h, hash |-> hash, canonical |-> TRUE]]

\* Mutant: a purchase is credited again when its marker exists.
UnmarkedAlways(t) == TRUE

Unmarked(t) == purchases[t].status = "NONE"

ApplyPurchase(t, h, hash) ==
  IF Unmarked(t)
  THEN purchases' = [purchases EXCEPT ![t] = [at |-> h, hash |-> hash, status |-> "CONFIRMED"]] /\ Credit(h)
  ELSE UNCHANGED <<purchases, snapshot>>

-----------------------------------------------------------------------------
\* A cycle of the worker: rebuild what is pending, admit every contract, scan, finish, rebuild.

\* Mutant: a rebuild that failed is not tried again.
RebuildablePending == job = "PENDING"

Rebuildable == job \in {"PENDING", "FAILED"}

\* rebuildDerivedState: marked as running, derived again from the canonical rows, replayed, marked as completed.
BeginRebuild ==
  /\ worker.step \in {"idle", "rebuildAfter"} /\ Rebuildable
  /\ job' = "RUNNING"
  /\ worker' = [worker EXCEPT !.step = IF @ = "idle" THEN "rebuild" ELSE @]
  /\ UNCHANGED <<world, blocks, rows, checkpoint>>

Derive ==
  /\ worker.step \in {"rebuild", "rebuildAfter"} /\ job = "RUNNING" /\ worker.todo = {}
  /\ snapshot' = [amount |-> Cardinality(Canonical(transfers)), pending |-> FALSE,
                  at |-> Max({0} \cup {transfers[t].at : t \in Canonical(transfers)})]
  /\ purchases' = [t \in Txs |-> NoPurchase]
  /\ worker' = [worker EXCEPT !.todo = {0}]
  /\ UNCHANGED <<world, blocks, transfers, purchased, job, checkpoint>>

Replay ==
  /\ worker.step \in {"rebuild", "rebuildAfter"} /\ worker.todo # {}
  /\ purchases' = [t \in Txs |-> IF purchased[t].canonical
                                 THEN [at |-> purchased[t].at, hash |-> purchased[t].hash, status |-> "CONFIRMED"]
                                 ELSE purchases[t]]
  /\ job' = "COMPLETED"
  /\ worker' = [worker EXCEPT !.step = IF worker.step = "rebuild" THEN "tip" ELSE "idle", !.todo = {}]
  /\ UNCHANGED <<world, blocks, transfers, purchased, snapshot, checkpoint>>

\* syncAll reads the tip once.
ReadTip ==
  /\ worker.step = "tip" \/ (worker.step = "idle" /\ ~Rebuildable)
  /\ worker' = [worker EXCEPT !.step = "admit", !.latest = Len(chain)]
  /\ UNCHANGED <<world, blocks, rows, job, checkpoint>>

\* verifyCanonicalCheckpoint: only a recorded block with another hash is a reorg.
RecordedTo(m) == {h \in 1..checkpoint[m].last : blocks[h] # None}
Agreed(m) == {h \in RecordedTo(m) : h <= Len(chain) /\ blocks[h] = chain[h].hash}
Diverged(m) == {h \in RecordedTo(m) : \A a \in Agreed(m) : h > a}

\* Mutant: the walk back stops at the first block that differs.
RewindToLast(m) == Max(Diverged(m))

RewindTo(m) == IF Agreed(m) = {} THEN Min(Diverged(m)) ELSE Max(Agreed(m)) + 1

\* The next contract to be admitted.
Joining == FirstOf(members \ Admitted)

Verify ==
  /\ worker.step = "admit" /\ worker.from = 0 /\ Diverged(Joining) # {}
  /\ HandleReorg(RewindTo(Joining))
  /\ worker' = [worker EXCEPT !.from = RewindTo(Joining)]
  /\ UNCHANGED <<world, checkpoint>>

LastAdmitted(m) == IF worker.from = 0 THEN checkpoint[m].last ELSE worker.from - 1

Admit ==
  /\ worker.step = "admit" /\ (worker.from = 0 => Diverged(Joining) = {})
  /\ LET m == Joining
         next == IF worker.from = 0 THEN checkpoint[m].next ELSE worker.from
     IN /\ checkpoint' = [checkpoint EXCEPT ![m] = [@ EXCEPT !.next = next, !.last = LastAdmitted(m), !.status = "RUNNING"]]
        /\ worker' = [worker EXCEPT !.next[m] = next, !.from = 0,
                                    !.step = IF Admitted \cup {m} = members THEN "scan" ELSE "admit"]
  /\ UNCHANGED <<world, blocks, rows, job>>

\* One eth_getLogs for every contract whose next block is in the range.
Start == Min({worker.next[m] : m \in ActiveMembers})
ChunkEnd == Min({Target, Start + ChunkSize - 1})
Accepted ==
  {l \in members \X Heights \X Txs :
     l[1] \in ActiveMembers /\ l[2] \in worker.next[l[1]]..ChunkEnd /\ l[3] \in chain[l[2]].txs \cap Logs(l[1])}

FetchLogs ==
  /\ worker.step = "scan" /\ ActiveMembers # {} /\ worker.chunk < MaxChunks
  /\ LET logs == {<<l[1], l[2], l[3], chain[l[2]].hash>> : l \in Accepted}
         last == ChunkEnd >= Target \/ worker.chunk + 1 >= MaxChunks
     IN worker' = [worker EXCEPT !.step = "block", !.end = ChunkEnd, !.logs = logs,
                     !.todo = {l[2] : l \in logs} \cup IF last THEN {ChunkEnd} ELSE {}]
  /\ UNCHANGED <<world, blocks, rows, job, checkpoint>>

Participating == {m \in Admitted : worker.next[m] <= worker.end}
NextBlock == Min(worker.todo)

\* getBlock and ensureCanonical: a recorded block that changed orphans what is above it.
FetchBlock ==
  /\ worker.step = "block" /\ worker.due = {} /\ worker.todo # {}
  /\ LET h == NextBlock  hash == chain[h].hash IN
     /\ worker' = [worker EXCEPT !.step = IF blocks[h] \in {None, hash} THEN "block" ELSE "regress",
                                 !.at = h, !.todo = @ \ {h}, !.due = {l \in worker.logs : l[2] = h}]
     /\ IF blocks[h] \in {None, hash}
        THEN blocks' = [blocks EXCEPT ![h] = hash] /\ UNCHANGED <<rows, job>>
        ELSE HandleReorg(h)
  /\ UNCHANGED <<world, checkpoint>>

RegressGroup ==
  /\ worker.step = "regress"
  /\ checkpoint' = [m \in members |->
       IF m \in Participating THEN [checkpoint[m] EXCEPT !.next = worker.at, !.last = worker.at - 1, !.status = "REORGING"]
       ELSE checkpoint[m]]
  /\ blocks' = [blocks EXCEPT ![worker.at] = chain[worker.at].hash]
  /\ worker' = [worker EXCEPT !.step = "block"]
  /\ UNCHANGED <<world, rows, job>>

\* processLog, in log order: a mint before its purchase.
ProcessLog(l) ==
  /\ worker.step = "block" /\ l \in worker.due
  /\ l[1] = "sale" => \A k \in worker.due : k[3] = l[3] => k[1] = "sale"
  /\ IF l[1] = "release"
     THEN ApplyTransfer(l[3], l[2], l[4]) /\ worker' = [worker EXCEPT !.due = @ \ {l}]
     ELSE IF purchased[l[3]] = NoRow
     THEN purchased' = Noted(l[3], l[2], l[4]) /\ UNCHANGED <<transfers, purchases, snapshot, worker>>
     ELSE /\ ApplyPurchase(l[3], l[2], l[4]) /\ worker' = [worker EXCEPT !.due = @ \ {l}]
          /\ UNCHANGED <<transfers, purchased>>
  /\ UNCHANGED <<world, blocks, job, checkpoint>>

\* Every checkpoint of the chunk, a statement each.
Advance ==
  /\ worker.step = "block" /\ worker.due = {} /\ worker.todo = {} /\ Participating # {}
  /\ LET m == FirstOf(Participating) IN
     /\ checkpoint' = [checkpoint EXCEPT ![m] = [@ EXCEPT !.next = worker.end + 1, !.last = worker.end, !.status = "RUNNING"]]
     /\ worker' = IF Participating = {m}
                  THEN [worker EXCEPT !.next[m] = worker.end + 1, !.step = "scan", !.chunk = @ + 1, !.logs = {}, !.at = 0, !.end = 0]
                  ELSE [worker EXCEPT !.next[m] = worker.end + 1]
  /\ UNCHANGED <<world, blocks, rows, job>>

\* Mutant: whatever block is recorded at its height will do.
FinalizedAt(upTo) ==
  [t \in Txs |-> IF purchases[t].status = "CONFIRMED" /\ purchases[t].at <= upTo
                 THEN [purchases[t] EXCEPT !.status = "FINALIZED"] ELSE purchases[t]]

\* finalizePrimaryPurchases: still in the canonical block it was indexed from, as recorded.
Finalized(upTo) ==
  [t \in Txs |-> IF /\ purchases[t].status = "CONFIRMED" /\ purchases[t].at <= upTo
                    /\ blocks[purchases[t].at] = purchases[t].hash
                 THEN [purchases[t] EXCEPT !.status = "FINALIZED"] ELSE purchases[t]]

\* The scan is over: a contract that reached the target has succeeded, one that spent its budget has not.
FinishScan ==
  /\ worker.step = "scan" /\ (ActiveMembers = {} \/ worker.chunk >= MaxChunks)
  /\ checkpoint' = [m \in members |->
       IF m \in ActiveMembers THEN [checkpoint[m] EXCEPT !.status = "RUNNING"]
       ELSE [checkpoint[m] EXCEPT !.last = worker.next[m] - 1, !.status = "IDLE", !.succeeded = TRUE]]
  /\ purchases' = IF "sale" \in members THEN Finalized(worker.next["sale"] - 1) ELSE purchases
  /\ worker' = IF Rebuildable THEN [Idle EXCEPT !.step = "rebuildAfter"] ELSE Idle
  /\ UNCHANGED <<world, blocks, transfers, purchased, snapshot, job>>

\* What a step of a cycle was doing it for, and where each of those contracts resumes.
Failing ==
  CASE worker.step = "scan" /\ ActiveMembers # {} /\ worker.chunk < MaxChunks -> {m \in ActiveMembers : worker.next[m] <= ChunkEnd}
    [] worker.step = "scan" -> Admitted
    [] OTHER -> {m \in Admitted : worker.next[m] <= worker.end \/ worker.todo = {}}
ResumeAt(m) == IF worker.step = "block" /\ worker.due = {} /\ worker.todo # {} THEN Max({worker.next[m], NextBlock}) ELSE worker.next[m]

\* An RPC or database failure ends the cycle: persistPartialChunk and persistFailure, unless a rewind came in between.
FailedAt(m) ==
  [checkpoint[m] EXCEPT !.next = ResumeAt(m), !.status = "FAILED",
     !.last = IF ResumeAt(m) > worker.next[m] THEN ResumeAt(m) - 1 ELSE @]

Fail ==
  /\ worker.step \in {"scan", "block", "regress"} /\ Faulty
  /\ checkpoint' = [m \in members |-> IF m \in Failing /\ ResumeAt(m) >= checkpoint[m].next THEN FailedAt(m) ELSE checkpoint[m]]
  /\ worker' = Idle /\ faults' = [faults EXCEPT !.failed = @ + 1]
  /\ UNCHANGED <<configs, chain, forks, perils, blocks, rows, job>>

\* A contract that cannot be admitted is marked alone, and not at all after it was rewound.
FailToAdmit ==
  /\ worker.step = "admit" /\ Faulty
  /\ checkpoint' = IF worker.from # 0 THEN checkpoint ELSE [checkpoint EXCEPT ![Joining].status = "FAILED"]
  /\ worker' = Idle /\ faults' = [faults EXCEPT !.failed = @ + 1]
  /\ UNCHANGED <<configs, chain, forks, perils, blocks, rows, job>>

\* A rebuild under way is marked as failed; the error of that update too is swallowed, and the job stays as it is.
FailToRebuild ==
  /\ worker.step \in {"rebuild", "rebuildAfter"} /\ Faulty
  /\ \/ job = "RUNNING" /\ job' = "FAILED" /\ faults' = [faults EXCEPT !.failed = @ + 1]
     \/ job = "RUNNING" /\ UNCHANGED job /\ faults' = [faults EXCEPT !.unrecorded = @ + 1]
     \/ job # "RUNNING" /\ UNCHANGED job /\ faults' = [faults EXCEPT !.failed = @ + 1]   \* before it was marked as running
  /\ worker' = Idle
  /\ UNCHANGED <<configs, chain, forks, perils, blocks, rows, checkpoint>>

\* The process dies and starts again.
Crash ==
  /\ worker.step # "idle" /\ Faulty
  /\ worker' = Idle /\ faults' = [faults EXCEPT !.crashed = @ + 1]
  /\ UNCHANGED <<configs, chain, forks, perils, blocks, rows, job, checkpoint>>

Cycle ==
  \/ BeginRebuild \/ Derive \/ Replay \/ ReadTip \/ Verify \/ Admit \/ FetchLogs \/ FetchBlock \/ RegressGroup \/ Advance \/ FinishScan
  \/ \E l \in worker.due : ProcessLog(l)

Next ==
  \/ \E txs \in SUBSET Txs : Mine(txs)
  \/ \E h \in Heights : Reorg(h)
  \/ Cycle \/ Fail \/ FailToAdmit \/ FailToRebuild \/ Crash

\* The worker starts a cycle whenever the last one ended, and is started again when it died.
Spec == Init /\ [][Next]_vars /\ WF_vars(Cycle)

-----------------------------------------------------------------------------
Quiet == worker.step = "idle"
Unharmed == FaultsSoFar = 0

\* The row that stands for transaction t in what was indexed of contract m.
RowOf(m, t) == IF m = "sale" THEN purchased[t] ELSE transfers[t]

(***************************************************************************)
(* Nothing is skipped: below a contract's checkpoint every log of the      *)
(* canonical chain has its canonical row, whatever failed or died, unless  *)
(* a reorganisation the next cycle will find replaced its block.  Set      *)
(* apart: a reorganisation of more than one contract, together with a      *)
(* fault, below every recorded block, or with an orphaned transaction      *)
(* mined again.                                                            *)
(***************************************************************************)
Missing(m) ==
  {h \in DOMAIN chain : /\ h < checkpoint[m].next
                        /\ \E t \in chain[h].txs \cap Logs(m) : ~RowOf(m, t).canonical \/ RowOf(m, t).hash # chain[h].hash}
Detected(m, h) == Diverged(m) # {} /\ RewindTo(m) <= h

IndexComplete ==
  Quiet /\ perils = {} /\ (forks > 0 => Unharmed /\ Len(configs) = 1) =>
    \A m \in members : \A h \in Missing(m) : Detected(m, h)

\* The same of contracts that are scanned together, as a chain's are by default.
GroupIndexComplete ==
  Quiet /\ perils = {} /\ (forks > 0 => Unharmed) =>
    \A m \in members : \A h \in Missing(m) : \E k \in members : Detected(k, h)

(***************************************************************************)
(* No phantom: a canonical row stands in the chain, or the next cycle will *)
(* find the reorganisation that replaced its block and orphan the row.     *)
(***************************************************************************)
NoPhantom ==
  Quiet /\ Unharmed =>
    \A t \in Canonical(transfers) :
      \/ chain[transfers[t].at].hash = transfers[t].hash /\ t \in chain[transfers[t].at].txs
      \/ \E m \in members : Detected(m, transfers[t].at)

\* Both: the index holds the logs of the chain, all of them and no others.
IndexTrue == IndexComplete /\ NoPhantom

\* A finalized purchase is in the block that is recorded as canonical, whatever happens.
FinalizedStands ==
  \A t \in Txs : purchases[t].status = "FINALIZED" => blocks[purchases[t].at] = purchases[t].hash

(***************************************************************************)
(* What media access relies on: between cycles, with nothing left to       *)
(* rebuild, the wallet's balance is what its canonical mints say; a unit   *)
(* of the sale counts once, from the mint, its purchase or a rebuild, also *)
(* when the worker died in between.                                        *)
(***************************************************************************)
Credited == {t \in Canonical(transfers) : t \in Sales /\ "sale" \in members => purchases[t].status # "NONE"}

SnapshotMatches ==
  Quiet /\ job \in {"NONE", "COMPLETED"} =>
    /\ forks = 0 => snapshot.amount = Cardinality(Credited)
    /\ (forks = 0 /\ Unharmed) \/ Len(configs) = 1 => snapshot.amount = Cardinality(Canonical(transfers))

\* However far behind and however it was interrupted, every contract catches up with the chain.
CatchesUp == \A m \in {"release", "sale"} : []<>(m \in members => checkpoint[m].next > Len(chain) - Confirmations)

\* A rebuild that was asked for or failed is completed, unless the process died in the middle of one or the
\* failure of one could not be recorded: either leaves the job running for good, and no cycle takes it up.
RebuildDone == job \in {"PENDING", "FAILED"} ~> job = "COMPLETED" \/ faults.crashed > 0 \/ faults.unrecorded > 0
=============================================================================
