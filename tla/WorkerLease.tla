------------------------------ MODULE WorkerLease ------------------------------
(***************************************************************************)
(* Several processes of the indexer worker on one database, one of them at *)
(* a time by a lease with heartbeats (server/indexer-worker.js,            *)
(* server/indexer-store.js).  The lease is looked at when a cycle begins   *)
(* and on the way through a scan, never by the statements that write: a    *)
(* worker that outlives its lease goes on beside its successor until it    *)
(* next reports.                                                           *)
(*                                                                         *)
(* What the cycles do is taken from Indexer, with one sale and its release *)
(* on a chain that does not change: a block holds one purchase.  Left out: *)
(* failed calls and statements, reorganisations and with them a job that   *)
(* becomes due during a cycle, the settlement loop (Resale), ownership     *)
(* reconciliation.                                                         *)
(***************************************************************************)
EXTENDS Integers, FiniteSets

CONSTANTS
  Workers, Nobody, Gone,   \* processes; no owner; the owner id of a process that died
  Ttl,                     \* leaseTtlMs
  Height, ChunkSize        \* blocks to index, blocks of a chunk

LeaseAssumption ==
  /\ Nobody \notin Workers /\ Gone \notin Workers /\ Nobody # Gone
  /\ Ttl \in Nat /\ Height \in Nat /\ ChunkSize \in Nat \ {0}

VARIABLES
  lease,     \* indexer_worker_leases: the owner and the age of heartbeat_at
  worker,    \* what each process is doing; since: the age of its own last good heartbeat
  next,      \* indexer_checkpoints.next_block
  rows,      \* blocks whose transfer, event and purchase is stored
  balance,   \* the buyer's ownership snapshot
  job,       \* indexer_rebuild_jobs
  perils     \* history: a worker wrote without the lease, a process died rebuilding

vars == <<lease, worker, next, rows, balance, job, perils>>
tables == <<next, rows, balance, job>>

-----------------------------------------------------------------------------
Blocks == 1..Height
Ages == 0..(Ttl + 1)
Older(age) == IF age > Ttl THEN age ELSE age + 1

Stopped == [step |-> "stopped", from |-> 0, at |-> 0, since |-> Ttl + 1]

\* Indexed up to some block, with a rebuild outstanding or not.
Init ==
  /\ next \in 1..(Height + 1)
  /\ rows = [transfers |-> 1..(next - 1), events |-> 1..(next - 1), purchases |-> 1..(next - 1)]
  /\ balance = next - 1
  /\ job \in {"NONE", "PENDING"}
  /\ lease = [owner |-> Nobody, age |-> 0]
  /\ worker = [w \in Workers |-> Stopped]
  /\ perils = {}

At(w, step) == worker[w].step = step
Goes(w, step) == worker' = [worker EXCEPT ![w].step = step]

\* Mutant: as long as its age is the limit, not past it.
FreeAtLimit == lease.owner = Nobody \/ lease.age >= Ttl

Free == lease.owner = Nobody \/ lease.age > Ttl

Tick ==
  /\ lease' = [lease EXCEPT !.age = IF lease.owner = Nobody THEN 0 ELSE Older(@)]
  /\ worker' = [w \in Workers |-> [worker[w] EXCEPT !.since = Older(@)]]
  /\ UNCHANGED <<tables, perils>>

\* A process starts, with an owner id of its own, and tries until it has the lease.
Start(w) ==
  /\ At(w, "stopped") /\ Goes(w, "waiting")
  /\ UNCHANGED <<lease, tables, perils>>

Acquire(w) ==
  /\ At(w, "waiting") /\ Free
  /\ lease' = [owner |-> w, age |-> 0]
  /\ worker' = [worker EXCEPT ![w].step = "cycle", ![w].since = 0]
  /\ UNCHANGED <<tables, perils>>

\* heartbeat: refreshes a lease that is still its own, otherwise an IndexerLeaseError ends the process.
Heartbeat(w, then) ==
  IF lease.owner = w
  THEN lease' = [lease EXCEPT !.age = 0] /\ worker' = [worker EXCEPT ![w].step = then, ![w].since = 0]
  ELSE worker' = [worker EXCEPT ![w] = Stopped] /\ UNCHANGED lease

\* A cycle begins: the heartbeat, then the rebuild job is looked up.
BeginCycle(w) ==
  /\ At(w, "cycle") /\ Heartbeat(w, IF job = "PENDING" THEN "rebuild" ELSE "admit")
  /\ UNCHANGED <<tables, perils>>

\* Between two calls to the node the pacer waits and reports.
ReportWaiting(w) ==
  /\ worker[w].step \in {"admit", "fetch"} /\ Heartbeat(w, worker[w].step)
  /\ UNCHANGED <<tables, perils>>

\* stop(): the cycle in flight is finished, then the lease is released.
Release(w) ==
  /\ worker[w].step \in {"waiting", "cycle"}
  /\ lease' = IF lease.owner = w THEN [owner |-> Nobody, age |-> 0] ELSE lease
  /\ worker' = [worker EXCEPT ![w] = Stopped]
  /\ UNCHANGED <<tables, perils>>

\* The process dies; its id never comes back.
Die(w) ==
  /\ ~At(w, "stopped")
  /\ lease' = IF lease.owner = w THEN [lease EXCEPT !.owner = Gone] ELSE lease
  /\ worker' = [worker EXCEPT ![w] = Stopped]
  /\ perils' = IF worker[w].step \in {"rebuild", "derive", "replay"} THEN perils \cup {"died"} ELSE perils
  /\ UNCHANGED tables

-----------------------------------------------------------------------------
\* What a cycle writes, whoever holds the lease.

Noticed(w) == perils' = IF lease.owner = w THEN perils ELSE perils \cup {"outlived"}

\* rebuildDerivedState, which does not report on its way: marked, derived again, replayed.
MarkRunning(w) ==
  /\ At(w, "rebuild") /\ job' = "RUNNING" /\ Goes(w, "derive")
  /\ Noticed(w) /\ UNCHANGED <<lease, next, rows, balance>>

Derive(w) ==
  /\ At(w, "derive") /\ balance' = Cardinality(rows.transfers) /\ rows' = [rows EXCEPT !.purchases = {}]
  /\ Goes(w, "replay")
  /\ Noticed(w) /\ UNCHANGED <<lease, next, job>>

Replay(w) ==
  /\ At(w, "replay") /\ rows' = [rows EXCEPT !.purchases = @ \cup rows.events] /\ job' = "COMPLETED"
  /\ Goes(w, "admit")
  /\ Noticed(w) /\ UNCHANGED <<lease, next, balance>>

\* syncGroup takes up the stored checkpoint.
Admit(w) ==
  /\ At(w, "admit")
  /\ worker' = [worker EXCEPT ![w].step = IF next > Height THEN "cycle" ELSE "fetch", ![w].from = next, ![w].at = next]
  /\ UNCHANGED <<lease, tables, perils>>

Least(a, b) == IF a < b THEN a ELSE b
ChunkEnd(w) == Least(Height, worker[w].from + ChunkSize - 1)

Fetch(w) ==
  /\ At(w, "fetch") /\ Goes(w, "transfer")
  /\ UNCHANGED <<lease, tables, perils>>

\* The logs of a block, each stored by a transaction that ignores what it has: the mint, and the purchase in two.
StoreTransfer(w) ==
  /\ At(w, "transfer") /\ rows' = [rows EXCEPT !.transfers = @ \cup {worker[w].at}] /\ Goes(w, "event")
  /\ Noticed(w) /\ UNCHANGED <<lease, next, balance, job>>

StoreEvent(w) ==
  /\ At(w, "event") /\ rows' = [rows EXCEPT !.events = @ \cup {worker[w].at}] /\ Goes(w, "purchase")
  /\ Noticed(w) /\ UNCHANGED <<lease, next, balance, job>>

StorePurchase(w) ==
  /\ At(w, "purchase")
  /\ balance' = IF worker[w].at \in rows.purchases THEN balance ELSE balance + 1
  /\ rows' = [rows EXCEPT !.purchases = @ \cup {worker[w].at}] /\ Goes(w, "report")
  /\ Noticed(w) /\ UNCHANGED <<lease, next, job>>

\* onProgress after each block.
Report(w) ==
  /\ At(w, "report")
  /\ IF lease.owner # w THEN worker' = [worker EXCEPT ![w] = Stopped] /\ UNCHANGED lease
     ELSE /\ lease' = [lease EXCEPT !.age = 0]
          /\ worker' = [worker EXCEPT ![w].since = 0, ![w].step = IF worker[w].at < ChunkEnd(w) THEN "transfer" ELSE "advance",
                                      ![w].at = Least(ChunkEnd(w), @ + 1)]
  /\ UNCHANGED <<tables, perils>>

\* setCheckpoint refuses to go back.
MayAdvance(to) == to >= next

\* The end of a chunk, or a CheckpointRegressionError that fails the cycle.
Advance(w) ==
  /\ At(w, "advance")
  /\ LET to == ChunkEnd(w) + 1 IN
     IF MayAdvance(to)
     THEN /\ next' = to /\ Noticed(w)
          /\ worker' = [worker EXCEPT ![w].step = IF to > Height THEN "cycle" ELSE "fetch",
                                      ![w].from = IF to > Height THEN 0 ELSE to, ![w].at = IF to > Height THEN 0 ELSE to]
     ELSE worker' = [worker EXCEPT ![w].step = "cycle", ![w].from = 0, ![w].at = 0] /\ UNCHANGED <<next, perils>>
  /\ UNCHANGED <<lease, rows, balance, job>>

Next ==
  \/ Tick
  \/ \E w \in Workers :
       \/ Start(w) \/ Acquire(w) \/ BeginCycle(w) \/ ReportWaiting(w) \/ Release(w) \/ Die(w)
       \/ MarkRunning(w) \/ Derive(w) \/ Replay(w)
       \/ Admit(w) \/ Fetch(w) \/ StoreTransfer(w) \/ StoreEvent(w) \/ StorePurchase(w) \/ Report(w) \/ Advance(w)

Spec == Init /\ [][Next]_vars

-----------------------------------------------------------------------------
Steps == {"stopped", "waiting", "cycle", "rebuild", "derive", "replay", "admit", "fetch", "transfer", "event", "purchase",
          "report", "advance"}

\* Type correctness of the lease, the workers and the tables.
Lease == [owner : Workers \cup {Nobody, Gone}, age : Ages]
Worker == [step : Steps, from : 0..(Height + 1), at : 0..(Height + 1), since : Ages]
Rows == [transfers : SUBSET Blocks, events : SUBSET Blocks, purchases : SUBSET Blocks]

TypeOK ==
  /\ lease \in Lease /\ worker \in [Workers -> Worker] /\ next \in 1..(Height + 1) /\ rows \in Rows
  /\ balance \in Nat /\ job \in {"NONE", "PENDING", "RUNNING", "COMPLETED"} /\ perils \subseteq {"outlived", "died"}

(***************************************************************************)
(* Two workers never run side by side if both keep reporting: of two that  *)
(* are in their cycles one has not had a good heartbeat for longer than    *)
(* the lease lasts.                                                        *)
(***************************************************************************)
Running(w) == worker[w].step \notin {"stopped", "waiting"}
OneFresh == \A v, w \in Workers : v # w /\ Running(v) /\ Running(w) => worker[v].since > Ttl \/ worker[w].since > Ttl

(***************************************************************************)
(* Nothing is skipped, also when a worker outlives its lease and writes    *)
(* beside its successor: below the checkpoint every log is stored, and so  *)
(* is the purchase it stands for, unless a rebuild is or was cut short.    *)
(***************************************************************************)
Rebuilding == \E w \in Workers : worker[w].step \in {"derive", "replay"}
NothingSkipped ==
  /\ 1..(next - 1) \subseteq rows.transfers \cap rows.events
  /\ ~Rebuilding /\ "died" \notin perils => 1..(next - 1) \subseteq rows.purchases

(***************************************************************************)
(* Every purchase is credited once, whichever workers stored it, as long   *)
(* as no worker wrote without the lease: a rebuild that takes longer than  *)
(* the lease lasts may count a mint whose purchase the successor credits   *)
(* again.                                                                  *)
(***************************************************************************)
CreditedOnce == perils = {} /\ ~Rebuilding => balance = Cardinality(rows.purchases)

Exclusive == OneFresh /\ NothingSkipped /\ CreditedOnce

(***************************************************************************)
(* Why they hold.  The owner of the lease is as old in it as its own last  *)
(* heartbeat, and whoever has a fresh one is the owner.                    *)
(***************************************************************************)
LeaseReported ==
  \A w \in Workers : Running(w) =>
    /\ lease.owner = w => lease.age = worker[w].since
    /\ worker[w].since <= Ttl => lease.owner = w

\* What a worker has passed in its chunk is stored, and a rebuild that ends puts its purchases back.
Scans == {"fetch", "transfer", "event", "purchase", "report", "advance"}
Passed(w) == worker[w].from .. IF worker[w].step \in {"report", "advance"} THEN worker[w].at ELSE worker[w].at - 1
Whole == ~Rebuilding /\ "died" \notin perils

ChunkOf(w) ==
  worker[w].step \in Scans =>
    /\ 1 <= worker[w].from /\ worker[w].from <= next /\ worker[w].from <= worker[w].at /\ worker[w].at <= ChunkEnd(w)
    /\ At(w, "advance") => worker[w].at = ChunkEnd(w)
    /\ At(w, "fetch") => worker[w].at = worker[w].from
    /\ Passed(w) \subseteq rows.transfers \cap rows.events
    /\ worker[w].step \in {"event", "purchase"} => worker[w].at \in rows.transfers
    /\ At(w, "purchase") => worker[w].at \in rows.events
    /\ Whole => Passed(w) \subseteq rows.purchases
ChunkStored == \A w \in Workers : ChunkOf(w)

\* Until a rebuild that was pending begins nobody scans; and only the owner of the lease writes, while there is no peril.
RebuildFirst ==
  job = "PENDING" =>
    /\ \A w \in Workers : worker[w].step \in {"stopped", "waiting", "cycle", "rebuild"}
    /\ rows.transfers = rows.events

OwnerRebuilds ==
  \A w \in Workers : perils = {} /\ lease.owner = w =>
    /\ At(w, "rebuild") => job = "PENDING"
    /\ worker[w].step \in {"derive", "replay"} => rows.transfers = rows.events
    /\ At(w, "replay") => rows.purchases = {} /\ balance = Cardinality(rows.transfers)

IInv == TypeOK /\ LeaseReported /\ NothingSkipped /\ CreditedOnce /\ ChunkStored /\ RebuildFirst /\ OwnerRebuilds
=============================================================================
