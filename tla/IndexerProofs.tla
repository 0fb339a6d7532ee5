---------------------------- MODULE IndexerProofs ----------------------------
(***************************************************************************)
(* What the indexer's tables say of the chain (Indexer), for every set of  *)
(* transactions, height of the chain, chunk, and number of confirmations,  *)
(* reorganisations and faults: nothing below a checkpoint is missing and   *)
(* no row that counts is a phantom, unless the next cycle rewinds to it    *)
(* (IndexTrue), a finalized purchase is in the recorded block              *)
(* (FinalizedStands), and the balance counts the canonical mints           *)
(* (SnapshotMatches).                                                      *)
(*                                                                         *)
(* The three promises hold in different histories, and so do the parts of  *)
(* the invariant: Shaped, Standing and ChainSound always, Straight while   *)
(* no cycle was harmed, Unforked before a reorganisation whatever failed   *)
(* or died, Together in both, Alone for a release without a sale while no  *)
(* cycle was harmed, Balanced for it whatever failed or died.  A row is    *)
(* missing or a phantom for a while between a reorganisation and the       *)
(* rewind, so what the invariant keeps is where the rewind will stop: what *)
(* is recorded agrees with the chain up to some block and differs from     *)
(* there on (AgreementClosed), the walk back finds that block, what is     *)
(* missing is above it (MissingSeen, Caught) and so is every phantom       *)
(* (RowsStand).  In a chunk a log is done, due or of a block still to be   *)
(* fetched (ChunkDone).                                                    *)
(***************************************************************************)
EXTENDS Indexer, FiniteSetTheorems, WellFoundedInduction, TLAPS

Steps == {"idle", "rebuild", "rebuildAfter", "tip", "admit", "scan", "block", "regress"}
Log == members \X Heights \X Txs \X Nat
Row == [at : 0..MaxHeight, hash : Nat \cup {None}, canonical : BOOLEAN]
Purchase == [at : 0..MaxHeight, hash : Nat \cup {None}, status : {"NONE", "CONFIRMED", "FINALIZED", "REORGED"}]

WorkerType == [step : Steps, latest : Nat, next : [members -> Nat], chunk : Nat, end : Nat, at : Nat, from : Nat,
               logs : SUBSET Log, todo : SUBSET Nat, due : SUBSET Log]
CheckpointType == [next : Nat \ {0}, last : Nat, status : {"NONE", "RUNNING", "IDLE", "FAILED", "REORGING"}, succeeded : BOOLEAN]
SnapshotType == [amount : Nat, at : Nat, pending : BOOLEAN]
FaultsType == [failed : Nat, unrecorded : Nat, crashed : Nat, during : Nat]
Block == [hash : Nat, txs : SUBSET Txs]
ChainTyped == chain \in Seq(Block) /\ Len(chain) <= MaxHeight
RowsTyped == transfers \in [Txs -> Row] /\ purchased \in [Txs -> Row] /\ purchases \in [Txs -> Purchase] /\ snapshot \in SnapshotType

TypeOK ==
  /\ configs \in Configurations /\ ChainTyped /\ forks \in Nat /\ perils \subseteq {"remined", "bottom"} /\ faults \in FaultsType
  /\ blocks \in [Heights -> Nat \cup {None}] /\ RowsTyped
  /\ job \in {"NONE", "PENDING", "RUNNING", "FAILED", "COMPLETED"}
  /\ checkpoint \in [members -> CheckpointType] /\ worker \in WorkerType

Busy == worker.step \in {"block", "regress"}
Scanning == worker.step \in {"scan", "block", "regress"}

\* What the cycle holds at each of its steps.
Bounded ==
  /\ worker.latest <= Len(chain) /\ worker.end <= worker.latest /\ worker.from <= Len(chain)
  /\ \A m \in members : worker.next[m] <= Len(chain) + 1 /\ checkpoint[m].next <= Len(chain) + 1 /\ checkpoint[m].last <= Len(chain)

Admission ==
  /\ Scanning => Admitted = members
  /\ worker.step = "admit" => Admitted # members
  /\ ~Scanning /\ worker.step # "admit" => Admitted = {}
  /\ worker.from # 0 => worker.step = "admit"

Holding ==
  /\ ~Busy => worker.logs = {} /\ worker.due = {} /\ worker.todo \subseteq {0}
  /\ Busy => worker.todo \subseteq 1..worker.end /\ Target >= worker.end
  /\ worker.step \notin {"block", "regress", "rebuild", "rebuildAfter"} => worker.todo = {}
  /\ \A l \in worker.logs : l[2] <= worker.end /\ l[3] \in Logs(l[1])
  /\ worker.due \subseteq worker.logs /\ \A l \in worker.due : l[2] = worker.at

Regressing == worker.step = "regress" => worker.at \in DOMAIN chain /\ blocks[worker.at] = None

CycleShaped == Bounded /\ Admission /\ Holding /\ Regressing

Shaped == TypeOK /\ CycleShaped

\* A row that counts is of a block, and a finalized purchase of a recorded one.
OfABlock(row) == row.at \in Heights /\ row.hash # None
RowsWritten ==
  \A t \in Txs : /\ transfers[t].canonical => OfABlock(transfers[t])
                 /\ purchased[t].canonical => OfABlock(purchased[t])
                 /\ purchases[t].status \in {"CONFIRMED", "FINALIZED"} => OfABlock(purchases[t])

Standing == RowsWritten /\ FinalizedStands

\* Hashes are those of forks that were; a transaction is in one block.
ChainSound ==
  /\ \A h \in DOMAIN chain : chain[h].hash <= forks
  /\ \A h \in Recorded : h \in DOMAIN chain /\ blocks[h] <= forks
  /\ \A h, k \in DOMAIN chain : h # k => chain[h].txs \cap chain[k].txs = {}

Agrees(h) == h \in DOMAIN chain /\ blocks[h] = chain[h].hash

RowsStand ==
  \A t \in Txs : transfers[t].canonical =>
    /\ transfers[t].at \in Recorded /\ blocks[transfers[t].at] = transfers[t].hash
    /\ Agrees(transfers[t].at) => t \in chain[transfers[t].at].txs
AgreementClosed == \A h, k \in Recorded : h < k /\ Agrees(k) => Agrees(h)
RecordedCovered == \A h \in Recorded : (Busy /\ h <= worker.end) \/ \E m \in members : h <= checkpoint[m].last
Level ==
  /\ \A m \in members : checkpoint[m].last = checkpoint[m].next - 1
  /\ \A m \in Admitted : worker.next[m] = checkpoint[m].next
Walked ==
  /\ worker.step # "regress"
  /\ worker.step = "admit" => \A m \in Admitted : \A h \in Recorded : h <= checkpoint[m].last => Agrees(h)
  /\ worker.from # 0 => \A h \in Recorded : h < worker.from /\ Agrees(h)
  /\ Scanning => \A h \in Recorded : Agrees(h)
LogsStand ==
  /\ \A l \in worker.logs : l[2] \in DOMAIN chain /\ l[4] = chain[l[2]].hash /\ l[3] \in chain[l[2]].txs
  /\ worker.due # {} => Agrees(worker.at)

(***************************************************************************)
(* While no cycle failed or died and none met a reorganisation: rows that  *)
(* count are of recorded blocks, what is recorded agrees with the chain up *)
(* to some block and differs from there on, and the checkpoints cover it.  *)
(***************************************************************************)
Straight == RowsStand /\ AgreementClosed /\ RecordedCovered /\ Level /\ Walked /\ LogsStand
StraightWhenUnharmed == Unharmed => Straight

\* What was done for transaction t as contract m logs it, and what is still to be done of the chunk.
Done(m, t) == RowOf(m, t) # NoRow /\ (m = "sale" => purchases[t].status # "NONE")
Pending(m, h, t) ==
  <<m, h, t, chain[h].hash>> \in worker.due \/ (h \in worker.todo /\ <<m, h, t, chain[h].hash>> \in worker.logs)

BelowDone == \A m \in members, h \in DOMAIN chain : h < checkpoint[m].next => \A t \in chain[h].txs \cap Logs(m) : Done(m, t)
ChunkDone ==
  worker.step = "block" =>
    \A m \in members, h \in DOMAIN chain : h <= worker.end =>
      \A t \in chain[h].txs \cap Logs(m) : Done(m, t) \/ (h >= worker.next[m] /\ Pending(m, h, t))
OneAtATime == worker.due # {} => worker.at \notin worker.todo

\* Before any reorganisation.
RowsFirst ==
  \A t \in Txs : /\ transfers[t] # NoRow => /\ transfers[t].canonical /\ transfers[t].hash = 0
                                            /\ transfers[t].at \in DOMAIN chain /\ t \in chain[transfers[t].at].txs
                 /\ purchased[t] # NoRow => purchased[t].canonical /\ purchased[t].hash = 0
                 /\ purchases[t].status # "NONE" => transfers[t] # NoRow
Unturned ==
  /\ worker.from = 0 /\ worker.step \notin {"regress", "rebuild", "rebuildAfter"} /\ job = "NONE"
  /\ \A m \in Admitted : worker.next[m] = checkpoint[m].next
  /\ \A l \in worker.logs : l[2] \in DOMAIN chain /\ l[3] \in chain[l[2]].txs /\ l[4] = 0
Unforked == RowsFirst /\ Unturned /\ BelowDone /\ ChunkDone /\ OneAtATime /\ snapshot.amount = Cardinality(Credited)
BeforeForks == forks = 0 => Unforked

\* Unharmed and without a reorganisation, the contracts go together.
Together ==
  /\ worker.step # "block" => \A m, k \in members : checkpoint[m].next = checkpoint[k].next
  /\ worker.step = "block" => \E b \in 1..worker.end : \A m \in members : checkpoint[m].next \in {b, worker.end + 1}
  /\ \A t \in Txs : transfers[t] # NoRow => \/ worker.step = "block" /\ transfers[t].at <= worker.end
                                            \/ \E m \in members : transfers[t].at < checkpoint[m].next
TogetherUnharmed == forks = 0 /\ Unharmed => Together

\* A release alone, unharmed.
MissingRows == {h \in DOMAIN chain : h < checkpoint["release"].next /\ \E t \in chain[h].txs : transfers[t] = NoRow}
Caught(h) == (\E d \in Recorded : ~Agrees(d)) /\ \A a \in Recorded : Agrees(a) => a < h
RowsRight ==
  \A h \in DOMAIN chain : \A t \in chain[h].txs : transfers[t] # NoRow =>
    transfers[t].at = h /\ transfers[t].canonical /\ transfers[t].hash = chain[h].hash
MissingSeen == \A h \in MissingRows : IF worker.from = 0 THEN Caught(h) ELSE worker.from <= h
LowestStands == \A h \in Recorded : \E k \in Recorded : k <= h /\ Agrees(k)
LastRecorded ==
  /\ worker.from <= checkpoint["release"].last
  /\ worker.from > 1 => worker.from - 1 \in Recorded
  /\ checkpoint["release"].last > 0 =>
       \/ worker.from # 0
       \/ checkpoint["release"].last \in Recorded
       \/ worker.step = "scan" /\ ActiveMembers # {} /\ worker.chunk < MaxChunks
       \/ worker.step = "block"
  /\ worker.step = "block" => \/ worker.end \in Recorded
                              \/ worker.end \in worker.todo
                              \/ worker.end < Target /\ worker.chunk + 1 < MaxChunks
Alone == RowsRight /\ MissingSeen /\ (Scanning => BelowDone) /\ ChunkDone /\ OneAtATime /\ LowestStands /\ LastRecorded
AloneUnharmed == Unharmed /\ Len(configs) = 1 /\ perils = {} => Alone

Balanced ==
  job \in {"NONE", "COMPLETED"} \/ (worker.step \in {"rebuild", "rebuildAfter"} /\ worker.todo # {}) =>
    snapshot.amount = Cardinality(Canonical(transfers))
BalancedAlone == Len(configs) = 1 => Balanced

\* The inductive invariant.
IInv ==
  /\ Shaped /\ Standing /\ ChainSound /\ StraightWhenUnharmed
  /\ BeforeForks /\ TogetherUnharmed /\ AloneUnharmed /\ BalancedAlone

-----------------------------------------------------------------------------
\* Some numbers have a least one.
LEMMA LeastOfNaturals ==
  ASSUME NEW T, T \subseteq Nat, T # {} PROVE Min(T) \in T /\ \A y \in T : Min(T) <= y
<1> DEFINE R == StrictSubsetOrdering(Nat)
           U == {1..n : n \in T}
<1>1. U \subseteq FiniteSubsetsOf(Nat)
  <2> SUFFICES ASSUME NEW n \in T PROVE 1..n \in FiniteSubsetsOf(Nat)
    OBVIOUS
  <2>1. 1 \in Int /\ n \in Int
    OBVIOUS
  <2>2. IsFiniteSet(1..n)
    BY <2>1, FS_Interval
  <2>3. 1..n \in SUBSET Nat
    OBVIOUS
  <2> QED BY <2>2, <2>3 DEF FiniteSubsetsOf
<1>2. U # {}
  OBVIOUS
<1>3. IsWellFoundedOn(R, FiniteSubsetsOf(Nat))
  BY FS_StrictSubsetOrderingWellFounded
<1> HIDE DEF R
<1>4. PICK u \in U : \A v \in U : ~ (<<v, u>> \in R)
  BY <1>1, <1>2, <1>3, WFMin
<1>5. PICK x \in T : u = 1..x
  OBVIOUS
<1>6. ASSUME NEW y \in T, ~(x <= y) PROVE FALSE
  <2>1. 1..y \in U /\ x \in Nat /\ y \in Nat /\ y < x
    BY <1>6
  <2>2. 1..y \subseteq 1..x /\ x \in 1..x /\ x \notin 1..y
    BY <2>1
  <2>3. <<1..y, 1..x>> \in R
    <3>1. 1..y \in SUBSET Nat /\ 1..x \in SUBSET Nat /\ 1..y # 1..x
      BY <2>2
    <3>2. <<1..y, 1..x>> \in (SUBSET Nat) \X (SUBSET Nat)
      BY <3>1
    <3> QED BY <2>2, <3>1, <3>2 DEF R, StrictSubsetOrdering
  <2> QED BY <1>4, <1>5, <2>1, <2>3
<1>7. \E m \in T : \A y \in T : m <= y
  BY <1>6
<1> HIDE DEF U
<1> QED BY <1>7 DEF Min

\* And, being finite, a greatest one.
LEMMA GreatestOfFinite ==
  ASSUME NEW T, T \subseteq Nat, IsFiniteSet(T), T # {} PROVE Max(T) \in T /\ \A y \in T : y <= Max(T)
<1> DEFINE R == StrictSubsetOrdering(T)
           After(n) == {k \in T : k > n}
           U == {After(n) : n \in T}
<1>1. U \subseteq FiniteSubsetsOf(T)
  <2> SUFFICES ASSUME NEW n \in T PROVE After(n) \in FiniteSubsetsOf(T)
    OBVIOUS
  <2>1. After(n) \in SUBSET T
    OBVIOUS
  <2>2. IsFiniteSet(After(n))
    BY <2>1, FS_Subset
  <2> QED BY <2>1, <2>2 DEF FiniteSubsetsOf
<1>2. U # {}
  OBVIOUS
<1>3. IsWellFoundedOn(R, FiniteSubsetsOf(T))
  BY FS_StrictSubsetOrderingWellFounded
<1> HIDE DEF R
<1>4. PICK u \in U : \A v \in U : ~ (<<v, u>> \in R)
  BY <1>1, <1>2, <1>3, WFMin
<1>5. PICK x \in T : u = After(x)
  OBVIOUS
<1>6. ASSUME NEW y \in T, ~(y <= x) PROVE FALSE
  <2>1. After(y) \in U /\ x \in Nat /\ y \in Nat /\ x < y
    BY <1>6
  <2>2. After(y) \subseteq After(x) /\ y \in After(x) /\ y \notin After(y)
    <3>1. \A k \in T : k \in Nat /\ (k > y => k > x)
      BY <2>1
    <3>2. y > x /\ ~(y > y) /\ y \in T
      BY <2>1
    <3> HIDE <2>1
    <3> QED BY <3>1, <3>2
  <2>3. <<After(y), After(x)>> \in R
    <3>1. After(y) \in SUBSET T /\ After(x) \in SUBSET T /\ After(y) # After(x)
      BY <2>2
    <3> HIDE DEF After
    <3>2. <<After(y), After(x)>> \in (SUBSET T) \X (SUBSET T)
      BY <3>1
    <3> QED BY <2>2, <3>1, <3>2 DEF R, StrictSubsetOrdering
  <2> QED BY <1>4, <1>5, <2>1, <2>3
<1>7. \E m \in T : \A y \in T : y <= m
  BY <1>6
<1> HIDE DEF U, After
<1> QED BY <1>7 DEF Max

\* The contracts are the release, and its sale if there is one; the first of some of them is one of them.
LEMMA MembersKnown ==
  ASSUME IndexerAssumption, configs \in Configurations
  PROVE  members \subseteq {"release", "sale"} /\ "release" \in members /\ IsFiniteSet(members)
<1>1. configs \in Seq({"release", "sale"}) /\ "release" \in ToSet(configs)
  BY DEF IndexerAssumption
<1>2. ToSet(configs) \subseteq {"release", "sale"}
  BY <1>1 DEF ToSet
<1>3. IsFiniteSet({"release", "sale"})
  <2>1. IsFiniteSet({"release"})
    BY FS_Singleton
  <2>2. IsFiniteSet({"release"} \cup {"sale"})
    BY <2>1, FS_AddElement
  <2>3. {"release"} \cup {"sale"} = {"release", "sale"}
    OBVIOUS
  <2> QED BY <2>2, <2>3
<1> QED BY <1>1, <1>2, <1>3, FS_Subset DEF members

LEMMA FirstIsOne ==
  ASSUME IndexerAssumption, configs \in Configurations, NEW S, S \subseteq members, S # {}
  PROVE  FirstOf(S) \in S
<1> DEFINE D == {i \in DOMAIN configs : configs[i] \in S}
<1>1. configs \in Seq({"release", "sale"})
  BY DEF IndexerAssumption
<1>2. D \subseteq Nat /\ D # {}
  BY <1>1 DEF members, ToSet
<1>3. Min(D) \in D
  BY <1>2, LeastOfNaturals
<1> QED BY <1>3 DEF FirstOf

-----------------------------------------------------------------------------
LEMMA MembersStay == ASSUME configs' = configs PROVE members' = members
BY DEF members

\* The types hold at first, and what they say of the parts of the state.
LEMMA TypesFirst == ASSUME IndexerAssumption, Init PROVE TypeOK
<1>1. configs \in Configurations
  BY DEF Init
<1>2. ChainTyped
  BY DEF Init, ChainTyped, IndexerAssumption
<1>3. worker \in WorkerType
  BY DEF Init, Idle, Steps, WorkerType
<1>4. checkpoint \in [members -> CheckpointType]
  BY DEF Init, CheckpointType
<1>5. RowsTyped
  <2>1. NoRow \in Row /\ NoPurchase \in Purchase
    BY DEF NoRow, NoPurchase, Row, Purchase, IndexerAssumption
  <2>2. snapshot \in SnapshotType
    BY DEF Init, SnapshotType
  <2> QED BY <2>1, <2>2 DEF Init, RowsTyped
<1>6. forks \in Nat /\ perils \subseteq {"remined", "bottom"} /\ faults \in FaultsType /\ blocks \in [Heights -> Nat \cup {None}]
      /\ job \in {"NONE", "PENDING", "RUNNING", "FAILED", "COMPLETED"}
  BY DEF Init, FaultsType
<1> QED BY <1>1, <1>2, <1>3, <1>4, <1>5, <1>6 DEF TypeOK

LEMMA ChainTypes ==
  ASSUME IndexerAssumption, TypeOK
  PROVE  /\ Len(chain) \in Nat /\ DOMAIN chain = 1..Len(chain) /\ Len(chain) <= MaxHeight /\ MaxHeight \in Nat
         /\ \A h \in DOMAIN chain : h \in Heights /\ chain[h].hash \in Nat /\ chain[h].txs \subseteq Txs
<1>1. MaxHeight \in Nat
  BY DEF IndexerAssumption
<1>2. ChainTyped
  BY DEF TypeOK
<1>3. Len(chain) \in Nat /\ DOMAIN chain = 1..Len(chain) /\ Len(chain) <= MaxHeight
  BY <1>2 DEF ChainTyped
<1>4. ASSUME NEW h \in DOMAIN chain PROVE chain[h].hash \in Nat /\ chain[h].txs \subseteq Txs
  <2>1. chain[h] \in Block
    BY <1>2, <1>3 DEF ChainTyped
  <2> QED BY <2>1 DEF Block
<1> QED BY <1>1, <1>3, <1>4 DEF Heights

LEMMA WorkerTypes ==
  ASSUME IndexerAssumption, TypeOK
  PROVE  /\ worker.step \in Steps /\ worker.latest \in Nat /\ worker.next \in [members -> Nat] /\ worker.chunk \in Nat
         /\ worker.end \in Nat /\ worker.at \in Nat /\ worker.from \in Nat /\ worker.logs \subseteq Log
         /\ worker.todo \subseteq Nat /\ worker.due \subseteq Log
         /\ \A m \in members : checkpoint[m].next \in Nat \ {0} /\ checkpoint[m].last \in Nat
         /\ Target \in Int
<1>1. worker \in WorkerType /\ checkpoint \in [members -> CheckpointType] /\ Confirmations \in Nat
  BY DEF TypeOK, IndexerAssumption
<1>2. worker.latest \in Nat
  BY <1>1 DEF WorkerType
<1>3. Target \in Int
  BY <1>1, <1>2 DEF Target
<1> QED BY <1>1, <1>3 DEF WorkerType, CheckpointType

\* The walk back.
LEMMA RewindInside ==
  ASSUME IndexerAssumption, TypeOK, CycleShaped, NEW m \in members, Diverged(m) # {}
  PROVE  RewindTo(m) \in Nat \ {0} /\ RewindTo(m) <= Len(chain)
<1>1. checkpoint[m].last \in Nat /\ checkpoint[m].last <= Len(chain) /\ Len(chain) \in Nat
  BY ChainTypes, WorkerTypes DEF CycleShaped, Bounded, Admission, Holding, Regressing
<1>2. RecordedTo(m) \subseteq 1..Len(chain) /\ Agreed(m) \subseteq RecordedTo(m) /\ Diverged(m) \subseteq RecordedTo(m)
  BY <1>1 DEF RecordedTo, Agreed, Diverged
<1>3. CASE Agreed(m) = {}
  <2>1. Min(Diverged(m)) \in Diverged(m)
    BY <1>1, <1>2, LeastOfNaturals
  <2> QED BY <1>1, <1>2, <1>3, <2>1 DEF RewindTo
<1>4. CASE Agreed(m) # {}
  <2>1. IsFiniteSet(1..Len(chain))
    BY <1>1, FS_Interval
  <2>2. IsFiniteSet(Agreed(m)) /\ Agreed(m) \subseteq Nat
    BY <1>1, <1>2, <2>1, FS_Subset
  <2>3. Max(Agreed(m)) \in Agreed(m)
    BY <1>4, <2>2, GreatestOfFinite
  <2>4. PICK d \in Diverged(m) : TRUE
    OBVIOUS
  <2>5. d > Max(Agreed(m))
    BY <2>3, <2>4 DEF Diverged
  <2> QED BY <1>1, <1>2, <1>4, <2>3, <2>4, <2>5 DEF RewindTo
<1> QED BY <1>3, <1>4

\* A reorganisation handled in the database keeps the types, and so does a worker that stops.
LEMMA OrphanTypes ==
  ASSUME IndexerAssumption, TypeOK, NEW f \in Nat \ {0}, HandleReorg(f)
  PROVE  /\ blocks' \in [Heights -> Nat \cup {None}]
         /\ RowsTyped'
         /\ job' = "PENDING"
<1>1. ASSUME NEW table \in [Txs -> Row] PROVE Orphan(table, f) \in [Txs -> Row]
  <2> SUFFICES ASSUME NEW t \in Txs PROVE (IF table[t].at >= f THEN [table[t] EXCEPT !.canonical = FALSE] ELSE table[t]) \in Row
    BY DEF Orphan
  <2>1. table[t] \in Row
    OBVIOUS
  <2> QED BY <2>1 DEF Row
<1>2. transfers' \in [Txs -> Row] /\ purchased' \in [Txs -> Row]
  BY <1>1 DEF HandleReorg, TypeOK, RowsTyped
<1>3. purchases' \in [Txs -> Purchase]
  <2>1. \A t \in Txs : (IF purchases[t].at >= f THEN [purchases[t] EXCEPT !.status = "REORGED"] ELSE purchases[t]) \in Purchase
    BY DEF TypeOK, RowsTyped, Purchase
  <2> QED BY <2>1 DEF HandleReorg
<1>4. snapshot' \in SnapshotType
  BY DEF HandleReorg, TypeOK, RowsTyped, SnapshotType
<1> QED BY <1>2, <1>3, <1>4 DEF HandleReorg, TypeOK, RowsTyped

LEMMA IdleTyped == ASSUME IndexerAssumption, configs \in Configurations PROVE Idle \in WorkerType
BY DEF Idle, WorkerType, Steps

-----------------------------------------------------------------------------
\* The chain grows by a block or has its end replaced.
LEMMA TypesMine == ASSUME IndexerAssumption, TypeOK, CycleShaped, NEW txs \in SUBSET Txs, Mine(txs) PROVE TypeOK'
<1>1. members' = members
  BY DEF Mine, members
<1>2. ChainTyped'
  <2>1. chain \in Seq(Block) /\ [hash |-> forks, txs |-> txs] \in Block
    BY DEF TypeOK, ChainTyped, Block
  <2>2. chain' = Append(chain, [hash |-> forks, txs |-> txs]) /\ Len(chain) < MaxHeight /\ MaxHeight \in Nat
    BY DEF Mine, IndexerAssumption
  <2> HIDE DEF Block
  <2>3. chain' \in Seq(Block) /\ Len(chain') = Len(chain) + 1 /\ Len(chain) \in Nat
    BY <2>1, <2>2
  <2> QED BY <2>2, <2>3 DEF ChainTyped
<1>3. perils' \subseteq {"remined", "bottom"}
  BY DEF Mine, TypeOK
<1>4. /\ configs' = configs /\ UNCHANGED <<forks, faults, blocks, transfers, purchased, purchases, snapshot, job, checkpoint, worker>>
  BY DEF Mine, rows
<1>5. RowsTyped'
  BY <1>4 DEF RowsTyped, TypeOK
<1> QED BY <1>1, <1>2, <1>3, <1>4, <1>5 DEF TypeOK, WorkerType, Log

LEMMA TypesReorg == ASSUME IndexerAssumption, TypeOK, CycleShaped, NEW h \in Heights, Reorg(h) PROVE TypeOK'
<1>1. members' = members
  BY DEF Reorg, members
<1>2. ChainTyped'
  <2>1. PICK t \in {{}} \cup {{x} : x \in Txs \ UNION {chain[i].txs : i \in 1..(h - 1)}} : \E at \in h..Len(chain) :
          chain' = [i \in DOMAIN chain |-> IF i < h THEN chain[i] ELSE [hash |-> forks', txs |-> IF i = at THEN t ELSE {}]]
    BY DEF Reorg
  <2>2. PICK at \in h..Len(chain) :
          chain' = [i \in DOMAIN chain |-> IF i < h THEN chain[i] ELSE [hash |-> forks', txs |-> IF i = at THEN t ELSE {}]]
    BY <2>1
  <2>3. t \subseteq Txs /\ forks' \in Nat
    BY <2>1 DEF Reorg, TypeOK
  <2>4. DOMAIN chain = 1..Len(chain) /\ Len(chain) \in Nat /\ Len(chain) <= MaxHeight
    BY ChainTypes
  <2>5. \A i \in 1..Len(chain) : chain[i] \in Block
    BY <2>4 DEF TypeOK, ChainTyped
  <2>6. \A i \in 1..Len(chain) : (IF i < h THEN chain[i] ELSE [hash |-> forks', txs |-> IF i = at THEN t ELSE {}]) \in Block
    BY <2>3, <2>5 DEF Block
  <2>7. chain' \in [1..Len(chain) -> Block]
    BY <2>2, <2>4, <2>6
  <2>8. chain' \in Seq(Block) /\ Len(chain') = Len(chain)
    BY <2>4, <2>7
  <2> QED BY <2>4, <2>8 DEF ChainTyped
<1>3. perils' \subseteq {"remined", "bottom"} /\ forks' \in Nat
  BY DEF Reorg, TypeOK
<1>4. faults' \in FaultsType
  <2>1. faults' = faults \/ faults' = [faults EXCEPT !.during = @ + 1]
    BY DEF Reorg
  <2>2. faults \in FaultsType
    BY DEF TypeOK
  <2>3. [faults EXCEPT !.during = @ + 1] \in FaultsType
    BY ONLY <2>2 DEF FaultsType
  <2> QED BY <2>1, <2>2, <2>3
<1>5. /\ configs' = configs /\ UNCHANGED <<blocks, transfers, purchased, purchases, snapshot, job, checkpoint, worker>>
  BY DEF Reorg, rows
<1>6. RowsTyped'
  BY <1>5 DEF RowsTyped, TypeOK
<1> QED BY <1>1, <1>2, <1>3, <1>4, <1>5, <1>6 DEF TypeOK, WorkerType, Log

\* In a cycle the chain stands still, and a step changes some of the worker, the checkpoints and the tables.
LEMMA TypesInCycle ==
  ASSUME IndexerAssumption, TypeOK, UNCHANGED <<configs, chain, forks, perils>>, faults' \in FaultsType,
         blocks' \in [Heights -> Nat \cup {None}], RowsTyped',
         job' \in {"NONE", "PENDING", "RUNNING", "FAILED", "COMPLETED"},
         checkpoint' \in [members -> CheckpointType], worker' \in WorkerType
  PROVE  TypeOK'
<1>1. members' = members
  BY DEF members
<1>2. WorkerType' = WorkerType
  BY <1>1 DEF WorkerType, Log
<1>3. ChainTyped'
  BY DEF TypeOK, ChainTyped
<1> QED BY <1>1, <1>2, <1>3 DEF TypeOK

LEMMA RowsStay == ASSUME RowsTyped, UNCHANGED rows PROVE RowsTyped'
BY DEF RowsTyped, rows

LEMMA TypesBeginRebuild == ASSUME IndexerAssumption, TypeOK, CycleShaped, BeginRebuild PROVE TypeOK'
<1>1. worker' \in WorkerType
  BY DEF BeginRebuild, TypeOK, WorkerType, Steps
<1> QED BY <1>1, TypesInCycle, RowsStay DEF BeginRebuild, TypeOK, world

LEMMA TypesDerive == ASSUME IndexerAssumption, TypeOK, CycleShaped, Derive PROVE TypeOK'
<1>1. worker' \in WorkerType
  <2>1. worker \in WorkerType /\ worker' = [worker EXCEPT !.todo = {0}]
    BY DEF Derive, TypeOK
  <2>2. {0} \in SUBSET Nat
    OBVIOUS
  <2> QED BY ONLY <2>1, <2>2 DEF WorkerType
<1>2. IsFiniteSet(Canonical(transfers))
  BY FS_Subset DEF IndexerAssumption, Canonical
<1>3. Cardinality(Canonical(transfers)) \in Nat
  BY <1>2, FS_CardinalityType
<1>4. Max({0} \cup {transfers[t].at : t \in Canonical(transfers)}) \in Nat
  <2>1. {0} \cup {transfers[t].at : t \in Canonical(transfers)} \subseteq 0..MaxHeight
    BY DEF TypeOK, RowsTyped, Row, Canonical, IndexerAssumption
  <2>2. IsFiniteSet(0..MaxHeight)
    BY FS_Interval DEF IndexerAssumption
  <2>3. IsFiniteSet({0} \cup {transfers[t].at : t \in Canonical(transfers)})
    BY <2>1, <2>2, FS_Subset
  <2>4. {0} \cup {transfers[t].at : t \in Canonical(transfers)} \subseteq Nat
    BY <2>1 DEF IndexerAssumption
  <2> QED BY <2>3, <2>4, GreatestOfFinite
<1>5. RowsTyped'
  <2>1. purchases' \in [Txs -> Purchase]
    BY DEF Derive, Purchase, NoPurchase, IndexerAssumption
  <2>2. snapshot' \in SnapshotType
    BY <1>3, <1>4 DEF Derive, SnapshotType
  <2> QED BY <2>1, <2>2 DEF Derive, RowsTyped, TypeOK
<1> QED BY <1>1, <1>5, TypesInCycle DEF Derive, TypeOK, world

LEMMA TypesReplay == ASSUME IndexerAssumption, TypeOK, CycleShaped, Replay PROVE TypeOK'
<1>1. worker' \in WorkerType
  BY DEF Replay, TypeOK, WorkerType, Steps
<1>5. RowsTyped'
  <2>1. ASSUME NEW t \in Txs PROVE (IF purchased[t].canonical THEN [at |-> purchased[t].at, hash |-> purchased[t].hash, status |-> "CONFIRMED"]
                                 ELSE purchases[t]) \in Purchase
    <3>1. purchased[t] \in Row /\ purchases[t] \in Purchase
      BY DEF TypeOK, RowsTyped
    <3> QED BY <3>1 DEF Row, Purchase
  <2> QED BY <2>1 DEF Replay, RowsTyped, TypeOK
<1> QED BY <1>1, <1>5, TypesInCycle DEF Replay, TypeOK, world

LEMMA TypesReadTip == ASSUME IndexerAssumption, TypeOK, CycleShaped, ReadTip PROVE TypeOK'
<1>1. worker' \in WorkerType
  BY ChainTypes DEF ReadTip, TypeOK, WorkerType, Steps
<1> QED BY <1>1, TypesInCycle, RowsStay DEF ReadTip, TypeOK, world

\* While contracts are admitted there is a next one.
LEMMA JoiningIsOne == ASSUME IndexerAssumption, TypeOK, CycleShaped, worker.step = "admit" PROVE Joining \in members /\ Joining \notin Admitted
<1>1. members \ Admitted # {}
  BY DEF CycleShaped, Bounded, Admission, Holding, Regressing, Admitted
<1>2. configs \in Configurations /\ members \ Admitted \subseteq members
  BY DEF TypeOK
<1>3. FirstOf(members \ Admitted) \in members \ Admitted
  BY <1>1, <1>2, FirstIsOne
<1> QED BY <1>3 DEF Joining

LEMMA TypesVerify == ASSUME IndexerAssumption, TypeOK, CycleShaped, Verify PROVE TypeOK'
<1>1. RewindTo(Joining) \in Nat \ {0}
  BY JoiningIsOne, RewindInside DEF Verify
<1>2. worker' \in WorkerType
  BY <1>1 DEF Verify, TypeOK, WorkerType
<1>3. blocks' \in [Heights -> Nat \cup {None}] /\ RowsTyped' /\ job' = "PENDING"
  BY <1>1, OrphanTypes DEF Verify
<1> QED BY <1>2, <1>3, TypesInCycle DEF Verify, TypeOK, world

LEMMA TypesAdmit == ASSUME IndexerAssumption, TypeOK, CycleShaped, Admit PROVE TypeOK'
<1> DEFINE m == Joining
           next == IF worker.from = 0 THEN checkpoint[m].next ELSE worker.from
<1>1. m \in members
  BY JoiningIsOne DEF Admit
<1>2. next \in Nat \ {0} /\ LastAdmitted(m) \in Nat
  BY <1>1, WorkerTypes DEF LastAdmitted
<1>3. checkpoint' = [checkpoint EXCEPT ![m] = [@ EXCEPT !.next = next, !.last = LastAdmitted(m), !.status = "RUNNING"]]
  BY DEF Admit
<1>4. worker' = [worker EXCEPT !.next[m] = next, !.from = 0, !.step = IF Admitted \cup {m} = members THEN "scan" ELSE "admit"]
  BY DEF Admit
<1> HIDE DEF m, next
<1>5. checkpoint' \in [members -> CheckpointType]
  <2>1. checkpoint \in [members -> CheckpointType]
    BY DEF TypeOK
  <2>2. [checkpoint[m] EXCEPT !.next = next, !.last = LastAdmitted(m), !.status = "RUNNING"] \in CheckpointType
    <3>1. checkpoint[m] \in CheckpointType
      BY <1>1, <2>1
    <3> QED BY ONLY <1>2, <3>1 DEF CheckpointType
  <2> HIDE DEF CheckpointType
  <2> QED BY <1>3, <2>1, <2>2
<1>6. worker' \in WorkerType
  BY <1>1, <1>2, <1>4 DEF TypeOK, WorkerType, Steps
<1> QED BY <1>5, <1>6, TypesInCycle, RowsStay DEF Admit, TypeOK, world

\* The chunk that is fetched is not empty, inside the chain the cycle read, and starts where some contract
\* resumes.
LEMMA ChunkKnown ==
  ASSUME IndexerAssumption, TypeOK, CycleShaped, ActiveMembers # {}
  PROVE  /\ Start \in Nat \ {0} /\ ChunkEnd \in Nat \ {0} /\ Target \in Nat /\ Start <= ChunkEnd /\ ChunkEnd <= Target
         /\ Target <= worker.latest /\ ChunkEnd \in DOMAIN chain
         /\ \A m \in ActiveMembers : Start <= worker.next[m]
         /\ \E m \in ActiveMembers : Start = worker.next[m]
<1>0. Confirmations \in Nat /\ ChunkSize \in Nat \ {0} /\ worker.latest \in Nat /\ worker.latest <= Len(chain)
  BY WorkerTypes DEF IndexerAssumption, CycleShaped, Bounded, Admission, Holding, Regressing
<1> DEFINE N == {worker.next[m] : m \in ActiveMembers}
<1>1. \A m \in ActiveMembers : m \in members /\ worker.next[m] \in Nat \ {0} /\ worker.next[m] <= Target
  BY WorkerTypes DEF ActiveMembers, Admitted
<1>2. N \subseteq Nat /\ N # {}
  BY <1>1
<1>3. Min(N) \in N /\ \A y \in N : Min(N) <= y
  BY <1>2, LeastOfNaturals
<1>4. Start = Min(N)
  BY DEF Start
<1> HIDE DEF N
<1>5. Start \in Nat \ {0} /\ (\A m \in ActiveMembers : Start <= worker.next[m]) /\ (\E m \in ActiveMembers : Start = worker.next[m]) /\ Start <= Target
  BY <1>1, <1>3, <1>4 DEF N
<1>6. Target \in Nat /\ Target <= worker.latest
  <2>1. Target \in Int /\ Target = worker.latest - Confirmations
    BY WorkerTypes DEF Target
  <2> QED BY <2>1, <1>0, <1>5
<1>7. {Target, Start + ChunkSize - 1} \subseteq Nat /\ {Target, Start + ChunkSize - 1} # {}
  BY <1>0, <1>5, <1>6
<1>8. ChunkEnd \in {Target, Start + ChunkSize - 1} /\ \A y \in {Target, Start + ChunkSize - 1} : ChunkEnd <= y
  BY <1>7, LeastOfNaturals DEF ChunkEnd
<1>9. ChunkEnd \in Nat \ {0} /\ Start <= ChunkEnd /\ ChunkEnd <= Target
  BY <1>0, <1>5, <1>6, <1>8
<1>10. ChunkEnd \in DOMAIN chain
  BY <1>0, <1>6, <1>9, ChainTypes
<1> QED BY <1>5, <1>6, <1>9, <1>10

\* What a fetch of logs brings.
LEMMA FetchedKnown ==
  ASSUME IndexerAssumption, TypeOK, CycleShaped, FetchLogs
  PROVE  /\ worker'.step = "block" /\ worker'.latest = worker.latest /\ worker'.next = worker.next /\ worker'.chunk = worker.chunk
         /\ worker'.end = ChunkEnd /\ worker'.at = worker.at /\ worker'.from = worker.from /\ worker'.due = worker.due
         /\ worker'.logs = {<<l[1], l[2], l[3], chain[l[2]].hash>> : l \in Accepted}
         /\ worker'.todo = {l[2] : l \in worker'.logs} \cup (IF ChunkEnd >= Target \/ worker.chunk + 1 >= MaxChunks THEN {ChunkEnd} ELSE {})
         /\ \A l \in worker'.logs : /\ l \in Log /\ l[1] \in ActiveMembers /\ l[2] \in worker.next[l[1]]..ChunkEnd /\ l[2] \in DOMAIN chain
                                    /\ l[3] \in chain[l[2]].txs \cap Logs(l[1]) /\ l[4] = chain[l[2]].hash
                                    /\ l = <<l[1], l[2], l[3], l[4]>>
         /\ worker' \in WorkerType
<1> DEFINE L == {<<l[1], l[2], l[3], chain[l[2]].hash>> : l \in Accepted}
           X == IF ChunkEnd >= Target \/ worker.chunk + 1 >= MaxChunks THEN {ChunkEnd} ELSE {}
<1>1. worker \in WorkerType /\ worker' = [worker EXCEPT !.step = "block", !.end = ChunkEnd, !.logs = L, !.todo = {l[2] : l \in L} \cup X]
  BY DEF FetchLogs, TypeOK
<1>2. ActiveMembers # {}
  BY DEF FetchLogs
<1>3. ChunkEnd \in Nat \ {0} /\ ChunkEnd \in DOMAIN chain
  BY <1>2, ChunkKnown
<1>4. ASSUME NEW l \in Accepted
      PROVE  /\ l \in members \X Heights \X Txs /\ l[1] \in ActiveMembers /\ l[2] \in worker.next[l[1]]..ChunkEnd /\ l[2] \in DOMAIN chain
             /\ l[3] \in chain[l[2]].txs \cap Logs(l[1]) /\ chain[l[2]].hash \in Nat
  <2>1. /\ l \in members \X Heights \X Txs /\ l[1] \in ActiveMembers /\ l[2] \in worker.next[l[1]]..ChunkEnd 
        /\ l[3] \in chain[l[2]].txs \cap Logs(l[1])
    BY DEF Accepted
  <2>2. l[2] \in DOMAIN chain
    <3>1. l[2] \in Heights /\ l[2] <= ChunkEnd /\ ChunkEnd <= Len(chain)
      BY <1>3, <2>1, WorkerTypes, ChainTypes DEF ActiveMembers, Admitted
    <3> QED BY <3>1, <1>3, ChainTypes DEF Heights
  <2> QED BY <2>1, <2>2, ChainTypes
<1>5. ASSUME NEW k \in L
      PROVE  /\ k \in Log /\ k[1] \in ActiveMembers /\ k[2] \in worker.next[k[1]]..ChunkEnd /\ k[2] \in DOMAIN chain
             /\ k[3] \in chain[k[2]].txs \cap Logs(k[1]) /\ k[4] = chain[k[2]].hash
             /\ k = <<k[1], k[2], k[3], k[4]>>
  <2>1. PICK l \in Accepted : k = <<l[1], l[2], l[3], chain[l[2]].hash>>
    OBVIOUS
  <2>2. k[1] = l[1] /\ k[2] = l[2] /\ k[3] = l[3] /\ k[4] = chain[l[2]].hash
    BY <2>1
  <2>3. k \in Log
    BY <1>4, <2>1 DEF Log
  <2> QED BY <1>4, <2>1, <2>2, <2>3
<1> HIDE DEF L
<1>6. L \subseteq Log /\ {l[2] : l \in L} \subseteq Nat
  BY <1>5, ChainTypes
<1>7. X \subseteq Nat
  BY <1>3
<1> HIDE DEF X
<1>8. worker' \in WorkerType
  BY <1>1, <1>3, <1>6, <1>7 DEF WorkerType, Steps
<1>9. /\ worker'.step = "block" /\ worker'.latest = worker.latest /\ worker'.next = worker.next /\ worker'.chunk = worker.chunk
      /\ worker'.end = ChunkEnd /\ worker'.at = worker.at /\ worker'.from = worker.from /\ worker'.due = worker.due
      /\ worker'.logs = L /\ worker'.todo = {l[2] : l \in L} \cup X
  BY <1>1 DEF WorkerType
<1> QED BY <1>5, <1>8, <1>9 DEF L, X

LEMMA TypesFetchLogs == ASSUME IndexerAssumption, TypeOK, CycleShaped, FetchLogs PROVE TypeOK'
<1>1. UNCHANGED <<configs, chain, forks, perils, faults, blocks, transfers, purchased, purchases, snapshot, job, checkpoint>>
  BY DEF FetchLogs, world, rows
<1>2. RowsTyped'
  BY <1>1 DEF TypeOK, RowsTyped
<1> QED BY <1>1, <1>2, TypesInCycle, FetchedKnown DEF TypeOK

\* The next block of a chunk is its lowest, and fetching it records it or, when another was recorded, rewinds.
LEMMA NextBlockKnown ==
  ASSUME IndexerAssumption, TypeOK, CycleShaped, Busy, worker.todo # {}
  PROVE  /\ NextBlock \in worker.todo /\ NextBlock \in Nat \ {0} /\ NextBlock <= worker.end /\ NextBlock \in DOMAIN chain
         /\ \A h \in worker.todo : NextBlock <= h
<1>1. worker.todo \subseteq 1..worker.end /\ worker.end \in Nat /\ worker.end <= Len(chain)
  <2>1. worker.todo \subseteq 1..worker.end /\ worker.end <= worker.latest /\ worker.latest <= Len(chain)
    BY DEF CycleShaped, Bounded, Admission, Holding, Regressing
  <2> QED BY <2>1, WorkerTypes, ChainTypes
<1>2. worker.todo \subseteq Nat
  BY WorkerTypes
<1>3. NextBlock \in worker.todo /\ \A h \in worker.todo : NextBlock <= h
  BY <1>2, LeastOfNaturals DEF NextBlock
<1> QED BY <1>1, <1>3, ChainTypes

LEMMA FetchBlockKnown ==
  ASSUME IndexerAssumption, TypeOK, CycleShaped, FetchBlock
  PROVE  /\ worker.step = "block" /\ worker.due = {} /\ worker.todo # {} /\ NextBlock \in worker.todo /\ NextBlock \in DOMAIN chain
         /\ (\A h \in worker.todo : NextBlock <= h)
         /\ worker'.step = (IF blocks[NextBlock] \in {None, chain[NextBlock].hash} THEN "block" ELSE "regress")
         /\ worker'.latest = worker.latest /\ worker'.next = worker.next /\ worker'.chunk = worker.chunk
         /\ worker'.end = worker.end /\ worker'.at = NextBlock /\ worker'.from = worker.from
         /\ worker'.logs = worker.logs /\ worker'.todo = worker.todo \ {NextBlock}
         /\ worker'.due = {l \in worker.logs : l[2] = NextBlock}
         /\ worker' \in WorkerType
         /\ blocks[NextBlock] \in {None, chain[NextBlock].hash} =>
              blocks' = [blocks EXCEPT ![NextBlock] = chain[NextBlock].hash] /\ UNCHANGED <<transfers, purchased, purchases, snapshot, job>>
         /\ blocks[NextBlock] \notin {None, chain[NextBlock].hash} => HandleReorg(NextBlock)
         /\ UNCHANGED <<configs, chain, forks, perils, faults, checkpoint>>
<1>1. /\ worker.step = "block" /\ worker.due = {} /\ worker.todo # {}
      /\ worker' = [worker EXCEPT !.step = IF blocks[NextBlock] \in {None, chain[NextBlock].hash} THEN "block" ELSE "regress",
                                 !.at = NextBlock, !.todo = @ \ {NextBlock}, !.due = {l \in worker.logs : l[2] = NextBlock}]
      /\ UNCHANGED <<configs, chain, forks, perils, faults, checkpoint>>
  BY DEF FetchBlock, world
<1>2. /\ blocks[NextBlock] \in {None, chain[NextBlock].hash} =>
              blocks' = [blocks EXCEPT ![NextBlock] = chain[NextBlock].hash] /\ UNCHANGED <<transfers, purchased, purchases, snapshot, job>>
      /\ blocks[NextBlock] \notin {None, chain[NextBlock].hash} => HandleReorg(NextBlock)
  BY DEF FetchBlock, rows
<1>3. /\ NextBlock \in worker.todo /\ NextBlock \in Nat \ {0} /\ NextBlock <= worker.end /\ NextBlock \in DOMAIN chain
      /\ \A h \in worker.todo : NextBlock <= h
  BY <1>1, NextBlockKnown DEF Busy
<1>4. worker \in WorkerType
  BY DEF TypeOK
<1>5. {l \in worker.logs : l[2] = NextBlock} \subseteq Log
  BY <1>4 DEF WorkerType
<1> HIDE DEF NextBlock
<1>6. worker' \in WorkerType
  BY <1>1, <1>3, <1>4, <1>5 DEF WorkerType, Steps
<1> QED BY <1>1, <1>2, <1>3, <1>4, <1>6 DEF WorkerType

LEMMA TypesFetchBlock == ASSUME IndexerAssumption, TypeOK, CycleShaped, FetchBlock PROVE TypeOK'
<1>1. NextBlock \in DOMAIN chain /\ NextBlock \in Heights /\ chain[NextBlock].hash \in Nat /\ NextBlock \in Nat \ {0}
  BY FetchBlockKnown, ChainTypes DEF Heights
<1>2. CASE blocks[NextBlock] \in {None, chain[NextBlock].hash}
  <2>1. blocks' \in [Heights -> Nat \cup {None}]
    BY <1>1, <1>2, FetchBlockKnown DEF TypeOK
  <2>2. RowsTyped' /\ job' = job
    BY <1>2, FetchBlockKnown DEF TypeOK, RowsTyped
  <2> QED BY <2>1, <2>2, FetchBlockKnown, TypesInCycle DEF TypeOK
<1>3. CASE blocks[NextBlock] \notin {None, chain[NextBlock].hash}
  BY <1>1, <1>3, FetchBlockKnown, OrphanTypes, TypesInCycle DEF TypeOK
<1> QED BY <1>2, <1>3

LEMMA TypesRegressGroup == ASSUME IndexerAssumption, TypeOK, CycleShaped, RegressGroup PROVE TypeOK'
<1>1. worker.at \in DOMAIN chain /\ worker.at \in Heights /\ chain[worker.at].hash \in Nat /\ worker.at \in Nat \ {0} /\ worker.at - 1 \in Nat
  <2>1. worker.at \in DOMAIN chain
    BY DEF RegressGroup, CycleShaped, Bounded, Admission, Holding, Regressing
  <2> QED BY <2>1, ChainTypes DEF Heights
<1>2. worker' \in WorkerType
  BY DEF RegressGroup, TypeOK, WorkerType, Steps
<1>3. ASSUME NEW m \in members
      PROVE  [checkpoint[m] EXCEPT !.next = worker.at, !.last = worker.at - 1, !.status = "REORGING"] \in CheckpointType
  BY <1>1 DEF TypeOK, CheckpointType
<1>4. checkpoint' \in [members -> CheckpointType]
  BY <1>3 DEF RegressGroup, TypeOK
<1>5. blocks' \in [Heights -> Nat \cup {None}]
  BY <1>1 DEF RegressGroup, TypeOK
<1> QED BY <1>2, <1>4, <1>5, TypesInCycle, RowsStay DEF RegressGroup, TypeOK, world

LEMMA CreditTyped == ASSUME SnapshotType' = SnapshotType, snapshot \in SnapshotType, NEW h \in Nat, Credit(h) PROVE snapshot' \in SnapshotType
BY DEF Credit, SnapshotType

\* A log that is due is of a block of the chain, of a member.
LEMMA DueKnown ==
  ASSUME IndexerAssumption, TypeOK, CycleShaped, NEW l \in worker.due
  PROVE  /\ l \in Log /\ l[1] \in members /\ l[2] \in Heights /\ l[3] \in Txs /\ l[4] \in Nat /\ l[2] = worker.at /\ l[3] \in Logs(l[1])
         /\ l \in worker.logs /\ l[2] <= worker.end /\ l[1] \in {"release", "sale"} /\ l = <<l[1], l[2], l[3], l[4]>>
<1>1. l \in Log
  BY WorkerTypes
<1>2. l[1] \in members /\ l[2] \in Heights /\ l[3] \in Txs /\ l[4] \in Nat /\ l = <<l[1], l[2], l[3], l[4]>>
  BY <1>1 DEF Log
<1>3. l \in worker.logs /\ l[2] = worker.at
  BY DEF CycleShaped, Bounded, Admission, Holding, Regressing
<1>4. l[2] <= worker.end /\ l[3] \in Logs(l[1])
  BY <1>3 DEF CycleShaped, Bounded, Admission, Holding, Regressing
<1>5. members \subseteq {"release", "sale"}
  BY MembersKnown DEF TypeOK
<1> QED BY <1>1, <1>2, <1>3, <1>4, <1>5

\* The three things a log does: a mint is applied, a purchase is noted, a purchase is applied.
MintApplied(l) == l[1] = "release" /\ ApplyTransfer(l[3], l[2], l[4]) /\ worker' = [worker EXCEPT !.due = @ \ {l}]
PurchaseNoted(l) == l[1] = "sale" /\ purchased[l[3]] = NoRow /\ purchased' = Noted(l[3], l[2], l[4]) /\ UNCHANGED <<transfers, purchases, snapshot, worker>>
PurchaseApplied(l) == /\ l[1] = "sale" /\ purchased[l[3]] # NoRow /\ ApplyPurchase(l[3], l[2], l[4])
                      /\ worker' = [worker EXCEPT !.due = @ \ {l}] /\ UNCHANGED <<transfers, purchased>>

LEMMA ProcessLogCases ==
  ASSUME IndexerAssumption, TypeOK, CycleShaped, NEW l \in worker.due, ProcessLog(l)
  PROVE  /\ MintApplied(l) \/ PurchaseNoted(l) \/ PurchaseApplied(l)
         /\ worker.step = "block" /\ (l[1] = "sale" => \A k \in worker.due : k[3] = l[3] => k[1] = "sale")
         /\ UNCHANGED <<configs, chain, forks, perils, faults, blocks, job, checkpoint>>
BY DueKnown DEF ProcessLog, MintApplied, PurchaseNoted, PurchaseApplied, world

LEMMA TypesProcessLog == ASSUME IndexerAssumption, TypeOK, CycleShaped, NEW l \in worker.due, ProcessLog(l) PROVE TypeOK'
<1>0. /\ l[2] \in Heights /\ l[2] \in 0..MaxHeight /\ l[2] \in Nat /\ l[3] \in Txs /\ l[4] \in Nat
      /\ worker \in WorkerType /\ RowsTyped /\ snapshot \in SnapshotType /\ SnapshotType' = SnapshotType
  <2>1. l[2] \in Heights /\ l[3] \in Txs /\ l[4] \in Nat
    BY DueKnown
  <2>2. l[2] \in 0..MaxHeight /\ l[2] \in Nat
    BY <2>1 DEF Heights, IndexerAssumption
  <2>3. worker \in WorkerType /\ RowsTyped /\ snapshot \in SnapshotType
    BY DEF TypeOK, RowsTyped
  <2>4. SnapshotType' = SnapshotType
    BY DEF SnapshotType
  <2> QED BY <2>1, <2>2, <2>3, <2>4
<1>1. [worker EXCEPT !.due = @ \ {l}] \in WorkerType
  BY <1>0 DEF WorkerType
<1>2. [at |-> l[2], hash |-> l[4], canonical |-> TRUE] \in Row /\ [at |-> l[2], hash |-> l[4], status |-> "CONFIRMED"] \in Purchase
  BY <1>0 DEF Row, Purchase
<1>3. RowsTyped' /\ worker' \in WorkerType
  <2>1. CASE MintApplied(l)
    <3>1. transfers' \in [Txs -> Row] /\ UNCHANGED <<purchased, purchases>>
      BY <1>0, <1>2, <2>1 DEF MintApplied, ApplyTransfer, RowsTyped
    <3>2. snapshot' \in SnapshotType
      BY <1>0, <2>1, CreditTyped DEF MintApplied, ApplyTransfer
    <3> QED BY <1>0, <1>1, <2>1, <3>1, <3>2 DEF RowsTyped, MintApplied
  <2>2. CASE PurchaseNoted(l)
    BY <1>0, <1>2, <2>2 DEF PurchaseNoted, Noted, RowsTyped
  <2>3. CASE PurchaseApplied(l)
    <3>1. purchases' \in [Txs -> Purchase]
      BY <1>0, <1>2, <2>3 DEF PurchaseApplied, ApplyPurchase, RowsTyped
    <3>2. snapshot' \in SnapshotType
      BY <1>0, <2>3, CreditTyped DEF PurchaseApplied, ApplyPurchase
    <3> QED BY <1>0, <1>1, <2>3, <3>1, <3>2 DEF RowsTyped, PurchaseApplied
  <2> QED BY <2>1, <2>2, <2>3, ProcessLogCases
<1> QED BY <1>3, ProcessLogCases, TypesInCycle DEF TypeOK

\* What advancing a checkpoint does, field by field.
LEMMA AdvanceKnown ==
  ASSUME IndexerAssumption, TypeOK, CycleShaped, Advance, NEW m, m = FirstOf(Participating)
  PROVE  /\ worker.step = "block" /\ worker.due = {} /\ worker.todo = {} /\ m \in Participating /\ m \in members
         /\ checkpoint' = [checkpoint EXCEPT ![m] = [@ EXCEPT !.next = worker.end + 1, !.last = worker.end, !.status = "RUNNING"]]
         /\ worker'.next = [worker.next EXCEPT ![m] = worker.end + 1]
         /\ worker'.latest = worker.latest /\ worker'.from = worker.from /\ worker'.todo = {} /\ worker'.due = {}
         /\ Participating = {m} => worker'.step = "scan" /\ worker'.chunk = worker.chunk + 1 /\ worker'.logs = {} /\ worker'.end = 0
         /\ Participating # {m} => worker'.step = "block" /\ worker'.chunk = worker.chunk /\ worker'.logs = worker.logs /\ worker'.end = worker.end
                                   /\ worker'.at = worker.at
         /\ worker' \in WorkerType
         /\ UNCHANGED <<configs, chain, forks, perils, faults, blocks, transfers, purchased, purchases, snapshot, job>>
<1>1. /\ worker.step = "block" /\ worker.due = {} /\ worker.todo = {} /\ Participating # {}
      /\ checkpoint' = [checkpoint EXCEPT ![m] = [@ EXCEPT !.next = worker.end + 1, !.last = worker.end, !.status = "RUNNING"]]
      /\ worker' = IF Participating = {m}
                  THEN [worker EXCEPT !.next[m] = worker.end + 1, !.step = "scan", !.chunk = @ + 1, !.logs = {}, !.at = 0, !.end = 0]
                  ELSE [worker EXCEPT !.next[m] = worker.end + 1]
      /\ UNCHANGED <<configs, chain, forks, perils, faults, blocks, transfers, purchased, purchases, snapshot, job>>
  BY DEF Advance, world, rows
<1>2. Participating \subseteq members /\ configs \in Configurations
  BY DEF Participating, Admitted, TypeOK
<1>3. m \in Participating /\ m \in members
  BY <1>1, <1>2, FirstIsOne
<1>4. worker \in WorkerType
  BY DEF TypeOK
<1> HIDE DEF Participating
<1>5. worker' \in WorkerType
  <2>1. worker.end + 1 \in Nat /\ worker.chunk + 1 \in Nat /\ "scan" \in Steps
    BY WorkerTypes DEF Steps
  <2>2. [worker EXCEPT !.next[m] = worker.end + 1] \in WorkerType
    BY ONLY <1>3, <1>4, <2>1 DEF WorkerType
  <2>3. [worker EXCEPT !.next[m] = worker.end + 1, !.step = "scan", !.chunk = @ + 1, !.logs = {}, !.at = 0, !.end = 0] \in WorkerType
    BY ONLY <1>3, <1>4, <2>1 DEF WorkerType
  <2> QED BY <1>1, <2>2, <2>3
<1> QED BY <1>1, <1>3, <1>4, <1>5 DEF WorkerType

LEMMA TypesAdvance == ASSUME IndexerAssumption, TypeOK, CycleShaped, Advance PROVE TypeOK'
<1> DEFINE m == FirstOf(Participating)
<1>1. m \in members /\ worker' \in WorkerType /\ UNCHANGED <<configs, chain, forks, perils, faults, blocks, transfers, purchased, purchases, snapshot, job>>
      /\ checkpoint' = [checkpoint EXCEPT ![m] = [@ EXCEPT !.next = worker.end + 1, !.last = worker.end, !.status = "RUNNING"]]
  BY AdvanceKnown
<1> HIDE DEF m
<1>2. worker.end \in Nat /\ worker.end + 1 \in Nat \ {0}
  BY WorkerTypes
<1>3. checkpoint' \in [members -> CheckpointType]
  <2>1. checkpoint \in [members -> CheckpointType]
    BY DEF TypeOK
  <2>2. [checkpoint[m] EXCEPT !.next = worker.end + 1, !.last = worker.end, !.status = "RUNNING"] \in CheckpointType
    <3>1. checkpoint[m] \in CheckpointType
      BY <1>1, <2>1
    <3> QED BY ONLY <1>2, <3>1 DEF CheckpointType
  <2> QED BY <1>1, <2>1, <2>2
<1>4. RowsTyped'
  BY <1>1 DEF RowsTyped, TypeOK
<1> QED BY <1>1, <1>3, <1>4, TypesInCycle DEF TypeOK

LEMMA TypesFinishScan == ASSUME IndexerAssumption, TypeOK, CycleShaped, FinishScan PROVE TypeOK'
<1>1. worker' \in WorkerType
  <2>1. Idle \in WorkerType
    BY IdleTyped DEF TypeOK
  <2> HIDE DEF Idle
  <2> QED BY <2>1 DEF FinishScan, WorkerType, Steps
<1>2. \A m \in members : worker.next[m] \in Nat /\ worker.next[m] # 0
  <2>1. Admitted = members
    BY DEF FinishScan, CycleShaped, Bounded, Admission, Holding, Regressing, Scanning
  <2> QED BY <2>1, WorkerTypes DEF Admitted
<1>3. checkpoint' \in [members -> CheckpointType]
  <2>1. ASSUME NEW m \in members
        PROVE  /\ [checkpoint[m] EXCEPT !.status = "RUNNING"] \in CheckpointType
               /\ [checkpoint[m] EXCEPT !.last = worker.next[m] - 1, !.status = "IDLE", !.succeeded = TRUE] \in CheckpointType
    <3>1. checkpoint[m] \in CheckpointType /\ worker.next[m] - 1 \in Nat
      BY <1>2 DEF TypeOK
    <3> QED BY <3>1 DEF CheckpointType
  <2> QED BY <2>1 DEF FinishScan
<1>4. RowsTyped'
  <2>1. ASSUME NEW upTo PROVE Finalized(upTo) \in [Txs -> Purchase]
    <3>1. \A t \in Txs : purchases[t] \in Purchase /\ [purchases[t] EXCEPT !.status = "FINALIZED"] \in Purchase
      BY DEF TypeOK, RowsTyped, Purchase
    <3> QED BY <3>1 DEF Finalized
  <2>2. purchases' \in [Txs -> Purchase]
    BY <2>1 DEF FinishScan, TypeOK, RowsTyped
  <2> QED BY <2>2 DEF FinishScan, RowsTyped, TypeOK
<1> QED BY <1>1, <1>3, <1>4, TypesInCycle DEF FinishScan, TypeOK, world

\* A cycle that fails resumes a contract where its chunk started, or at the block it was about to fetch.
LEMMA ResumeKnown ==
  ASSUME IndexerAssumption, TypeOK, CycleShaped, Scanning, NEW m \in members
  PROVE  /\ ResumeAt(m) \in Nat \ {0} /\ worker.next[m] <= ResumeAt(m) /\ worker.next[m] \in Nat \ {0}
         /\ ResumeAt(m) <= worker.next[m] \/ (ResumeAt(m) = NextBlock /\ worker.step = "block" /\ worker.due = {} /\ worker.todo # {})
         /\ ResumeAt(m) <= Len(chain) + 1
<1>1. worker.next[m] \in Nat \ {0} /\ worker.next[m] <= Len(chain) + 1
  <2>1. Admitted = members /\ worker.next[m] <= Len(chain) + 1
    BY DEF CycleShaped, Bounded, Admission, Holding, Regressing
  <2> QED BY <2>1, WorkerTypes DEF Admitted
<1>2. CASE worker.step = "block" /\ worker.due = {} /\ worker.todo # {}
  <2>1. NextBlock \in Nat \ {0} /\ NextBlock <= Len(chain)
    BY <1>2, NextBlockKnown, ChainTypes DEF Busy
  <2>2. ResumeAt(m) = Max({worker.next[m], NextBlock})
    BY <1>2 DEF ResumeAt
  <2>3. {worker.next[m], NextBlock} \subseteq Nat /\ IsFiniteSet({worker.next[m], NextBlock})
    <3>1. IsFiniteSet({worker.next[m]})
      BY FS_Singleton
    <3>2. IsFiniteSet({worker.next[m]} \cup {NextBlock})
      BY <3>1, FS_AddElement
    <3>3. {worker.next[m]} \cup {NextBlock} = {worker.next[m], NextBlock}
      OBVIOUS
    <3> QED BY <1>1, <2>1, <3>2, <3>3
  <2>4. ResumeAt(m) \in {worker.next[m], NextBlock} /\ \A y \in {worker.next[m], NextBlock} : y <= ResumeAt(m)
    BY <2>2, <2>3, GreatestOfFinite
  <2> QED BY <1>1, <1>2, <2>1, <2>4, ChainTypes
<1>3. CASE ~(worker.step = "block" /\ worker.due = {} /\ worker.todo # {})
  BY <1>1, <1>3 DEF ResumeAt
<1> QED BY <1>2, <1>3

LEMMA FaultsCounted ==
  ASSUME TypeOK
  PROVE  /\ [faults EXCEPT !.failed = @ + 1] \in FaultsType /\ [faults EXCEPT !.unrecorded = @ + 1] \in FaultsType
         /\ [faults EXCEPT !.crashed = @ + 1] \in FaultsType
BY DEF TypeOK, FaultsType

LEMMA TypesFail == ASSUME IndexerAssumption, TypeOK, CycleShaped, Fail PROVE TypeOK'
<1>1. Scanning
  BY DEF Fail, Scanning
<1>2. checkpoint' \in [members -> CheckpointType]
  <2>1. ASSUME NEW m \in members PROVE FailedAt(m) \in CheckpointType /\ checkpoint[m] \in CheckpointType
    <3>1. ResumeAt(m) \in Nat \ {0} /\ ResumeAt(m) - 1 \in Nat
      BY <1>1, ResumeKnown
    <3>2. checkpoint[m] \in CheckpointType
      BY DEF TypeOK
    <3> HIDE DEF ResumeAt
    <3> QED BY <3>1, <3>2 DEF FailedAt, CheckpointType
  <2> HIDE DEF FailedAt
  <2> QED BY <2>1 DEF Fail
<1> QED BY <1>2, IdleTyped, FaultsCounted, TypesInCycle, RowsStay DEF Fail, TypeOK

LEMMA TypesFailToAdmit == ASSUME IndexerAssumption, TypeOK, CycleShaped, FailToAdmit PROVE TypeOK'
<1>1. checkpoint' \in [members -> CheckpointType]
  BY JoiningIsOne DEF FailToAdmit, TypeOK, CheckpointType
<1> QED BY <1>1, IdleTyped, FaultsCounted, TypesInCycle, RowsStay DEF FailToAdmit, TypeOK

LEMMA TypesFailToRebuild == ASSUME IndexerAssumption, TypeOK, CycleShaped, FailToRebuild PROVE TypeOK'
BY IdleTyped, FaultsCounted, TypesInCycle, RowsStay DEF FailToRebuild, TypeOK

LEMMA TypesCrash == ASSUME IndexerAssumption, TypeOK, CycleShaped, Crash PROVE TypeOK'
BY IdleTyped, FaultsCounted, TypesInCycle, RowsStay DEF Crash, TypeOK

-----------------------------------------------------------------------------
\* What mining and a reorganisation do to the chain, block by block.
LEMMA MineKnown ==
  ASSUME IndexerAssumption, TypeOK, NEW txs \in SUBSET Txs, Mine(txs)
  PROVE  /\ worker.step = "idle" /\ Len(chain') = Len(chain) + 1 /\ Len(chain') <= MaxHeight /\ DOMAIN chain' = 1..(Len(chain) + 1)
         /\ chain'[Len(chain) + 1] = [hash |-> forks, txs |-> txs]
         /\ \A h \in DOMAIN chain : chain'[h] = chain[h]
         /\ txs \subseteq Txs \ OnChain
         /\ UNCHANGED <<configs, forks, faults, blocks, transfers, purchased, purchases, snapshot, job, checkpoint, worker>>
         /\ perils \subseteq perils' /\ (perils' = {} => \A t \in txs : transfers[t] = NoRow)
<1>1. /\ chain \in Seq(Block) /\ chain' = Append(chain, [hash |-> forks, txs |-> txs]) /\ Len(chain) < MaxHeight
      /\ Len(chain) \in Nat /\ DOMAIN chain = 1..Len(chain)
  BY ChainTypes DEF Mine, TypeOK, ChainTyped
<1>2. MaxHeight \in Nat
  BY DEF IndexerAssumption
<1>3. Len(chain') = Len(chain) + 1 /\ DOMAIN chain' = 1..(Len(chain) + 1)
      /\ chain'[Len(chain) + 1] = [hash |-> forks, txs |-> txs] /\ \A h \in DOMAIN chain : chain'[h] = chain[h]
  BY ONLY <1>1
<1>4. Len(chain') <= MaxHeight
  BY <1>1, <1>2, <1>3
<1> QED BY <1>3, <1>4 DEF Mine, rows

LEMMA ReorgKnown ==
  ASSUME IndexerAssumption, TypeOK, NEW h \in Heights, Reorg(h)
  PROVE  /\ h \in DOMAIN chain /\ DOMAIN chain' = DOMAIN chain /\ Len(chain') = Len(chain) /\ forks' = forks + 1
         /\ \A i \in DOMAIN chain : i < h => chain'[i] = chain[i]
         /\ \A i \in DOMAIN chain : i >= h => chain'[i].hash = forks + 1
         /\ \A i \in DOMAIN chain : i >= h => \A t \in chain'[i].txs : t \in Txs /\ \A k \in 1..(h - 1) : t \notin chain[k].txs
         /\ \A i, k \in DOMAIN chain : i >= h /\ k >= h /\ i # k => chain'[i].txs \cap chain'[k].txs = {}
         /\ UNCHANGED <<configs, blocks, transfers, purchased, purchases, snapshot, job, checkpoint, worker>>
         /\ worker.step = "idle" => faults' = faults
         /\ worker.step # "idle" => faults' = [faults EXCEPT !.during = @ + 1]
         /\ perils \subseteq perils'
         /\ perils' = {} => (\E i \in Recorded : i < h) /\ \A i \in DOMAIN chain : i >= h => \A t \in chain'[i].txs : transfers[t] = NoRow
<1>1. PICK t \in {{}} \cup {{x} : x \in Txs \ UNION {chain[i].txs : i \in 1..(h - 1)}} :
        /\ \E at \in h..Len(chain) :
             /\ chain' = [i \in DOMAIN chain |-> IF i < h THEN chain[i] ELSE [hash |-> forks', txs |-> IF i = at THEN t ELSE {}]]
             /\ perils' = perils \cup (IF \E x \in t : transfers[x] # NoRow THEN {"remined"} ELSE {})
                           \cup (IF \A i \in Recorded : i >= h THEN {"bottom"} ELSE {})
  BY DEF Reorg
<1>2. PICK at \in h..Len(chain) :
             /\ chain' = [i \in DOMAIN chain |-> IF i < h THEN chain[i] ELSE [hash |-> forks', txs |-> IF i = at THEN t ELSE {}]]
             /\ perils' = perils \cup (IF \E x \in t : transfers[x] # NoRow THEN {"remined"} ELSE {})
                           \cup (IF \A i \in Recorded : i >= h THEN {"bottom"} ELSE {})
  BY <1>1
<1>3. /\ h \in DOMAIN chain /\ forks' = forks + 1
      /\ UNCHANGED <<configs, blocks, transfers, purchased, purchases, snapshot, job, checkpoint, worker>>
      /\ worker.step = "idle" => faults' = faults
      /\ worker.step # "idle" => faults' = [faults EXCEPT !.during = @ + 1]
  BY DEF Reorg, rows
<1>4. DOMAIN chain = 1..Len(chain) /\ Len(chain) \in Nat /\ h \in Nat
  BY ChainTypes DEF Heights
<1>5. DOMAIN chain' = DOMAIN chain
  BY <1>2
<1>6. Len(chain') = Len(chain)
  <2>1. \A i \in 1..Len(chain) : chain'[i] = chain'[i]
    OBVIOUS
  <2>2. chain' = [i \in 1..Len(chain) |-> IF i < h THEN chain[i] ELSE [hash |-> forks', txs |-> IF i = at THEN t ELSE {}]]
    BY <1>2, <1>4
  <2> QED BY ONLY <1>4, <2>2
<1>7. \A i \in DOMAIN chain : (i < h => chain'[i] = chain[i]) /\ (i >= h => chain'[i].hash = forks + 1)
  BY <1>2, <1>3, <1>4
<1>8. \A i \in DOMAIN chain : i >= h => chain'[i].txs = IF i = at THEN t ELSE {}
  BY <1>2, <1>4
<1>9. \A x \in t : x \in Txs /\ \A k \in 1..(h - 1) : x \notin chain[k].txs
  OBVIOUS
<1>10. \A i \in DOMAIN chain : i >= h => \A x \in chain'[i].txs : x \in t
  BY <1>8
<1>11. perils' = {} => (\E i \in Recorded : ~(i >= h)) /\ \A x \in t : transfers[x] = NoRow
  BY <1>2
<1>12. \A i \in Recorded : ~(i >= h) => i < h
  BY <1>4 DEF Recorded, Heights
<1>13. perils \subseteq perils'
  BY <1>2
<1>14. \A i, k \in DOMAIN chain : i >= h /\ k >= h /\ i # k => chain'[i].txs \cap chain'[k].txs = {}
  BY <1>8
<1> QED BY <1>3, <1>5, <1>6, <1>7, <1>9, <1>10, <1>11, <1>12, <1>13, <1>14

\* The shape of a cycle that is not in the middle of a scan.
LEMMA ShapedAtRest ==
  ASSUME IndexerAssumption, TypeOK, CycleShaped, UNCHANGED <<configs, chain>>,
         worker'.step \in {"idle", "rebuild", "rebuildAfter", "tip"}, worker'.latest <= Len(chain), worker'.end <= worker'.latest, worker'.latest \in Nat,
         worker'.from = 0, worker'.next = [m \in members |-> 0], worker'.logs = {}, worker'.due = {},
         worker'.todo \subseteq {0}, worker'.step \in {"idle", "tip"} => worker'.todo = {},
         \A m \in members : checkpoint'[m].next <= Len(chain) + 1 /\ checkpoint'[m].last <= Len(chain)
  PROVE  CycleShaped'
<1>1. members' = members /\ Len(chain) \in Nat
  BY ChainTypes DEF members
<1>2. Admitted' = {}
  BY <1>1 DEF Admitted
<1>3. Bounded'
  BY <1>1 DEF Bounded
<1>4. ~Scanning' /\ ~Busy' /\ worker'.step # "admit"
  BY DEF Scanning, Busy
<1>5. Admission'
  BY <1>2, <1>4 DEF Admission
<1>6. Holding'
  BY <1>4 DEF Holding
<1>7. Regressing'
  BY DEF Regressing
<1> QED BY <1>3, <1>5, <1>6, <1>7 DEF CycleShaped

LEMMA RestShape ==
  ASSUME IndexerAssumption, TypeOK, CycleShaped, worker.step \in {"idle", "rebuild", "rebuildAfter", "tip"}
  PROVE  /\ worker.from = 0 /\ worker.next = [m \in members |-> 0] /\ worker.logs = {} /\ worker.due = {} /\ Admitted = {}
         /\ worker.end <= worker.latest /\ worker.todo \subseteq {0} /\ (worker.step \in {"idle", "tip"} => worker.todo = {}) /\ worker.latest <= Len(chain)
         /\ \A m \in members : checkpoint[m].next <= Len(chain) + 1 /\ checkpoint[m].last <= Len(chain)
<1>1. Admitted = {} /\ worker.from = 0
  BY DEF CycleShaped, Admission, Scanning
<1>2. worker.next \in [members -> Nat]
  BY WorkerTypes
<1>3. \A m \in members : worker.next[m] = 0
  BY <1>1 DEF Admitted
<1>4. worker.next = [m \in members |-> 0]
  BY <1>2, <1>3
<1> QED BY <1>1, <1>4 DEF CycleShaped, Holding, Busy, Bounded

LEMMA IdleFields == Idle.step = "idle" /\ Idle.latest = 0 /\ Idle.end = 0 /\ Idle.from = 0 /\ Idle.next = [m \in members |-> 0]
    /\ Idle.logs = {} /\ Idle.due = {} /\ Idle.todo = {} /\ Idle.chunk = 0 /\ Idle.at = 0
BY DEF Idle

LEMMA CheckpointBounds ==
  ASSUME CycleShaped PROVE \A m \in members : checkpoint[m].next <= Len(chain) + 1 /\ checkpoint[m].last <= Len(chain)
BY DEF CycleShaped, Bounded

\* Every action keeps the shape of the cycle; the facts about an action that later lemmas need are stated with
\* it.
LEMMA ShapedFirst == ASSUME IndexerAssumption, Init PROVE CycleShaped
<1>1. TypeOK
  BY TypesFirst
<1>2. worker = Idle /\ chain = <<>> /\ configs \in Configurations
  BY DEF Init
<1>3. Admitted = {}
  BY <1>2, IdleFields DEF Admitted
<1>4. Bounded
  BY <1>2, IdleFields DEF Bounded, Init
<1>5. Admission
  BY <1>2, <1>3, IdleFields DEF Admission, Scanning
<1>6. Holding
  BY <1>2, IdleFields DEF Holding, Busy
<1>7. Regressing
  BY <1>2, IdleFields DEF Regressing
<1> QED BY <1>4, <1>5, <1>6, <1>7 DEF CycleShaped

LEMMA ShapedMine == ASSUME IndexerAssumption, TypeOK, CycleShaped, NEW txs \in SUBSET Txs, Mine(txs) PROVE CycleShaped'
<1>1. /\ worker.step = "idle" /\ Len(chain') = Len(chain) + 1 /\ Len(chain) \in Nat
      /\ UNCHANGED <<configs, checkpoint, worker, blocks>>
  BY MineKnown, ChainTypes
<1>2. members' = members
  BY <1>1 DEF members
<1>3. Bounded'
  <2>1. /\ worker.latest \in Nat /\ worker.end \in Nat /\ worker.from \in Nat
        /\ \A m \in members : worker.next[m] \in Nat /\ checkpoint[m].next \in Nat /\ checkpoint[m].last \in Nat
    BY WorkerTypes
  <2>2. Bounded
    BY DEF CycleShaped
  <2> QED BY <1>1, <1>2, <2>1, <2>2 DEF Bounded
<1>4. Admission'
  BY <1>1, <1>2 DEF CycleShaped, Admission, Scanning, Admitted
<1>5. Holding'
  BY <1>1, <1>2 DEF CycleShaped, Holding, Busy, Logs
<1> QED BY <1>1, <1>3, <1>4, <1>5 DEF CycleShaped, Regressing

LEMMA ShapedReorg == ASSUME IndexerAssumption, TypeOK, CycleShaped, NEW h \in Heights, Reorg(h) PROVE CycleShaped'
<1>1. /\ Len(chain') = Len(chain) /\ DOMAIN chain' = DOMAIN chain
      /\ UNCHANGED <<configs, checkpoint, worker, blocks>>
  BY ReorgKnown
<1>2. members' = members
  BY <1>1 DEF members
<1>3. Bounded'
  BY <1>1, <1>2 DEF CycleShaped, Bounded
<1>4. Admission'
  BY <1>1, <1>2 DEF CycleShaped, Admission, Scanning, Admitted
<1>5. Holding'
  BY <1>1, <1>2 DEF CycleShaped, Holding, Busy, Logs, Target
<1>6. Regressing'
  BY <1>1 DEF CycleShaped, Regressing
<1> QED BY <1>3, <1>4, <1>5, <1>6 DEF CycleShaped

LEMMA ShapedRebuild ==
  ASSUME IndexerAssumption, TypeOK, CycleShaped, BeginRebuild \/ Derive \/ Replay PROVE CycleShaped'
<1>1. /\ worker.step \in {"idle", "rebuild", "rebuildAfter"}
      /\ UNCHANGED <<configs, chain, checkpoint>>
  BY DEF BeginRebuild, Derive, Replay, world
<1>2. /\ worker'.step \in {"idle", "rebuild", "rebuildAfter", "tip"} /\ UNCHANGED <<worker.latest, worker.end, worker.from, worker.next, worker.logs, worker.due>>
      /\ worker'.todo \subseteq {0} /\ (worker'.step \in {"idle", "tip"} => worker'.todo = {})
  <2>1. worker.todo \subseteq {0} /\ worker \in WorkerType
    BY <1>1, RestShape DEF TypeOK
  <2>2. CASE BeginRebuild
    BY <2>1, <2>2, <1>1, RestShape DEF BeginRebuild, WorkerType
  <2>3. CASE Derive
    BY <2>1, <2>3 DEF Derive, WorkerType
  <2>4. CASE Replay
    BY <2>1, <2>4 DEF Replay, WorkerType
  <2> QED BY <2>2, <2>3, <2>4
<1> QED BY <1>1, <1>2, RestShape, ShapedAtRest, CheckpointBounds, WorkerTypes

LEMMA ShapedReadTip == ASSUME IndexerAssumption, TypeOK, CycleShaped, ReadTip PROVE CycleShaped'
<1>1. /\ worker.step \in {"idle", "tip"} /\ UNCHANGED <<configs, chain, checkpoint, blocks>>
      /\ worker'.step = "admit" /\ worker'.latest = Len(chain) /\ UNCHANGED <<worker.end, worker.from, worker.next, worker.logs, worker.due, worker.todo>>
  BY DEF ReadTip, world, TypeOK, WorkerType
<1>2. members' = members /\ Len(chain) \in Nat /\ worker.end \in Nat /\ worker.latest \in Nat
  BY <1>1, ChainTypes, WorkerTypes DEF members
<1>3. Admitted' = {} /\ members # {}
  BY <1>1, <1>2, RestShape, MembersKnown DEF Admitted, TypeOK
<1>4. Bounded'
  BY <1>1, <1>2 DEF CycleShaped, Bounded
<1>5. Admission'
  BY <1>1, <1>2, <1>3, RestShape DEF Admission, Scanning
<1>6. Holding'
  BY <1>1, RestShape DEF Holding, Busy
<1>7. Regressing'
  BY <1>1 DEF Regressing
<1> QED BY <1>4, <1>5, <1>6, <1>7 DEF CycleShaped

LEMMA VerifyKnown ==
  ASSUME IndexerAssumption, TypeOK, CycleShaped, Verify, NEW f, f = RewindTo(Joining)
  PROVE  /\ worker.step = "admit" /\ worker.from = 0 /\ Joining \in members /\ Diverged(Joining) # {} /\ f \in Nat \ {0} /\ f <= Len(chain)
         /\ HandleReorg(f) /\ worker'.from = f
         /\ UNCHANGED <<worker.step, worker.latest, worker.next, worker.chunk, worker.end, worker.at, worker.logs, worker.todo, worker.due>>
         /\ UNCHANGED <<configs, chain, forks, perils, faults, checkpoint>>
<1>1. Joining \in members /\ Diverged(Joining) # {} /\ worker.step = "admit" /\ worker.from = 0
  BY JoiningIsOne DEF Verify
<1>2. f \in Nat \ {0} /\ f <= Len(chain)
  BY <1>1, RewindInside
<1> QED BY <1>1, <1>2 DEF Verify, world, TypeOK, WorkerType

LEMMA ShapedVerify == ASSUME IndexerAssumption, TypeOK, CycleShaped, Verify PROVE CycleShaped'
<1>1. /\ worker.step = "admit" /\ worker'.from <= Len(chain)
      /\ UNCHANGED <<worker.step, worker.latest, worker.next, worker.chunk, worker.end, worker.at, worker.logs, worker.todo, worker.due>>
      /\ UNCHANGED <<configs, chain, checkpoint>>
  BY VerifyKnown
<1>2. members' = members
  BY <1>1 DEF members
<1>4. Bounded'
  BY <1>1, <1>2 DEF CycleShaped, Bounded
<1>5. Admission'
  BY <1>1, <1>2 DEF CycleShaped, Admission, Scanning, Admitted
<1>6. Holding'
  BY <1>1 DEF CycleShaped, Holding, Busy, Logs
<1>7. Regressing'
  BY <1>1 DEF Regressing
<1> QED BY <1>4, <1>5, <1>6, <1>7 DEF CycleShaped

LEMMA AdmitKnown ==
  ASSUME IndexerAssumption, TypeOK, CycleShaped, Admit, NEW m, m = Joining
  PROVE  /\ worker.step = "admit" /\ m \in members /\ m \notin Admitted /\ (worker.from = 0 => Diverged(m) = {})
         /\ checkpoint'[m].next = (IF worker.from = 0 THEN checkpoint[m].next ELSE worker.from)
         /\ checkpoint'[m].last = (IF worker.from = 0 THEN checkpoint[m].last ELSE worker.from - 1)
         /\ \A k \in members : k # m => checkpoint'[k] = checkpoint[k]
         /\ worker'.next = [worker.next EXCEPT ![m] = checkpoint'[m].next] /\ worker'.from = 0
         /\ worker'.step = (IF Admitted \cup {m} = members THEN "scan" ELSE "admit")
         /\ Admitted' = Admitted \cup {m} /\ members' = members
         /\ UNCHANGED <<worker.latest, worker.chunk, worker.end, worker.at, worker.logs, worker.todo, worker.due>>
         /\ UNCHANGED <<configs, chain, forks, perils, faults, blocks, transfers, purchased, purchases, snapshot, job>>
<1>1. m \in members /\ m \notin Admitted /\ worker.step = "admit" /\ (worker.from = 0 => Diverged(m) = {})
  BY JoiningIsOne DEF Admit
<1> DEFINE next == IF worker.from = 0 THEN checkpoint[m].next ELSE worker.from
<1>2. /\ checkpoint' = [checkpoint EXCEPT ![m] = [@ EXCEPT !.next = next, !.last = LastAdmitted(m), !.status = "RUNNING"]]
      /\ worker' = [worker EXCEPT !.next[m] = next, !.from = 0, !.step = IF Admitted \cup {m} = members THEN "scan" ELSE "admit"]
      /\ UNCHANGED <<configs, chain, forks, perils, faults, blocks, transfers, purchased, purchases, snapshot, job>>
  BY DEF Admit, world, rows
<1>3. worker \in WorkerType /\ checkpoint \in [members -> CheckpointType] /\ next \in Nat \ {0}
  BY <1>1, WorkerTypes DEF TypeOK
<1> HIDE DEF next
<1>4. /\ worker'.next = [worker.next EXCEPT ![m] = next] /\ worker'.from = 0
      /\ worker'.step = (IF Admitted \cup {m} = members THEN "scan" ELSE "admit")
      /\ UNCHANGED <<worker.latest, worker.chunk, worker.end, worker.at, worker.logs, worker.todo, worker.due>>
  BY <1>1, <1>2, <1>3 DEF WorkerType
<1>5. checkpoint'[m].next = next /\ checkpoint'[m].last = LastAdmitted(m) /\ \A k \in members : k # m => checkpoint'[k] = checkpoint[k]
  BY <1>1, <1>2, <1>3 DEF CheckpointType
<1>6. members' = members
  BY <1>2 DEF members
<1>7. Admitted' = Admitted \cup {m}
  <2>1. worker.next \in [members -> Nat]
    BY WorkerTypes
  <2> QED BY <1>1, <1>3, <1>4, <1>6, <2>1 DEF Admitted
<1> QED BY <1>1, <1>2, <1>4, <1>5, <1>6, <1>7 DEF next, LastAdmitted

LEMMA ShapedAdmit == ASSUME IndexerAssumption, TypeOK, CycleShaped, Admit PROVE CycleShaped'
<1>0. PICK m : m = Joining
  OBVIOUS
<1>1. /\ worker.step = "admit" /\ m \in members /\ m \notin Admitted
      /\ checkpoint'[m].next = (IF worker.from = 0 THEN checkpoint[m].next ELSE worker.from)
      /\ checkpoint'[m].last = (IF worker.from = 0 THEN checkpoint[m].last ELSE worker.from - 1)
      /\ \A k \in members : k # m => checkpoint'[k] = checkpoint[k]
      /\ worker'.next = [worker.next EXCEPT ![m] = checkpoint'[m].next] /\ worker'.from = 0
      /\ worker'.step = (IF Admitted \cup {m} = members THEN "scan" ELSE "admit")
      /\ Admitted' = Admitted \cup {m} /\ members' = members
      /\ UNCHANGED <<worker.latest, worker.chunk, worker.end, worker.at, worker.logs, worker.todo, worker.due>>
      /\ UNCHANGED <<configs, chain, blocks>>
  BY <1>0, AdmitKnown
<1>2. Len(chain) \in Nat /\ worker.from \in Nat /\ worker.from <= Len(chain) /\ worker.next \in [members -> Nat]
  BY ChainTypes, WorkerTypes DEF CycleShaped, Bounded
<1>3. \A k \in members : /\ worker'.next[k] <= Len(chain) + 1 /\ checkpoint'[k].next <= Len(chain) + 1 /\ checkpoint'[k].last <= Len(chain)
  BY <1>1, <1>2 DEF CycleShaped, Bounded
<1>4. Bounded'
  BY <1>1, <1>2, <1>3 DEF CycleShaped, Bounded
<1>5. Admission'
  BY <1>1 DEF Admission, Scanning
<1>6. Holding'
  BY <1>1 DEF CycleShaped, Holding, Busy
<1>7. Regressing'
  BY <1>1 DEF Regressing
<1> QED BY <1>4, <1>5, <1>6, <1>7 DEF CycleShaped

LEMMA ShapedFetchLogs == ASSUME IndexerAssumption, TypeOK, CycleShaped, FetchLogs PROVE CycleShaped'
<1>1. /\ worker.step = "scan" /\ ActiveMembers # {} /\ UNCHANGED <<configs, chain, blocks, checkpoint>>
  BY DEF FetchLogs, world
<1>2. /\ worker'.step = "block" /\ worker'.latest = worker.latest /\ worker'.next = worker.next
      /\ worker'.end = ChunkEnd /\ worker'.from = worker.from /\ worker'.due = worker.due
      /\ worker'.todo = {l[2] : l \in worker'.logs} \cup (IF ChunkEnd >= Target \/ worker.chunk + 1 >= MaxChunks THEN {ChunkEnd} ELSE {})
      /\ \A l \in worker'.logs : /\ l[1] \in ActiveMembers /\ l[2] \in worker.next[l[1]]..ChunkEnd /\ l[2] \in DOMAIN chain
                                 /\ l[3] \in chain[l[2]].txs \cap Logs(l[1])
  BY FetchedKnown
<1>3. members' = members /\ Logs("sale")' = Logs("sale") /\ Target' = Target
  BY <1>1, <1>2 DEF members, Logs, Target
<1>4. ChunkEnd \in Nat \ {0} /\ Target \in Nat /\ ChunkEnd <= Target /\ Target <= worker.latest /\ worker.latest \in Nat
  BY <1>1, ChunkKnown, WorkerTypes
<1>5. Admitted' = Admitted
  BY <1>2, <1>3 DEF Admitted
<1>6. Bounded'
  <2>1. ChunkEnd <= worker.latest
    BY <1>4
  <2> QED BY <1>1, <1>2, <1>3, <2>1 DEF CycleShaped, Bounded
<1>7. Admission'
  BY <1>1, <1>2, <1>3, <1>5 DEF CycleShaped, Admission, Scanning
<1>8. Holding'
  <2>1. worker.due = {}
    BY <1>1 DEF CycleShaped, Holding, Busy
  <2>2. \A l \in worker'.logs : l[2] \in 1..ChunkEnd /\ l[2] <= ChunkEnd /\ l[3] \in Logs(l[1])
    BY <1>2, <1>4, ChainTypes, WorkerTypes DEF ActiveMembers, Admitted
  <2>3. worker'.todo \subseteq 1..ChunkEnd
    BY <1>2, <1>4, <2>2
  <2>4. Target' >= ChunkEnd
    BY <1>3, <1>4
  <2> QED BY <1>2, <2>1, <2>2, <2>3, <2>4 DEF Holding, Busy, Logs
<1> QED BY <1>2, <1>6, <1>7, <1>8 DEF CycleShaped, Regressing

LEMMA ShapedFetchBlock == ASSUME IndexerAssumption, TypeOK, CycleShaped, FetchBlock PROVE CycleShaped'
<1>1. /\ worker.step = "block" /\ worker'.step \in {"block", "regress"}
      /\ UNCHANGED <<worker.latest, worker.next, worker.end, worker.from, worker.logs, configs, chain, checkpoint>>
      /\ worker'.todo = worker.todo \ {NextBlock} /\ worker'.due = {l \in worker.logs : l[2] = NextBlock} /\ worker'.at = NextBlock
      /\ NextBlock \in DOMAIN chain
  BY FetchBlockKnown
<1>2. members' = members /\ Admitted' = Admitted /\ Target' = Target
  BY <1>1 DEF members, Admitted, Target
<1>3. Bounded'
  BY <1>1, <1>2 DEF CycleShaped, Bounded
<1>4. Admission'
  BY <1>1, <1>2 DEF CycleShaped, Admission, Scanning
<1>5. Holding'
  BY <1>1, <1>2 DEF CycleShaped, Holding, Busy, Logs
<1>6. Regressing'
  <2>1. worker'.step = "regress" => blocks[NextBlock] \notin {None, chain[NextBlock].hash}
    BY FetchBlockKnown
  <2>2. worker'.step = "regress" => HandleReorg(NextBlock)
    BY <2>1, FetchBlockKnown
  <2>3. NextBlock \in Heights /\ NextBlock >= NextBlock
    BY <1>1, ChainTypes DEF Heights
  <2> HIDE DEF NextBlock
  <2> QED BY <1>1, <2>2, <2>3 DEF Regressing, HandleReorg
<1> QED BY <1>3, <1>4, <1>5, <1>6 DEF CycleShaped

LEMMA RegressKnown ==
  ASSUME IndexerAssumption, TypeOK, CycleShaped, RegressGroup
  PROVE  /\ worker.step = "regress" /\ worker'.step = "block" /\ worker.at \in DOMAIN chain /\ blocks[worker.at] = None
         /\ UNCHANGED <<worker.latest, worker.next, worker.chunk, worker.end, worker.at, worker.from, worker.logs, worker.todo, worker.due>>
         /\ blocks' = [blocks EXCEPT ![worker.at] = chain[worker.at].hash]
         /\ \A m \in members : \/ checkpoint'[m] = checkpoint[m]
                               \/ checkpoint'[m].next = worker.at /\ checkpoint'[m].last = worker.at - 1
         /\ UNCHANGED <<configs, chain, forks, perils, faults, transfers, purchased, purchases, snapshot, job>>
<1>1. worker.step = "regress" /\ worker.at \in DOMAIN chain /\ blocks[worker.at] = None
  BY DEF RegressGroup, CycleShaped, Regressing
<1>2. \A m \in members : \/ checkpoint'[m] = checkpoint[m]
                         \/ checkpoint'[m].next = worker.at /\ checkpoint'[m].last = worker.at - 1
  <2>1. \A m \in members : [checkpoint[m] EXCEPT !.next = worker.at, !.last = worker.at - 1, !.status = "REORGING"].next = worker.at
              /\ [checkpoint[m] EXCEPT !.next = worker.at, !.last = worker.at - 1, !.status = "REORGING"].last = worker.at - 1
    BY DEF TypeOK, CheckpointType
  <2> QED BY <2>1 DEF RegressGroup
<1> QED BY <1>1, <1>2 DEF RegressGroup, TypeOK, WorkerType, world, rows

LEMMA ShapedRegressGroup == ASSUME IndexerAssumption, TypeOK, CycleShaped, RegressGroup PROVE CycleShaped'
<1>1. /\ worker.step = "regress" /\ worker'.step = "block" /\ worker.at \in DOMAIN chain
      /\ UNCHANGED <<worker.latest, worker.next, worker.end, worker.at, worker.from, worker.logs, worker.todo, worker.due>>
      /\ UNCHANGED <<configs, chain>>
      /\ \A m \in members : \/ checkpoint'[m] = checkpoint[m]
                            \/ checkpoint'[m].next = worker.at /\ checkpoint'[m].last = worker.at - 1
  BY RegressKnown
<1>2. members' = members /\ Admitted' = Admitted /\ Target' = Target
  BY <1>1 DEF members, Admitted, Target
<1>3. Bounded'
  <2>1. worker.at \in Nat /\ worker.at <= Len(chain) /\ Len(chain) \in Nat
    BY <1>1, ChainTypes
  <2> QED BY <1>1, <1>2, <2>1 DEF CycleShaped, Bounded
<1>4. Admission'
  BY <1>1, <1>2 DEF CycleShaped, Admission, Scanning
<1>5. Holding'
  BY <1>1, <1>2 DEF CycleShaped, Holding, Busy, Logs
<1> QED BY <1>1, <1>3, <1>4, <1>5 DEF CycleShaped, Regressing

LEMMA ProcessLogKnown ==
  ASSUME IndexerAssumption, TypeOK, CycleShaped, NEW l \in worker.due, ProcessLog(l)
  PROVE  /\ worker.step = "block" /\ worker'.due \in {worker.due, worker.due \ {l}}
         /\ UNCHANGED <<worker.step, worker.latest, worker.next, worker.chunk, worker.end, worker.at, worker.from, worker.logs, worker.todo>>
         /\ UNCHANGED <<configs, chain, forks, perils, faults, blocks, job, checkpoint>>
         /\ ~PurchaseNoted(l) => worker'.due = worker.due \ {l}
<1>1. worker \in WorkerType
  BY DEF TypeOK
<1>2. worker' = worker \/ worker' = [worker EXCEPT !.due = @ \ {l}]
  BY ProcessLogCases DEF MintApplied, PurchaseNoted, PurchaseApplied
<1>3. ~PurchaseNoted(l) => worker' = [worker EXCEPT !.due = @ \ {l}]
  BY ProcessLogCases DEF MintApplied, PurchaseApplied
<1> HIDE DEF ProcessLog
<1>4. [worker EXCEPT !.due = @ \ {l}].due = worker.due \ {l}
  BY <1>1 DEF WorkerType
<1> QED BY <1>1, <1>2, <1>3, <1>4, ProcessLogCases DEF WorkerType

LEMMA ShapedProcessLog == ASSUME IndexerAssumption, TypeOK, CycleShaped, NEW l \in worker.due, ProcessLog(l) PROVE CycleShaped'
<1>1. /\ worker.step = "block" /\ worker'.due \subseteq worker.due
      /\ UNCHANGED <<worker.step, worker.latest, worker.next, worker.end, worker.at, worker.from, worker.logs, worker.todo>>
      /\ UNCHANGED <<configs, chain, blocks, checkpoint>>
  BY ProcessLogKnown
<1>2. members' = members /\ Admitted' = Admitted /\ Target' = Target
  BY <1>1 DEF members, Admitted, Target
<1>3. Bounded'
  BY <1>1, <1>2 DEF CycleShaped, Bounded
<1>4. Admission'
  BY <1>1, <1>2 DEF CycleShaped, Admission, Scanning
<1>5. Holding'
  BY <1>1, <1>2 DEF CycleShaped, Holding, Busy, Logs
<1> QED BY <1>1, <1>3, <1>4, <1>5 DEF CycleShaped, Regressing

LEMMA ShapedAdvance == ASSUME IndexerAssumption, TypeOK, CycleShaped, Advance PROVE CycleShaped'
<1>0. PICK m : m = FirstOf(Participating)
  OBVIOUS
<1>1. /\ worker.step = "block" /\ m \in Participating /\ m \in members
      /\ checkpoint' = [checkpoint EXCEPT ![m] = [@ EXCEPT !.next = worker.end + 1, !.last = worker.end, !.status = "RUNNING"]]
      /\ worker'.next = [worker.next EXCEPT ![m] = worker.end + 1]
      /\ worker'.latest = worker.latest /\ worker'.from = worker.from /\ worker'.todo = {} /\ worker'.due = {}
      /\ Participating = {m} => worker'.step = "scan" /\ worker'.logs = {} /\ worker'.end = 0
      /\ Participating # {m} => worker'.step = "block" /\ worker'.logs = worker.logs /\ worker'.end = worker.end
      /\ UNCHANGED <<configs, chain, blocks>>
  BY <1>0, AdvanceKnown
<1>2. members' = members /\ Target' = Target
  BY <1>1 DEF members, Target
<1>3. worker.end \in Nat /\ worker.latest \in Nat /\ worker.end <= worker.latest /\ worker.latest <= Len(chain) /\ Len(chain) \in Nat
  BY WorkerTypes, ChainTypes DEF CycleShaped, Bounded
<1>4. worker.next \in [members -> Nat]
  BY WorkerTypes
<1>5. Admitted' = Admitted
  BY <1>1, <1>2, <1>3, <1>4 DEF Admitted, Participating
<1>6. Bounded'
  <2>1. \A k \in members : worker'.next[k] <= Len(chain) + 1
    BY <1>1, <1>3, <1>4 DEF CycleShaped, Bounded
  <2>2. \A k \in members : checkpoint'[k].next <= Len(chain) + 1 /\ checkpoint'[k].last <= Len(chain)
    <3>1. checkpoint \in [members -> CheckpointType] /\ worker.end + 1 <= Len(chain) + 1 /\ worker.end <= Len(chain)
      BY <1>3 DEF TypeOK
    <3> QED BY <1>1, <3>1 DEF CycleShaped, Bounded, CheckpointType
  <2>3. worker'.end <= worker'.latest
    BY <1>1, <1>3
  <2> QED BY <1>1, <1>2, <2>1, <2>2, <2>3 DEF CycleShaped, Bounded
<1>7. Admission'
  BY <1>1, <1>2, <1>5 DEF CycleShaped, Admission, Scanning
<1>8. Holding'
  BY <1>1, <1>2 DEF CycleShaped, Holding, Busy, Logs
<1>9. Regressing'
  BY <1>1 DEF Regressing
<1> QED BY <1>6, <1>7, <1>8, <1>9 DEF CycleShaped

LEMMA FinishScanKnown ==
  ASSUME IndexerAssumption, TypeOK, CycleShaped, FinishScan
  PROVE  /\ worker.step = "scan" /\ (ActiveMembers = {} \/ worker.chunk >= MaxChunks) /\ Admitted = members
         /\ worker'.step \in {"idle", "rebuildAfter"} /\ worker'.latest = 0 /\ worker'.end = 0 /\ worker'.from = 0
         /\ worker'.next = [m \in members |-> 0] /\ worker'.logs = {} /\ worker'.due = {} /\ worker'.todo = {}
         /\ \A m \in members : checkpoint'[m].next = checkpoint[m].next
         /\ \A m \in members : checkpoint'[m].last \in {checkpoint[m].last, worker.next[m] - 1}
         /\ \A m \in members : worker.next[m] \in Nat \ {0}
         /\ purchases' = (IF "sale" \in members THEN Finalized(worker.next["sale"] - 1) ELSE purchases)
         /\ ~Rebuildable => worker'.step = "idle"
         /\ UNCHANGED <<configs, chain, forks, perils, faults, blocks, transfers, purchased, snapshot, job>>
<1>1. Admitted = members /\ worker.step = "scan"
  BY DEF FinishScan, CycleShaped, Admission, Scanning
<1>2. \A m \in members : worker.next[m] \in Nat \ {0}
  BY <1>1, WorkerTypes DEF Admitted
<1>3. /\ worker'.step \in {"idle", "rebuildAfter"} /\ worker'.latest = 0 /\ worker'.end = 0 /\ worker'.from = 0
      /\ worker'.next = [m \in members |-> 0] /\ worker'.logs = {} /\ worker'.due = {} /\ worker'.todo = {}
      /\ ~Rebuildable => worker'.step = "idle"
  BY DEF FinishScan, Idle
<1>4. \A m \in members : /\ checkpoint'[m].next = checkpoint[m].next
                         /\ checkpoint'[m].last \in {checkpoint[m].last, worker.next[m] - 1}
  <2>1. ASSUME NEW m \in members
        PROVE  /\ [checkpoint[m] EXCEPT !.status = "RUNNING"].next = checkpoint[m].next
               /\ [checkpoint[m] EXCEPT !.status = "RUNNING"].last = checkpoint[m].last
               /\ [checkpoint[m] EXCEPT !.last = worker.next[m] - 1, !.status = "IDLE", !.succeeded = TRUE].next = checkpoint[m].next
               /\ [checkpoint[m] EXCEPT !.last = worker.next[m] - 1, !.status = "IDLE", !.succeeded = TRUE].last = worker.next[m] - 1
    BY DEF TypeOK, CheckpointType
  <2> QED BY <2>1 DEF FinishScan
<1> QED BY <1>1, <1>2, <1>3, <1>4 DEF FinishScan, world

LEMMA ShapedFinishScan == ASSUME IndexerAssumption, TypeOK, CycleShaped, FinishScan PROVE CycleShaped'
<1>1. \A m \in members : worker.next[m] \in Nat \ {0} /\ worker.next[m] <= Len(chain) + 1 /\ checkpoint[m].next <= Len(chain) + 1
                         /\ checkpoint[m].last <= Len(chain)
  BY FinishScanKnown DEF CycleShaped, Bounded
<1>2. \A m \in members : checkpoint'[m].next <= Len(chain) + 1 /\ checkpoint'[m].last <= Len(chain)
  <2>1. \A m \in members : checkpoint'[m].next = checkpoint[m].next /\ checkpoint'[m].last \in {checkpoint[m].last, worker.next[m] - 1}
    BY FinishScanKnown
  <2> QED BY <1>1, <2>1, ChainTypes
<1> QED BY <1>2, FinishScanKnown, ShapedAtRest, ChainTypes

\* A failed cycle leaves each checkpoint as it is, or puts it where the contract resumes.
LEMMA FailKnown ==
  ASSUME IndexerAssumption, TypeOK, CycleShaped, Fail
  PROVE  /\ Scanning /\ worker' = Idle /\ faults' = [faults EXCEPT !.failed = @ + 1]
         /\ \A m \in members : \/ checkpoint'[m] = checkpoint[m]
                               \/ /\ checkpoint'[m].next = ResumeAt(m) /\ ResumeAt(m) >= checkpoint[m].next
                                  /\ checkpoint'[m].last = IF ResumeAt(m) > worker.next[m] THEN ResumeAt(m) - 1 ELSE checkpoint[m].last
         /\ UNCHANGED <<configs, chain, forks, perils, blocks, transfers, purchased, purchases, snapshot, job>>
<1>1. ASSUME NEW m \in members
      PROVE  FailedAt(m).next = ResumeAt(m) /\ FailedAt(m).last = IF ResumeAt(m) > worker.next[m] THEN ResumeAt(m) - 1 ELSE checkpoint[m].last
  BY DEF FailedAt, TypeOK, CheckpointType
<1> HIDE DEF FailedAt, ResumeAt, Failing
<1>2. \A m \in members : checkpoint'[m] = IF m \in Failing /\ ResumeAt(m) >= checkpoint[m].next THEN FailedAt(m) ELSE checkpoint[m]
  BY DEF Fail
<1> QED BY <1>1, <1>2 DEF Fail, Scanning, rows

LEMMA ShapedFail == ASSUME IndexerAssumption, TypeOK, CycleShaped, Fail PROVE CycleShaped'
<1>1. \A m \in members : checkpoint'[m].next <= Len(chain) + 1 /\ checkpoint'[m].last <= Len(chain)
  <2> SUFFICES ASSUME NEW m \in members PROVE checkpoint'[m].next <= Len(chain) + 1 /\ checkpoint'[m].last <= Len(chain)
    OBVIOUS
  <2>1. ResumeAt(m) \in Nat /\ ResumeAt(m) <= Len(chain) + 1 /\ Len(chain) \in Nat
    BY FailKnown, ResumeKnown, ChainTypes
  <2>2. checkpoint[m].next <= Len(chain) + 1 /\ checkpoint[m].last <= Len(chain)
    BY CheckpointBounds
  <2>3. \/ checkpoint'[m] = checkpoint[m]
        \/ /\ checkpoint'[m].next = ResumeAt(m)
           /\ checkpoint'[m].last \in {ResumeAt(m) - 1, checkpoint[m].last}
    BY FailKnown
  <2> HIDE DEF ResumeAt
  <2> QED BY <2>1, <2>2, <2>3
<1>2. worker' = Idle /\ UNCHANGED <<configs, chain>>
  BY FailKnown
<1> QED BY <1>1, <1>2, IdleFields, ShapedAtRest, ChainTypes

LEMMA ShapedFailToAdmit == ASSUME IndexerAssumption, TypeOK, CycleShaped, FailToAdmit PROVE CycleShaped'
<1>1. \A m \in members : checkpoint'[m].next = checkpoint[m].next /\ checkpoint'[m].last = checkpoint[m].last
  BY JoiningIsOne DEF FailToAdmit, TypeOK, CheckpointType
<1>2. worker' = Idle /\ UNCHANGED <<configs, chain>>
  BY DEF FailToAdmit
<1> QED BY <1>1, <1>2, IdleFields, ShapedAtRest, ChainTypes, CheckpointBounds

LEMMA ShapedStopped == ASSUME IndexerAssumption, TypeOK, CycleShaped, FailToRebuild \/ Crash PROVE CycleShaped'
<1>2. worker' = Idle /\ UNCHANGED <<configs, chain, checkpoint>>
  BY DEF FailToRebuild, Crash
<1> QED BY <1>2, IdleFields, ShapedAtRest, ChainTypes, CheckpointBounds

LEMMA ShapedStays == ASSUME IndexerAssumption, Shaped, [Next]_vars PROVE Shaped'
<1>0. TypeOK /\ CycleShaped
  BY DEF Shaped
<1>1. ASSUME NEW txs \in SUBSET Txs, Mine(txs) PROVE Shaped'
  BY <1>0, <1>1, TypesMine, ShapedMine DEF Shaped
<1>2. ASSUME NEW h \in Heights, Reorg(h) PROVE Shaped'
  BY <1>0, <1>2, TypesReorg, ShapedReorg DEF Shaped
<1>3. CASE BeginRebuild
  BY <1>0, <1>3, TypesBeginRebuild, ShapedRebuild DEF Shaped
<1>4. CASE Derive
  BY <1>0, <1>4, TypesDerive, ShapedRebuild DEF Shaped
<1>5. CASE Replay
  BY <1>0, <1>5, TypesReplay, ShapedRebuild DEF Shaped
<1>6. CASE ReadTip
  BY <1>0, <1>6, TypesReadTip, ShapedReadTip DEF Shaped
<1>7. CASE Verify
  BY <1>0, <1>7, TypesVerify, ShapedVerify DEF Shaped
<1>8. CASE Admit
  BY <1>0, <1>8, TypesAdmit, ShapedAdmit DEF Shaped
<1>9. CASE FetchLogs
  BY <1>0, <1>9, TypesFetchLogs, ShapedFetchLogs DEF Shaped
<1>10. CASE FetchBlock
  BY <1>0, <1>10, TypesFetchBlock, ShapedFetchBlock DEF Shaped
<1>11. CASE RegressGroup
  BY <1>0, <1>11, TypesRegressGroup, ShapedRegressGroup DEF Shaped
<1>12. CASE Advance
  BY <1>0, <1>12, TypesAdvance, ShapedAdvance DEF Shaped
<1>13. CASE FinishScan
  BY <1>0, <1>13, TypesFinishScan, ShapedFinishScan DEF Shaped
<1>14. ASSUME NEW l \in worker.due, ProcessLog(l) PROVE Shaped'
  BY <1>0, <1>14, TypesProcessLog, ShapedProcessLog DEF Shaped
<1>15. CASE Fail
  BY <1>0, <1>15, TypesFail, ShapedFail DEF Shaped
<1>16. CASE FailToAdmit
  BY <1>0, <1>16, TypesFailToAdmit, ShapedFailToAdmit DEF Shaped
<1>17. CASE FailToRebuild
  BY <1>0, <1>17, TypesFailToRebuild, ShapedStopped DEF Shaped
<1>18. CASE Crash
  BY <1>0, <1>18, TypesCrash, ShapedStopped DEF Shaped
<1>19. CASE UNCHANGED vars
  <2>1. UNCHANGED <<configs, chain, forks, perils, faults, blocks, transfers, purchased, purchases, snapshot, job, checkpoint, worker>>
    BY <1>19 DEF vars
  <2>2. members' = members
    BY <2>1 DEF members
  <2>3. TypeOK'
    BY <1>0, <2>1, TypesInCycle DEF TypeOK, RowsTyped
  <2>4. Admitted' = Admitted /\ Target' = Target /\ Scanning' = Scanning /\ Busy' = Busy
    BY <2>1, <2>2 DEF Admitted, Target, Scanning, Busy
  <2>5. Bounded' /\ Admission'
    BY <1>0, <2>1, <2>2, <2>4 DEF CycleShaped, Bounded, Admission
  <2>6. Holding' /\ Regressing'
    BY <1>0, <2>1, <2>4 DEF CycleShaped, Holding, Regressing, Logs
  <2> QED BY <2>3, <2>5, <2>6 DEF Shaped, CycleShaped
<1> QED BY <1>1, <1>2, <1>3, <1>4, <1>5, <1>6, <1>7, <1>8, <1>9, <1>10, <1>11, <1>12, <1>13, <1>14, <1>15, <1>16, <1>17, <1>18, <1>19
     DEF Next, Cycle

-----------------------------------------------------------------------------
\* Handling a reorganisation from block f: rows from f on no longer count, blocks from f on are forgotten,
\* nothing else changes.
LEMMA OrphanEffects ==
  ASSUME IndexerAssumption, TypeOK, NEW f \in Nat \ {0}, HandleReorg(f)
  PROVE  /\ \A t \in Txs : /\ transfers'[t].at = transfers[t].at /\ transfers'[t].hash = transfers[t].hash
                           /\ (transfers'[t].canonical <=> transfers[t].canonical /\ transfers[t].at < f)
                           /\ (transfers'[t] = NoRow <=> transfers[t] = NoRow)
                           /\ (transfers[t].at < f => transfers'[t] = transfers[t])
         /\ \A t \in Txs : /\ purchased'[t].at = purchased[t].at /\ purchased'[t].hash = purchased[t].hash
                           /\ (purchased'[t].canonical <=> purchased[t].canonical /\ purchased[t].at < f)
         /\ \A t \in Txs : /\ purchases'[t].at = purchases[t].at /\ purchases'[t].hash = purchases[t].hash
                           /\ purchases'[t].status = IF purchases[t].at >= f THEN "REORGED" ELSE purchases[t].status
         /\ \A h \in Heights : blocks'[h] = IF h >= f THEN None ELSE blocks[h]
         /\ job' = "PENDING"
<1>1. ASSUME NEW table \in [Txs -> Row], NEW t \in Txs
      PROVE  /\ Orphan(table, f)[t].at = table[t].at /\ Orphan(table, f)[t].hash = table[t].hash
             /\ (Orphan(table, f)[t].canonical <=> table[t].canonical /\ table[t].at < f)
             /\ (Orphan(table, f)[t] = NoRow <=> table[t] = NoRow)
             /\ (table[t].at < f => Orphan(table, f)[t] = table[t])
  <2>1. table[t] \in Row /\ table[t].at \in Nat
    BY DEF Row, IndexerAssumption
  <2>2. CASE table[t].at >= f
    <3>1. Orphan(table, f)[t] = [table[t] EXCEPT !.canonical = FALSE] /\ ~(table[t].at < f) /\ table[t].at # 0
      BY <2>1, <2>2 DEF Orphan
    <3>2. /\ [table[t] EXCEPT !.canonical = FALSE].at = table[t].at /\ [table[t] EXCEPT !.canonical = FALSE].hash = table[t].hash
          /\ [table[t] EXCEPT !.canonical = FALSE].canonical = FALSE
      BY <2>1 DEF Row
    <3> QED BY <3>1, <3>2 DEF NoRow
  <2>3. CASE ~(table[t].at >= f)
    BY <2>1, <2>3 DEF Orphan, Row
  <2> QED BY <2>2, <2>3
<1>2. transfers' = Orphan(transfers, f) /\ purchased' = Orphan(purchased, f) /\ job' = "PENDING" /\ transfers \in [Txs -> Row] /\ purchased \in [Txs -> Row]
  BY DEF HandleReorg, TypeOK, RowsTyped
<1>3. ASSUME NEW t \in Txs
      PROVE  /\ purchases'[t].at = purchases[t].at /\ purchases'[t].hash = purchases[t].hash
             /\ purchases'[t].status = IF purchases[t].at >= f THEN "REORGED" ELSE purchases[t].status
  <2>1. purchases[t] \in Purchase
    BY DEF TypeOK, RowsTyped
  <2>2. purchases'[t] = IF purchases[t].at >= f THEN [purchases[t] EXCEPT !.status = "REORGED"] ELSE purchases[t]
    BY DEF HandleReorg
  <2> QED BY <2>1, <2>2 DEF Purchase
<1>4. \A h \in Heights : blocks'[h] = IF h >= f THEN None ELSE blocks[h]
  BY DEF HandleReorg
<1> HIDE DEF HandleReorg
<1> QED BY <1>1, <1>2, <1>3, <1>4

\* Rows that count stay of recorded blocks, and a finalized purchase in the block recorded for it.
LEMMA StandingSame == ASSUME Standing, UNCHANGED <<blocks, transfers, purchased, purchases>> PROVE Standing'
BY DEF Standing, RowsWritten, FinalizedStands, OfABlock

LEMMA StandingOrphaned ==
  ASSUME IndexerAssumption, TypeOK, Standing, NEW f \in Nat \ {0}, HandleReorg(f) PROVE Standing'
<1>1. RowsWritten'
  BY OrphanEffects DEF Standing, RowsWritten, OfABlock
<1>2. ASSUME NEW t \in Txs, purchases'[t].status = "FINALIZED" PROVE blocks'[purchases'[t].at] = purchases'[t].hash
  <2>1. purchases[t].status = "FINALIZED" /\ ~(purchases[t].at >= f) /\ purchases'[t].at = purchases[t].at /\ purchases'[t].hash = purchases[t].hash
    BY <1>2, OrphanEffects
  <2>2. purchases[t].at \in Heights /\ blocks[purchases[t].at] = purchases[t].hash
    BY <2>1 DEF Standing, RowsWritten, FinalizedStands, OfABlock
  <2>3. blocks'[purchases[t].at] = blocks[purchases[t].at]
    BY <2>1, <2>2, OrphanEffects
  <2> QED BY <2>1, <2>2, <2>3
<1> QED BY <1>1, <1>2 DEF Standing, FinalizedStands

\* Recording a block that was not recorded harms no purchase.
LEMMA StandingRecorded ==
  ASSUME IndexerAssumption, TypeOK, Standing, NEW h \in Heights, blocks[h] = None \/ blocks[h] = chain[h].hash,
         blocks' = [blocks EXCEPT ![h] = chain[h].hash], UNCHANGED <<transfers, purchased, purchases>>
  PROVE  Standing'
<1>1. RowsWritten'
  BY DEF Standing, RowsWritten, OfABlock
<1>2. ASSUME NEW t \in Txs, purchases'[t].status = "FINALIZED" PROVE blocks'[purchases'[t].at] = purchases'[t].hash
  <2>1. purchases[t].at \in Heights /\ purchases[t].hash # None /\ blocks[purchases[t].at] = purchases[t].hash
    BY <1>2 DEF Standing, RowsWritten, FinalizedStands, OfABlock
  <2> QED BY <2>1 DEF TypeOK
<1> QED BY <1>1, <1>2 DEF Standing, FinalizedStands

LEMMA StandingReplay ==
  ASSUME IndexerAssumption, TypeOK, Standing, Derive \/ Replay PROVE Standing'
<1>1. \A t \in Txs : \/ purchases'[t] = NoPurchase \/ purchases'[t] = purchases[t]
                     \/ purchased[t].canonical /\ purchases'[t] = [at |-> purchased[t].at, hash |-> purchased[t].hash, status |-> "CONFIRMED"]
  BY DEF Derive, Replay
<1>2. UNCHANGED <<blocks, transfers, purchased>>
  BY DEF Derive, Replay
<1>3. ASSUME NEW t \in Txs
      PROVE  /\ purchases'[t].status \in {"CONFIRMED", "FINALIZED"} => OfABlock(purchases'[t])
             /\ purchases'[t].status = "FINALIZED" => blocks'[purchases'[t].at] = purchases'[t].hash
  <2>1. CASE purchases'[t] = NoPurchase
    BY <2>1 DEF NoPurchase
  <2>2. CASE purchases'[t] = purchases[t]
    BY <1>2, <2>2 DEF Standing, RowsWritten, FinalizedStands
  <2>3. CASE purchased[t].canonical /\ purchases'[t] = [at |-> purchased[t].at, hash |-> purchased[t].hash, status |-> "CONFIRMED"]
    BY <2>3 DEF Standing, RowsWritten, OfABlock
  <2> QED BY <1>1, <2>1, <2>2, <2>3
<1> QED BY <1>2, <1>3 DEF Standing, RowsWritten, FinalizedStands, OfABlock

LEMMA StandingProcessed ==
  ASSUME IndexerAssumption, TypeOK, CycleShaped, Standing, NEW l \in worker.due, ProcessLog(l) PROVE Standing'
<1>1. /\ l[2] \in Heights /\ l[3] \in Txs /\ l[4] \in Nat /\ l[4] # None /\ UNCHANGED blocks
      /\ transfers \in [Txs -> Row] /\ purchased \in [Txs -> Row] /\ purchases \in [Txs -> Purchase]
  <2>1. l[2] \in Heights /\ l[3] \in Txs /\ l[4] \in Nat
    BY DueKnown
  <2>2. l[4] # None
    BY <2>1 DEF None
  <2>3. UNCHANGED blocks
    BY ProcessLogCases
  <2>4. transfers \in [Txs -> Row] /\ purchased \in [Txs -> Row] /\ purchases \in [Txs -> Purchase]
    BY DEF TypeOK, RowsTyped
  <2> QED BY <2>1, <2>2, <2>3, <2>4
<1>2. CASE MintApplied(l)
  <2>1. UNCHANGED <<purchased, purchases>> /\ \/ transfers' = transfers
                                              \/ transfers' = [transfers EXCEPT ![l[3]] = [at |-> l[2], hash |-> l[4], canonical |-> TRUE]]
    BY <1>2 DEF MintApplied, ApplyTransfer
  <2> QED BY <1>1, <2>1 DEF Standing, RowsWritten, FinalizedStands, OfABlock
<1>3. CASE PurchaseNoted(l)
  <2>1. UNCHANGED <<transfers, purchases>> /\ purchased' = [purchased EXCEPT ![l[3]] = [at |-> l[2], hash |-> l[4], canonical |-> TRUE]]
    BY <1>3 DEF PurchaseNoted, Noted
  <2> QED BY <1>1, <2>1 DEF Standing, RowsWritten, FinalizedStands, OfABlock
<1>4. CASE PurchaseApplied(l)
  <2>1. UNCHANGED <<transfers, purchased>> /\ \/ purchases' = purchases
                                              \/ purchases' = [purchases EXCEPT ![l[3]] = [at |-> l[2], hash |-> l[4], status |-> "CONFIRMED"]]
    BY <1>4 DEF PurchaseApplied, ApplyPurchase
  <2>2. ASSUME NEW t \in Txs
        PROVE  \/ purchases'[t] = purchases[t]
               \/ purchases'[t] = [at |-> l[2], hash |-> l[4], status |-> "CONFIRMED"]
    BY <1>1, <2>1
  <2>3. RowsWritten'
    BY <1>1, <2>1, <2>2 DEF Standing, RowsWritten, OfABlock
  <2>4. FinalizedStands'
    BY <1>1, <2>1, <2>2 DEF Standing, FinalizedStands
  <2> QED BY <2>3, <2>4 DEF Standing
<1> QED BY <1>2, <1>3, <1>4, ProcessLogCases

LEMMA StandingFinished ==
  ASSUME IndexerAssumption, TypeOK, CycleShaped, Standing, FinishScan PROVE Standing'
<1>1. UNCHANGED <<blocks, transfers, purchased>>
  BY FinishScanKnown
<1>2. ASSUME NEW t \in Txs
      PROVE  /\ purchases'[t].at = purchases[t].at /\ purchases'[t].hash = purchases[t].hash
             /\ \/ purchases'[t].status = purchases[t].status
                \/ purchases[t].status = "CONFIRMED" /\ purchases'[t].status = "FINALIZED" /\ blocks[purchases[t].at] = purchases[t].hash
  <2>1. purchases[t] \in Purchase
    BY DEF TypeOK, RowsTyped
  <2>2. \/ purchases'[t] = purchases[t]
        \/ /\ purchases'[t] = [purchases[t] EXCEPT !.status = "FINALIZED"] /\ purchases[t].status = "CONFIRMED"
           /\ blocks[purchases[t].at] = purchases[t].hash
    BY FinishScanKnown DEF Finalized
  <2> QED BY <2>1, <2>2 DEF Purchase
<1>3. RowsWritten'
  BY <1>1, <1>2 DEF Standing, RowsWritten, OfABlock
<1>4. FinalizedStands'
  BY <1>1, <1>2 DEF Standing, FinalizedStands
<1> QED BY <1>3, <1>4 DEF Standing

LEMMA StandingStays == ASSUME IndexerAssumption, Shaped, Standing, [Next]_vars PROVE Standing'
<1>0. TypeOK /\ CycleShaped
  BY DEF Shaped
<1>1. CASE UNCHANGED <<blocks, transfers, purchased, purchases>>
  BY <1>1, StandingSame
<1>2. CASE Verify
  BY <1>0, <1>2, VerifyKnown, StandingOrphaned
<1>3. CASE FetchBlock
  <2>1. NextBlock \in DOMAIN chain /\ NextBlock \in Heights /\ NextBlock \in Nat \ {0}
    BY <1>0, <1>3, FetchBlockKnown, ChainTypes DEF Heights
  <2>2. CASE blocks[NextBlock] \in {None, chain[NextBlock].hash}
    BY <1>0, <1>3, <2>1, <2>2, FetchBlockKnown, StandingRecorded
  <2>3. CASE blocks[NextBlock] \notin {None, chain[NextBlock].hash}
    BY <1>0, <1>3, <2>1, <2>3, FetchBlockKnown, StandingOrphaned
  <2> QED BY <2>2, <2>3
<1>4. CASE RegressGroup
  BY <1>0, <1>4, RegressKnown, StandingRecorded, ChainTypes
<1>5. CASE Derive \/ Replay
  BY <1>0, <1>5, StandingReplay
<1>6. ASSUME NEW l \in worker.due, ProcessLog(l) PROVE Standing'
  BY <1>0, <1>6, StandingProcessed
<1>7. CASE FinishScan
  BY <1>0, <1>7, StandingFinished
<1>8. CASE BeginRebuild \/ ReadTip \/ Admit \/ FetchLogs \/ Advance \/ Fail \/ FailToAdmit \/ FailToRebuild \/ Crash
  <2>1. UNCHANGED <<blocks, transfers, purchased, purchases>>
    BY <1>8 DEF BeginRebuild, ReadTip, Admit, FetchLogs, Advance, Fail, FailToAdmit, FailToRebuild, Crash, rows
  <2> QED BY <2>1, StandingSame
<1>9. ASSUME NEW txs \in SUBSET Txs, Mine(txs) PROVE Standing'
  BY <1>9, StandingSame DEF Mine, rows
<1>10. ASSUME NEW h \in Heights, Reorg(h) PROVE Standing'
  BY <1>10, StandingSame DEF Reorg, rows
<1>11. CASE UNCHANGED vars
  BY <1>11, StandingSame DEF vars
<1> QED BY <1>2, <1>3, <1>4, <1>5, <1>6, <1>7, <1>8, <1>9, <1>10, <1>11 DEF Next, Cycle

LEMMA StandingFirst == ASSUME Init PROVE Standing
BY DEF Init, Standing, RowsWritten, FinalizedStands, NoRow, NoPurchase

-----------------------------------------------------------------------------
\* What the walk back compares is what is recorded up to the checkpoint, and where it ends: all below agrees, and
\* what is recorded from there on does not.
LEMMA AgreedAre ==
  ASSUME IndexerAssumption, TypeOK, CycleShaped, NEW m \in members
  PROVE  /\ RecordedTo(m) = {h \in Recorded : h <= checkpoint[m].last}
         /\ Agreed(m) = {h \in Recorded : h <= checkpoint[m].last /\ Agrees(h)}
         /\ checkpoint[m].last \in Nat /\ Recorded \subseteq Nat /\ IsFiniteSet(Agreed(m))
<1>1. checkpoint[m].last \in Nat /\ checkpoint[m].last <= Len(chain) /\ Len(chain) \in Nat /\ Len(chain) <= MaxHeight
      /\ DOMAIN chain = 1..Len(chain) /\ MaxHeight \in Nat
  BY ChainTypes, WorkerTypes, CheckpointBounds
<1>2. RecordedTo(m) = {h \in Recorded : h <= checkpoint[m].last}
  BY <1>1 DEF RecordedTo, Recorded, Heights
<1>3. Agreed(m) = {h \in Recorded : h <= checkpoint[m].last /\ Agrees(h)}
  BY <1>1, <1>2 DEF Agreed, Agrees, Recorded, Heights
<1>4. Agreed(m) \subseteq 1..Len(chain)
  BY <1>1, <1>3 DEF Recorded, Heights
<1>5. IsFiniteSet(1..Len(chain))
  <2>1. 1 \in Int /\ Len(chain) \in Int
    BY <1>1
  <2> QED BY ONLY <2>1, FS_Interval
<1> QED BY <1>1, <1>2, <1>3, <1>4, <1>5, FS_Subset DEF Recorded, Heights

\* The walk back stops right: below it everything recorded stands, above it nothing the contract covers.
LEMMA RewindSound ==
  ASSUME IndexerAssumption, TypeOK, CycleShaped, AgreementClosed, NEW m \in members, Diverged(m) # {}, NEW f, f = RewindTo(m)
  PROVE  /\ \A h \in Recorded : h < f => Agrees(h)
         /\ \A h \in Recorded : h <= checkpoint[m].last /\ h >= f => ~Agrees(h)
         /\ f \in Nat \ {0} /\ f <= Len(chain)
         /\ Agreed(m) # {} => f - 1 \in Recorded /\ Agrees(f - 1)
         /\ \E d \in Recorded : d <= checkpoint[m].last /\ d >= f
<1>0. f \in Nat \ {0} /\ f <= Len(chain)
  BY RewindInside
<1>1. /\ RecordedTo(m) = {h \in Recorded : h <= checkpoint[m].last}
      /\ Agreed(m) = {h \in Recorded : h <= checkpoint[m].last /\ Agrees(h)}
      /\ checkpoint[m].last \in Nat /\ Recorded \subseteq Nat /\ IsFiniteSet(Agreed(m))
  BY AgreedAre
<1>2. Diverged(m) = {h \in RecordedTo(m) : \A a \in Agreed(m) : h > a}
  BY DEF Diverged
<1>3. CASE Agreed(m) = {}
  <2>1. Diverged(m) = RecordedTo(m) /\ Diverged(m) \subseteq Nat
    BY <1>1, <1>2, <1>3
  <2>2. f \in Diverged(m) /\ \A y \in Diverged(m) : f <= y
    BY <1>3, <2>1, LeastOfNaturals DEF RewindTo
  <2> HIDE DEF Diverged, RecordedTo, Agreed, Agrees
  <2>3. f \in Recorded /\ f <= checkpoint[m].last /\ f \in Nat
    BY <1>1, <2>1, <2>2
  <2>4. \A h \in Recorded : h <= checkpoint[m].last => ~Agrees(h)
    BY <1>1, <1>3
  <2>5. ASSUME NEW h \in Recorded, h < f PROVE Agrees(h)
    <3>1. h <= checkpoint[m].last
      BY <1>1, <2>3, <2>5
    <3>2. f <= h
      BY <1>1, <2>1, <2>2, <3>1
    <3> QED BY <1>1, <2>3, <2>5, <3>2
  <2> QED BY <1>0, <1>3, <2>3, <2>4, <2>5
<1>4. CASE Agreed(m) # {}
  <2> DEFINE a == Max(Agreed(m))
  <2>1. a \in Agreed(m) /\ \A y \in Agreed(m) : y <= a
    BY <1>1, <1>4, GreatestOfFinite
  <2>2. f = a + 1
    BY <1>4 DEF RewindTo
  <2>3. PICK d \in Diverged(m) : TRUE
    OBVIOUS
  <2> HIDE DEF a, Diverged, RecordedTo, Agreed, Agrees
  <2>4. a \in Recorded /\ a <= checkpoint[m].last /\ Agrees(a) /\ a \in Nat
    BY <1>1, <2>1
  <2>5. d \in Recorded /\ d <= checkpoint[m].last /\ d > a /\ d \in Nat
    BY <1>1, <1>2, <2>1, <2>3
  <2>6. ASSUME NEW h \in Recorded, h < f PROVE Agrees(h)
    <3>1. h \in Nat /\ (h = a \/ h < a)
      BY <1>1, <2>2, <2>4, <2>6
    <3> QED BY <2>4, <3>1 DEF AgreementClosed
  <2>7. ASSUME NEW h \in Recorded, h <= checkpoint[m].last, h >= f PROVE ~Agrees(h)
    <3>1. h \in Nat /\ ~(h <= a)
      BY <1>1, <2>2, <2>4, <2>7
    <3> QED BY <1>1, <2>1, <2>7, <3>1
  <2>8. f - 1 = a /\ d >= f
    BY <2>2, <2>4, <2>5
  <2> QED BY <1>0, <2>4, <2>5, <2>6, <2>7, <2>8
<1> QED BY <1>3, <1>4

LEMMA NotDiverged ==
  ASSUME IndexerAssumption, TypeOK, CycleShaped, AgreementClosed, NEW m \in members, Diverged(m) = {}, NEW h \in Recorded, h <= checkpoint[m].last
  PROVE  Agrees(h)
<1>1. /\ RecordedTo(m) = {i \in Recorded : i <= checkpoint[m].last}
      /\ Agreed(m) = {i \in Recorded : i <= checkpoint[m].last /\ Agrees(i)}
      /\ checkpoint[m].last \in Nat /\ Recorded \subseteq Nat
  BY AgreedAre
<1>2. h \in RecordedTo(m)
  BY <1>1
<1>3. PICK a \in Agreed(m) : ~(h > a)
  BY <1>2 DEF Diverged
<1>4. a \in Recorded /\ Agrees(a) /\ (h = a \/ h < a)
  <2>1. a \in Recorded /\ Agrees(a)
    BY <1>1, <1>3
  <2>2. a \in Nat /\ h \in Nat
    BY <1>1, <2>1
  <2> QED BY <1>3, <2>1, <2>2
<1> QED BY <1>4 DEF AgreementClosed

\* Hashes stay those of forks that were, and a transaction stays in one block.
LEMMA SoundFirst == ASSUME Init PROVE ChainSound
BY DEF Init, ChainSound, Recorded, Heights

LEMMA SoundMine == ASSUME IndexerAssumption, TypeOK, ChainSound, NEW txs \in SUBSET Txs, Mine(txs) PROVE ChainSound'
<1>1. /\ DOMAIN chain' = 1..(Len(chain) + 1) /\ DOMAIN chain = 1..Len(chain) /\ Len(chain) \in Nat
      /\ chain'[Len(chain) + 1] = [hash |-> forks, txs |-> txs]
      /\ \A h \in DOMAIN chain : chain'[h] = chain[h]
      /\ txs \subseteq Txs \ OnChain /\ forks \in Nat
      /\ UNCHANGED <<forks, blocks>>
  BY MineKnown, ChainTypes DEF TypeOK
<1>2. \A h \in DOMAIN chain' : h \in DOMAIN chain \/ h = Len(chain) + 1
  BY <1>1
<1>3. \A h \in DOMAIN chain' : chain'[h].hash <= forks'
  BY <1>1, <1>2 DEF ChainSound
<1>4. \A h \in Recorded' : h \in DOMAIN chain' /\ blocks'[h] <= forks'
  BY <1>1 DEF ChainSound, Recorded
<1>5. \A h \in DOMAIN chain : chain[h].txs \cap txs = {}
  BY <1>1 DEF OnChain
<1>6. ASSUME NEW h \in DOMAIN chain', NEW k \in DOMAIN chain', h # k PROVE chain'[h].txs \cap chain'[k].txs = {}
  <2>1. CASE h \in DOMAIN chain /\ k \in DOMAIN chain
    BY <1>1, <1>6, <2>1 DEF ChainSound
  <2>2. CASE h \in DOMAIN chain /\ k = Len(chain) + 1
    BY <1>1, <1>5, <2>2
  <2>3. CASE k \in DOMAIN chain /\ h = Len(chain) + 1
    BY <1>1, <1>5, <2>3
  <2> QED BY <1>2, <1>6, <2>1, <2>2, <2>3
<1> QED BY <1>3, <1>4, <1>6 DEF ChainSound

LEMMA SoundReorg == ASSUME IndexerAssumption, TypeOK, ChainSound, NEW h \in Heights, Reorg(h) PROVE ChainSound'
<1>1. /\ DOMAIN chain' = DOMAIN chain /\ forks' = forks + 1 /\ forks \in Nat /\ h \in Nat
      /\ \A i \in DOMAIN chain : i < h => chain'[i] = chain[i]
      /\ \A i \in DOMAIN chain : i >= h => chain'[i].hash = forks + 1
      /\ \A i \in DOMAIN chain : i >= h => \A t \in chain'[i].txs : \A k \in 1..(h - 1) : t \notin chain[k].txs
      /\ \A i, k \in DOMAIN chain : i >= h /\ k >= h /\ i # k => chain'[i].txs \cap chain'[k].txs = {}
      /\ UNCHANGED blocks
  <2>1. forks \in Nat /\ h \in Nat
    BY DEF TypeOK, Heights
  <2>2. \A i \in DOMAIN chain : i >= h => \A t \in chain'[i].txs : \A k \in 1..(h - 1) : t \notin chain[k].txs
    BY ReorgKnown
  <2> QED BY <2>1, <2>2, ReorgKnown
<1>2. \A i \in DOMAIN chain : i \in Nat \ {0} /\ chain[i].hash \in Nat /\ (i < h \/ i >= h)
  BY <1>1, ChainTypes
<1>3. \A i \in DOMAIN chain' : chain'[i].hash <= forks'
  BY <1>1, <1>2 DEF ChainSound
<1>4. \A i \in Recorded' : i \in DOMAIN chain' /\ blocks'[i] <= forks'
  <2>1. \A i \in Recorded : i \in DOMAIN chain /\ blocks[i] <= forks /\ blocks[i] \in Int
    BY DEF ChainSound, TypeOK, Recorded, None
  <2> QED BY <1>1, <2>1 DEF Recorded
<1>5. ASSUME NEW i \in DOMAIN chain, NEW k \in DOMAIN chain, i < h, k >= h PROVE chain'[i].txs \cap chain'[k].txs = {}
  <2>1. i \in 1..(h - 1)
    BY <1>1, <1>2, <1>5
  <2> QED BY <1>1, <1>5, <2>1
<1>6. ASSUME NEW i \in DOMAIN chain', NEW k \in DOMAIN chain', i # k PROVE chain'[i].txs \cap chain'[k].txs = {}
  <2>1. CASE i < h /\ k < h
    BY <1>1, <1>6, <2>1 DEF ChainSound
  <2>2. CASE i >= h /\ k >= h
    BY <1>1, <1>6, <2>2
  <2> QED BY <1>1, <1>2, <1>5, <1>6, <2>1, <2>2
<1> QED BY <1>3, <1>4, <1>6 DEF ChainSound

LEMMA SoundInCycle ==
  ASSUME ChainSound, UNCHANGED <<chain, forks>>, \A h \in Heights : blocks'[h] \in {None, blocks[h]}
  PROVE  ChainSound'
BY DEF ChainSound, Recorded

LEMMA SoundRecorded ==
  ASSUME IndexerAssumption, TypeOK, ChainSound, NEW h \in DOMAIN chain, blocks' = [blocks EXCEPT ![h] = chain[h].hash], UNCHANGED <<chain, forks>>
  PROVE  ChainSound'
<1>1. h \in Heights
  BY ChainTypes
<1>2. \A i \in Heights : blocks'[i] = blocks[i] \/ (i = h /\ blocks'[i] = chain[h].hash)
  BY <1>1 DEF TypeOK
<1> QED BY <1>2 DEF ChainSound, Recorded

LEMMA SoundStays == ASSUME IndexerAssumption, Shaped, ChainSound, [Next]_vars PROVE ChainSound'
<1>0. TypeOK /\ CycleShaped
  BY DEF Shaped
<1>1. CASE UNCHANGED <<chain, forks, blocks>>
  BY <1>1, SoundInCycle
<1>2. CASE Verify
  <2>1. PICK f \in Nat \ {0} : HandleReorg(f)
    BY <1>0, <1>2, VerifyKnown
  <2>2. \A h \in Heights : blocks'[h] \in {None, blocks[h]}
    BY <2>1 DEF HandleReorg
  <2> QED BY <1>2, <2>2, SoundInCycle DEF Verify, world
<1>3. CASE FetchBlock
  <2>1. NextBlock \in DOMAIN chain /\ UNCHANGED <<chain, forks>>
    BY <1>0, <1>3, FetchBlockKnown
  <2>2. CASE blocks[NextBlock] \in {None, chain[NextBlock].hash}
    BY <1>0, <1>3, <2>1, <2>2, FetchBlockKnown, SoundRecorded
  <2>3. CASE blocks[NextBlock] \notin {None, chain[NextBlock].hash}
    <3>1. HandleReorg(NextBlock)
      BY <1>0, <1>3, <2>3, FetchBlockKnown
    <3>2. \A h \in Heights : blocks'[h] \in {None, blocks[h]}
      BY <3>1 DEF HandleReorg
    <3> QED BY <2>1, <3>2, SoundInCycle
  <2> QED BY <2>2, <2>3
<1>4. CASE RegressGroup
  BY <1>0, <1>4, RegressKnown, SoundRecorded
<1>5. CASE BeginRebuild \/ Derive \/ Replay \/ ReadTip \/ Admit \/ FetchLogs \/ Advance \/ FinishScan \/ Fail \/ FailToAdmit \/ FailToRebuild \/ Crash
  BY <1>1, <1>5 DEF BeginRebuild, Derive, Replay, ReadTip, Admit, FetchLogs, Advance, FinishScan, Fail, FailToAdmit, FailToRebuild, Crash, world
<1>6. ASSUME NEW l \in worker.due, ProcessLog(l) PROVE ChainSound'
  BY <1>1, <1>6 DEF ProcessLog, world
<1>9. ASSUME NEW txs \in SUBSET Txs, Mine(txs) PROVE ChainSound'
  BY <1>0, <1>9, SoundMine
<1>10. ASSUME NEW h \in Heights, Reorg(h) PROVE ChainSound'
  BY <1>0, <1>10, SoundReorg
<1>11. CASE UNCHANGED vars
  BY <1>1, <1>11 DEF vars
<1> QED BY <1>2, <1>3, <1>4, <1>5, <1>6, <1>9, <1>10, <1>11 DEF Next, Cycle

-----------------------------------------------------------------------------
\* While no cycle was harmed, no step failed and no reorganisation came during a cycle.
LEMMA UnharmedSo ==
  ASSUME TypeOK, [Next]_vars, Unharmed'
  PROVE  /\ Unharmed /\ faults' = faults /\ ~Fail /\ ~FailToAdmit /\ ~FailToRebuild /\ ~Crash
         /\ \A h \in Heights : Reorg(h) => worker.step = "idle"
<1>1. faults \in FaultsType
  BY DEF TypeOK
<1>2. /\ faults' # [faults EXCEPT !.failed = @ + 1] /\ faults' # [faults EXCEPT !.unrecorded = @ + 1]
      /\ faults' # [faults EXCEPT !.crashed = @ + 1] /\ faults' # [faults EXCEPT !.during = @ + 1]
  BY <1>1 DEF Unharmed, FaultsSoFar, FaultsType
<1>3. ~Fail /\ ~FailToAdmit /\ ~FailToRebuild /\ ~Crash
  BY <1>2 DEF Fail, FailToAdmit, FailToRebuild, Crash
<1>4. \A h \in Heights : Reorg(h) => worker.step = "idle" /\ faults' = faults
  BY <1>2 DEF Reorg
<1>5. faults' = faults
  <2>1. \A txs \in SUBSET Txs : Mine(txs) => faults' = faults
    BY DEF Mine
  <2>2. Cycle => faults' = faults
    BY DEF Cycle, BeginRebuild, Derive, Replay, ReadTip, Verify, Admit, FetchLogs, FetchBlock, RegressGroup, Advance, FinishScan, ProcessLog, world
  <2> QED BY <1>3, <1>4, <2>1, <2>2 DEF Next, vars
<1> QED BY <1>3, <1>4, <1>5 DEF Unharmed, FaultsSoFar

\* Every step of an unharmed history keeps it straight.
LEMMA StraightFirst == ASSUME IndexerAssumption, Init PROVE Straight
<1>1. (\A h \in Heights : blocks[h] = None) /\ \A t \in Txs : ~transfers[t].canonical
  BY DEF Init, NoRow
<1>2. Recorded = {}
  BY <1>1 DEF Recorded
<1>3. worker = Idle /\ Admitted = {} /\ ~Scanning /\ \A m \in members : checkpoint[m].next = 1 /\ checkpoint[m].last = 0
  BY IdleFields DEF Init, Admitted, Scanning
<1>4. RowsStand /\ AgreementClosed /\ RecordedCovered
  BY <1>1, <1>2 DEF RowsStand, AgreementClosed, RecordedCovered
<1>5. Level
  BY <1>3 DEF Level
<1>6. Walked /\ LogsStand
  BY <1>2, <1>3, IdleFields DEF Walked, LogsStand
<1> QED BY <1>4, <1>5, <1>6 DEF Straight

LEMMA StraightMine ==
  ASSUME IndexerAssumption, Shaped, ChainSound, Straight, NEW txs \in SUBSET Txs, Mine(txs) PROVE Straight'
<1>0. TypeOK /\ CycleShaped
  BY DEF Shaped
<1>1. /\ worker.step = "idle" /\ DOMAIN chain' = 1..(Len(chain) + 1) /\ DOMAIN chain = 1..Len(chain) /\ Len(chain) \in Nat
      /\ (\A h \in DOMAIN chain : chain'[h] = chain[h])
      /\ UNCHANGED <<configs, blocks, transfers, checkpoint, worker>>
  BY <1>0, MineKnown, ChainTypes
<1>2. members' = members /\ Admitted' = Admitted /\ Recorded' = Recorded /\ Busy' = Busy /\ Scanning' = Scanning
  BY <1>1 DEF members, Admitted, Recorded, Busy, Scanning
<1>3. \A h \in Recorded : h \in DOMAIN chain /\ h \in DOMAIN chain' /\ (Agrees(h)' <=> Agrees(h)) /\ chain'[h] = chain[h]
  <2>1. \A h \in Recorded : h \in DOMAIN chain
    BY DEF ChainSound
  <2> QED BY <1>1, <2>1 DEF Agrees
<1>4. RowsStand'
  BY <1>1, <1>2, <1>3 DEF Straight, RowsStand
<1>5. AgreementClosed' /\ RecordedCovered'
  BY <1>1, <1>2, <1>3 DEF Straight, AgreementClosed, RecordedCovered
<1>6. Level'
  BY <1>1, <1>2 DEF Straight, Level
<1>7. Walked'
  BY <1>1, <1>2, <1>3 DEF Straight, Walked
<1>8. LogsStand'
  BY <1>0, <1>1, RestShape DEF LogsStand
<1> QED BY <1>4, <1>5, <1>6, <1>7, <1>8 DEF Straight

LEMMA StraightReorg ==
  ASSUME IndexerAssumption, Shaped, ChainSound, Straight, NEW h \in Heights, Reorg(h), worker.step = "idle" PROVE Straight'
<1>0. TypeOK /\ CycleShaped
  BY DEF Shaped
<1>1. /\ DOMAIN chain' = DOMAIN chain /\ forks \in Nat /\ h \in Nat
      /\ (\A i \in DOMAIN chain : i < h => chain'[i] = chain[i])
      /\ (\A i \in DOMAIN chain : i >= h => chain'[i].hash = forks + 1)
      /\ UNCHANGED <<configs, blocks, transfers, checkpoint, worker>>
  BY <1>0, ReorgKnown DEF TypeOK, Heights
<1>2. members' = members /\ Admitted' = Admitted /\ Recorded' = Recorded /\ Busy' = Busy /\ Scanning' = Scanning
  BY <1>1 DEF members, Admitted, Recorded, Busy, Scanning
<1>3. \A i \in Recorded : i \in DOMAIN chain /\ (Agrees(i)' <=> Agrees(i) /\ i < h) /\ (i < h => chain'[i] = chain[i])
  <2>1. \A i \in Recorded : i \in DOMAIN chain /\ i \in Nat /\ blocks[i] \in Int /\ blocks[i] # forks + 1 /\ (i < h \/ i >= h)
    BY <1>0, <1>1, ChainTypes DEF ChainSound, TypeOK, Recorded, None
  <2> QED BY <1>1, <2>1 DEF Agrees
<1>4. RowsStand'
  BY <1>1, <1>2, <1>3 DEF Straight, RowsStand
<1>5. AgreementClosed'
  <2>1. \A i \in Recorded : i \in Nat
    BY DEF Recorded, Heights
  <2> QED BY <1>1, <1>2, <1>3, <2>1 DEF Straight, AgreementClosed
<1>6. RecordedCovered' /\ Level'
  BY <1>1, <1>2 DEF Straight, RecordedCovered, Level
<1>7. Walked' /\ LogsStand'
  BY <1>0, <1>1, <1>2, RestShape DEF Walked, LogsStand, Scanning
<1> QED BY <1>4, <1>5, <1>6, <1>7 DEF Straight

\* A cycle that is not scanning, or not yet.
LEMMA StraightAtRest ==
  ASSUME IndexerAssumption, Shaped, Straight, ~Busy, UNCHANGED <<configs, chain, blocks, transfers>>,
         \A m \in members : checkpoint'[m].next = checkpoint[m].next /\ checkpoint'[m].last = checkpoint[m].last,
         worker'.step \in {"idle", "rebuild", "rebuildAfter", "tip", "admit"},
         worker'.from = 0, worker'.next = [m \in members |-> 0], worker'.logs = {}, worker'.due = {}
  PROVE  Straight'
<1>1. members' = members /\ Recorded' = Recorded
  BY DEF members, Recorded
<1>2. Admitted' = {} /\ ~Scanning'
  BY <1>1 DEF Admitted, Scanning
<1>3. RowsStand' /\ AgreementClosed'
  BY <1>1 DEF Straight, RowsStand, AgreementClosed, Agrees
<1>4. RecordedCovered' /\ Level'
  BY <1>1, <1>2 DEF Straight, RecordedCovered, Level
<1>5. Walked' /\ LogsStand'
  BY <1>2 DEF Walked, LogsStand
<1> QED BY <1>3, <1>4, <1>5 DEF Straight

LEMMA StraightRests ==
  ASSUME IndexerAssumption, Shaped, Straight, BeginRebuild \/ Derive \/ Replay \/ ReadTip PROVE Straight'
<1>0. TypeOK /\ CycleShaped
  BY DEF Shaped
<1>1. /\ worker.step \in {"idle", "rebuild", "rebuildAfter", "tip"} /\ UNCHANGED <<configs, chain, blocks, transfers, checkpoint>>
  BY DEF BeginRebuild, Derive, Replay, ReadTip, world, rows
<1>2. /\ worker'.step \in {"idle", "rebuild", "rebuildAfter", "tip", "admit"}
      /\ UNCHANGED <<worker.from, worker.next, worker.logs, worker.due>>
  BY <1>0 DEF BeginRebuild, Derive, Replay, ReadTip, TypeOK, WorkerType
<1>3. ~Busy /\ worker.from = 0 /\ worker.next = [m \in members |-> 0] /\ worker.logs = {} /\ worker.due = {}
  BY <1>0, <1>1, RestShape DEF Busy
<1> QED BY <1>1, <1>2, <1>3, StraightAtRest

LEMMA StraightFinishScan ==
  ASSUME IndexerAssumption, Shaped, Straight, FinishScan PROVE Straight'
<1>0. TypeOK /\ CycleShaped
  BY DEF Shaped
<1>1. /\ worker.step = "scan" /\ Admitted = members
      /\ worker'.step \in {"idle", "rebuildAfter"} /\ worker'.from = 0
      /\ worker'.next = [m \in members |-> 0] /\ worker'.logs = {} /\ worker'.due = {}
      /\ (\A m \in members : checkpoint'[m].next = checkpoint[m].next)
      /\ (\A m \in members : checkpoint'[m].last \in {checkpoint[m].last, worker.next[m] - 1})
      /\ UNCHANGED <<configs, chain, blocks, transfers>>
  BY <1>0, FinishScanKnown
<1>2. \A m \in members : worker.next[m] - 1 = checkpoint[m].last
  BY <1>1 DEF Straight, Level
<1> QED BY <1>1, <1>2, StraightAtRest DEF Busy

LEMMA StraightVerify ==
  ASSUME IndexerAssumption, Shaped, ChainSound, Straight, Verify PROVE Straight'
<1>0. TypeOK /\ CycleShaped /\ AgreementClosed
  BY DEF Shaped, Straight
<1>1. PICK f : f = RewindTo(Joining)
  OBVIOUS
<1>2. /\ worker.step = "admit" /\ worker.from = 0 /\ Joining \in members /\ Diverged(Joining) # {} /\ f \in Nat \ {0}
      /\ HandleReorg(f) /\ worker'.from = f
      /\ UNCHANGED <<worker.step, worker.next, worker.end, worker.at, worker.logs, worker.due, configs, chain, checkpoint>>
  BY <1>0, <1>1, VerifyKnown
<1>3. members' = members /\ Admitted' = Admitted /\ ~Busy /\ ~Busy' /\ ~Scanning'
  BY <1>2 DEF members, Admitted, Busy, Scanning
<1>4. \A h \in Recorded : h < f => Agrees(h)
  BY <1>0, <1>1, <1>2, RewindSound
<1>5. /\ \A h \in Heights : blocks'[h] = IF h >= f THEN None ELSE blocks[h]
      /\ \A t \in Txs : /\ transfers'[t].at = transfers[t].at /\ transfers'[t].hash = transfers[t].hash
                        /\ (transfers'[t].canonical <=> transfers[t].canonical /\ transfers[t].at < f)
  BY <1>0, <1>2, OrphanEffects
<1>6. Recorded' = {h \in Recorded : h < f} /\ \A h \in Recorded' : h \in Recorded /\ blocks'[h] = blocks[h] /\ Agrees(h)' /\ Agrees(h)
  <2>1. \A h \in Heights : h \in Nat /\ (h < f <=> ~(h >= f))
    BY <1>2 DEF Heights
  <2>2. Recorded' = {h \in Recorded : h < f} /\ \A h \in Recorded' : blocks'[h] = blocks[h]
    BY <1>5, <2>1 DEF Recorded
  <2> QED BY <1>2, <1>4, <2>2 DEF Agrees
<1>7. RowsStand'
  BY <1>2, <1>5, <1>6 DEF Straight, RowsStand, Agrees
<1>8. AgreementClosed'
  BY <1>6 DEF AgreementClosed
<1>9. RecordedCovered' /\ Level'
  BY <1>2, <1>3, <1>6 DEF Straight, RecordedCovered, Level
<1>10. Walked'
  BY <1>2, <1>3, <1>6 DEF Walked
<1>11. LogsStand'
  BY <1>0, <1>2, <1>3 DEF LogsStand, CycleShaped, Holding
<1> QED BY <1>7, <1>8, <1>9, <1>10, <1>11 DEF Straight

LEMMA StraightAdmit ==
  ASSUME IndexerAssumption, Shaped, ChainSound, Straight, Admit PROVE Straight'
<1>0. TypeOK /\ CycleShaped /\ AgreementClosed
  BY DEF Shaped, Straight
<1>1. PICK m : m = Joining
  OBVIOUS
<1>2. /\ worker.step = "admit" /\ m \in members /\ m \notin Admitted /\ (worker.from = 0 => Diverged(m) = {})
      /\ checkpoint'[m].next = (IF worker.from = 0 THEN checkpoint[m].next ELSE worker.from)
      /\ checkpoint'[m].last = (IF worker.from = 0 THEN checkpoint[m].last ELSE worker.from - 1)
      /\ (\A k \in members : k # m => checkpoint'[k] = checkpoint[k])
      /\ worker'.next = [worker.next EXCEPT ![m] = checkpoint'[m].next] /\ worker'.from = 0
      /\ worker'.step = (IF Admitted \cup {m} = members THEN "scan" ELSE "admit")
      /\ Admitted' = Admitted \cup {m} /\ members' = members
      /\ UNCHANGED <<worker.end, worker.at, worker.logs, worker.due, configs, chain, blocks, transfers>>
  BY <1>0, <1>1, AdmitKnown
<1>3. Recorded' = Recorded /\ (\A h : Agrees(h)' <=> Agrees(h)) /\ ~Busy /\ ~Busy' /\ (Scanning' <=> worker'.step = "scan")
  BY <1>2 DEF Recorded, Agrees, Busy, Scanning
<1>4. worker.from \in Nat /\ worker.next \in [members -> Nat] /\ \A h \in Recorded : h \in Nat
  BY <1>0, WorkerTypes DEF Recorded, Heights
<1>5. \A h \in Recorded : h <= checkpoint'[m].last => Agrees(h)
  <2>1. CASE worker.from = 0
    BY <1>0, <1>2, <2>1, NotDiverged
  <2>2. CASE worker.from # 0
    BY <2>2 DEF Straight, Walked
  <2> QED BY <2>1, <2>2
<1>6. \A k \in Admitted' : \A h \in Recorded : h <= checkpoint'[k].last => Agrees(h)
  BY <1>2, <1>5 DEF Straight, Walked, Admitted
<1>7. \A h \in Recorded : \E k \in members : h <= checkpoint'[k].last
  <2>1. CASE worker.from = 0
    BY <1>2, <1>3, <2>1 DEF Straight, RecordedCovered
  <2>2. CASE worker.from # 0
    <3>1. \A h \in Recorded : h < worker.from
      BY <2>2 DEF Straight, Walked
    <3>2. checkpoint'[m].last = worker.from - 1
      BY <1>2, <2>2
    <3> QED BY <1>2, <1>4, <3>1, <3>2
  <2> QED BY <2>1, <2>2
<1>8. RowsStand' /\ AgreementClosed'
  BY <1>2, <1>3 DEF Straight, RowsStand, AgreementClosed
<1>9. RecordedCovered'
  BY <1>2, <1>3, <1>7 DEF RecordedCovered
<1>10. Level'
  <2>1. checkpoint'[m].last = checkpoint'[m].next - 1
    BY <1>2, <1>4 DEF Straight, Level
  <2>2. \A k \in members : checkpoint'[k].last = checkpoint'[k].next - 1
    BY <1>2, <2>1 DEF Straight, Level
  <2>3. \A k \in Admitted' : worker'.next[k] = checkpoint'[k].next
    BY <1>2, <1>4 DEF Straight, Level, Admitted
  <2> QED BY <1>2, <2>2, <2>3 DEF Level
<1>11. Walked'
  <2>1. Scanning' => Admitted' = members
    BY <1>2, <1>3
  <2>2. Scanning' => \A h \in Recorded : Agrees(h)
    BY <1>6, <1>7, <2>1
  <2> QED BY <1>2, <1>3, <1>6, <2>2 DEF Walked
<1>12. LogsStand'
  BY <1>0, <1>2, <1>3 DEF LogsStand, CycleShaped, Holding
<1> QED BY <1>8, <1>9, <1>10, <1>11, <1>12 DEF Straight

LEMMA StraightFetchLogs ==
  ASSUME IndexerAssumption, Shaped, ChainSound, Straight, FetchLogs PROVE Straight'
<1>0. TypeOK /\ CycleShaped
  BY DEF Shaped
<1>1. worker.step = "scan" /\ UNCHANGED <<configs, chain, blocks, transfers, checkpoint>> /\ worker.due = {}
  BY <1>0 DEF FetchLogs, world, rows, CycleShaped, Holding, Busy
<1>2. /\ worker'.step = "block" /\ worker'.next = worker.next /\ worker'.from = worker.from /\ worker'.due = worker.due
      /\ \A l \in worker'.logs : l[2] \in DOMAIN chain /\ l[3] \in chain[l[2]].txs \cap Logs(l[1]) /\ l[4] = chain[l[2]].hash
  BY <1>0, FetchedKnown
<1>3. /\ members' = members /\ Admitted' = Admitted /\ Recorded' = Recorded /\ (\A h : Agrees(h)' <=> Agrees(h))
      /\ ~Busy /\ Scanning /\ Scanning'
  BY <1>1, <1>2 DEF members, Admitted, Recorded, Agrees, Busy, Scanning
<1>4. RowsStand' /\ AgreementClosed'
  BY <1>1, <1>3 DEF Straight, RowsStand, AgreementClosed
<1>5. RecordedCovered' /\ Level'
  BY <1>1, <1>2, <1>3 DEF Straight, RecordedCovered, Level
<1>6. Walked'
  BY <1>2, <1>3 DEF Straight, Walked
<1>7. LogsStand'
  BY <1>1, <1>2 DEF LogsStand
<1> QED BY <1>4, <1>5, <1>6, <1>7 DEF Straight

LEMMA StraightFetchBlock ==
  ASSUME IndexerAssumption, Shaped, ChainSound, Straight, FetchBlock PROVE Straight' /\ worker'.step = "block"
<1>0. TypeOK /\ CycleShaped
  BY DEF Shaped
<1>1. PICK n : n = NextBlock
  OBVIOUS
<1>2. n \in DOMAIN chain /\ n \in Heights /\ n <= worker.end /\ worker.step = "block" /\ chain[n].hash \in Nat
  BY <1>0, <1>1, FetchBlockKnown, NextBlockKnown, ChainTypes DEF Busy
<1>3. blocks[n] \in {None, chain[n].hash}
  <2>1. n \in Recorded => Agrees(n)
    BY <1>2 DEF Straight, Walked, Scanning
  <2> QED BY <1>2, <2>1 DEF Recorded, Agrees
<1>4. /\ worker'.step = "block" /\ blocks' = [blocks EXCEPT ![n] = chain[n].hash] /\ worker'.at = n
      /\ UNCHANGED <<worker.next, worker.end, worker.from, worker.logs, configs, chain, transfers, checkpoint>>
      /\ worker'.due = {l \in worker.logs : l[2] = n}
  BY <1>0, <1>1, <1>3, FetchBlockKnown
<1>5. Recorded' = Recorded \cup {n} /\ (\A h \in Recorded : blocks'[h] = blocks[h]) /\ blocks'[n] = chain[n].hash
  BY <1>0, <1>2, <1>3, <1>4 DEF Recorded, TypeOK, None
<1>6. \A h \in Recorded' : Agrees(h)'
  BY <1>2, <1>4, <1>5 DEF Straight, Walked, Scanning, Agrees
<1>7. members' = members /\ Admitted' = Admitted /\ Busy /\ Busy'
  BY <1>2, <1>4 DEF members, Admitted, Busy
<1>8. RowsStand'
  BY <1>2, <1>4, <1>5 DEF Straight, RowsStand, Walked, Scanning, Agrees
<1>9. AgreementClosed'
  BY <1>6 DEF AgreementClosed
<1>10. RecordedCovered'
  BY <1>2, <1>4, <1>5, <1>7 DEF Straight, RecordedCovered
<1>11. Level' /\ Walked'
  <2>1. worker'.from = 0
    BY <1>0, <1>2, <1>4 DEF CycleShaped, Admission
  <2>2. Level'
    BY <1>4, <1>7 DEF Straight, Level
  <2>3. Walked'
    BY <1>4, <1>6, <2>1 DEF Walked
  <2> QED BY <2>2, <2>3
<1>12. LogsStand'
  BY <1>2, <1>4, <1>5 DEF Straight, LogsStand, Agrees
<1> QED BY <1>4, <1>8, <1>9, <1>10, <1>11, <1>12 DEF Straight

LEMMA StraightProcessLog ==
  ASSUME IndexerAssumption, Shaped, ChainSound, Straight, NEW l \in worker.due, ProcessLog(l) PROVE Straight'
<1>0. TypeOK /\ CycleShaped
  BY DEF Shaped
<1>1. /\ worker.step = "block" /\ worker'.due \subseteq worker.due
      /\ UNCHANGED <<worker.step, worker.next, worker.end, worker.at, worker.from, worker.logs, configs, chain, blocks, checkpoint>>
  BY <1>0, ProcessLogKnown
<1>2. /\ l[2] = worker.at /\ l[2] \in DOMAIN chain /\ l[4] = chain[l[2]].hash /\ l[3] \in chain[l[2]].txs /\ Agrees(l[2]) /\ l[3] \in Txs
      /\ l[4] \in Nat /\ l[2] \in Heights
  BY <1>0, DueKnown DEF Straight, LogsStand
<1>3. members' = members /\ Admitted' = Admitted /\ Recorded' = Recorded /\ Busy' = Busy /\ Scanning' = Scanning /\ (\A h : Agrees(h)' <=> Agrees(h))
  BY <1>1 DEF members, Admitted, Recorded, Busy, Scanning, Agrees
<1>4. \A t \in Txs : transfers'[t] = transfers[t] \/ (t = l[3] /\ transfers'[t] = [at |-> l[2], hash |-> l[4], canonical |-> TRUE])
  <2>1. transfers' = transfers \/ transfers' = [transfers EXCEPT ![l[3]] = [at |-> l[2], hash |-> l[4], canonical |-> TRUE]]
    BY <1>0, ProcessLogCases DEF MintApplied, PurchaseNoted, PurchaseApplied, ApplyTransfer
  <2>2. transfers \in [Txs -> Row]
    BY <1>0 DEF TypeOK, RowsTyped
  <2> QED BY <1>2, <2>1, <2>2
<1>5. l[2] \in Recorded /\ blocks[l[2]] = l[4]
  BY <1>2 DEF Agrees, Recorded, None
<1>6. RowsStand'
  BY <1>1, <1>2, <1>3, <1>4, <1>5 DEF Straight, RowsStand
<1>7. AgreementClosed' /\ RecordedCovered' /\ Level' /\ Walked'
  BY <1>1, <1>3 DEF Straight, AgreementClosed, RecordedCovered, Level, Walked
<1>8. LogsStand'
  BY <1>1, <1>3 DEF Straight, LogsStand
<1> QED BY <1>6, <1>7, <1>8 DEF Straight

LEMMA StraightAdvance ==
  ASSUME IndexerAssumption, Shaped, ChainSound, Straight, Advance PROVE Straight'
<1>0. TypeOK /\ CycleShaped
  BY DEF Shaped
<1>1. PICK m : m = FirstOf(Participating)
  OBVIOUS
<1>2. /\ worker.step = "block" /\ m \in Participating /\ m \in members
      /\ checkpoint' = [checkpoint EXCEPT ![m] = [@ EXCEPT !.next = worker.end + 1, !.last = worker.end, !.status = "RUNNING"]]
      /\ worker'.next = [worker.next EXCEPT ![m] = worker.end + 1]
      /\ worker'.from = worker.from /\ worker'.due = {}
      /\ (Participating = {m} => worker'.step = "scan" /\ worker'.logs = {} /\ worker'.end = 0)
      /\ (Participating # {m} => worker'.step = "block" /\ worker'.logs = worker.logs /\ worker'.end = worker.end)
      /\ UNCHANGED <<configs, chain, blocks, transfers>>
  BY <1>0, <1>1, AdvanceKnown
<1>3. /\ checkpoint'[m].next = worker.end + 1 /\ checkpoint'[m].last = worker.end
      /\ (\A k \in members : k # m => checkpoint'[k] = checkpoint[k])
      /\ worker.end \in Nat /\ worker.next \in [members -> Nat] /\ worker.next[m] <= worker.end
  <2>1. worker.end \in Nat /\ worker.next \in [members -> Nat]
    BY <1>0, WorkerTypes
  <2>2. worker.next[m] <= worker.end
    BY <1>2 DEF Participating
  <2>3. checkpoint \in [members -> CheckpointType]
    BY <1>0 DEF TypeOK
  <2>4. checkpoint'[m].next = worker.end + 1 /\ checkpoint'[m].last = worker.end /\ \A k \in members : k # m => checkpoint'[k] = checkpoint[k]
    BY <1>2, <2>3 DEF CheckpointType
  <2> QED BY <2>1, <2>2, <2>4
<1>4. members' = members /\ Recorded' = Recorded /\ (\A h : Agrees(h)' <=> Agrees(h)) /\ Scanning /\ Scanning'
  BY <1>2 DEF members, Recorded, Agrees, Scanning
<1>5. Admitted' = Admitted /\ m \in Admitted
  BY <1>2, <1>3, <1>4 DEF Admitted, Participating
<1>6. RowsStand' /\ AgreementClosed'
  BY <1>2, <1>4 DEF Straight, RowsStand, AgreementClosed
<1>7. RecordedCovered'
  <2>1. checkpoint[m].last < worker.end /\ checkpoint[m].last \in Nat
    <3>1. checkpoint[m].last = checkpoint[m].next - 1 /\ worker.next[m] = checkpoint[m].next
      BY <1>2, <1>5 DEF Straight, Level
    <3>2. checkpoint[m].next \in Nat /\ checkpoint[m].last \in Nat
      BY <1>0, <1>2, WorkerTypes
    <3> QED BY <1>3, <3>1, <3>2
  <2>2. ASSUME NEW h \in Recorded PROVE \E k \in members : h <= checkpoint'[k].last
    <3>1. h \in Nat
      BY DEF Recorded, Heights
    <3>2. CASE h <= worker.end
      BY <1>2, <1>3, <3>2
    <3>3. CASE ~(h <= worker.end)
      <4>1. PICK k \in members : h <= checkpoint[k].last
        BY <3>3 DEF Straight, RecordedCovered
      <4>2. k # m
        BY <1>3, <2>1, <3>1, <3>3, <4>1
      <4> QED BY <1>3, <4>1, <4>2
    <3> QED BY <3>2, <3>3
  <2> QED BY <1>4, <2>2 DEF RecordedCovered
<1>8. Level'
  <2>0. checkpoint'[m].last = checkpoint'[m].next - 1
    BY ONLY <1>3
  <2>1. \A k \in members : checkpoint'[k].last = checkpoint'[k].next - 1
    BY <1>3, <2>0 DEF Straight, Level
  <2>2. \A k \in Admitted' : worker'.next[k] = checkpoint'[k].next
    BY <1>2, <1>3, <1>5 DEF Straight, Level, Admitted
  <2> QED BY <1>4, <2>1, <2>2 DEF Level
<1>9. Walked'
  BY <1>2, <1>4 DEF Straight, Walked
<1>10. LogsStand'
  BY <1>2 DEF Straight, LogsStand
<1> QED BY <1>6, <1>7, <1>8, <1>9, <1>10 DEF Straight

LEMMA StraightSame == ASSUME Straight, UNCHANGED vars PROVE Straight'
<1>1. UNCHANGED <<configs, chain, blocks, transfers, checkpoint, worker>>
  BY DEF vars
<1>2. /\ members' = members /\ Admitted' = Admitted /\ Recorded' = Recorded /\ Busy' = Busy /\ Scanning' = Scanning /\ (\A h : Agrees(h)' <=> Agrees(h))
  BY <1>1 DEF members, Admitted, Recorded, Busy, Scanning, Agrees
<1>3. RowsStand' /\ AgreementClosed' /\ RecordedCovered' /\ Level'
  BY <1>1, <1>2 DEF Straight, RowsStand, AgreementClosed, RecordedCovered, Level
<1>4. Walked' /\ LogsStand'
  BY <1>1, <1>2 DEF Straight, Walked, LogsStand
<1> QED BY <1>3, <1>4 DEF Straight

LEMMA StraightStays ==
  ASSUME IndexerAssumption, Shaped, ChainSound, StraightWhenUnharmed, [Next]_vars PROVE StraightWhenUnharmed'
<1> SUFFICES ASSUME Unharmed' PROVE Straight'
  BY DEF StraightWhenUnharmed
<1>0. TypeOK /\ CycleShaped
  BY DEF Shaped
<1>1. Straight /\ ~Fail /\ ~FailToAdmit /\ ~FailToRebuild /\ ~Crash /\ \A h \in Heights : Reorg(h) => worker.step = "idle"
  BY <1>0, UnharmedSo DEF StraightWhenUnharmed
<1>2. ASSUME NEW txs \in SUBSET Txs, Mine(txs) PROVE Straight'
  BY <1>1, <1>2, StraightMine
<1>3. ASSUME NEW h \in Heights, Reorg(h) PROVE Straight'
  BY <1>1, <1>3, StraightReorg
<1>4. CASE BeginRebuild \/ Derive \/ Replay \/ ReadTip
  BY <1>1, <1>4, StraightRests
<1>5. CASE Verify
  BY <1>1, <1>5, StraightVerify
<1>6. CASE Admit
  BY <1>1, <1>6, StraightAdmit
<1>7. CASE FetchLogs
  BY <1>1, <1>7, StraightFetchLogs
<1>8. CASE FetchBlock
  BY <1>1, <1>8, StraightFetchBlock
<1>9. CASE RegressGroup
  <2>1. worker.step = "regress" /\ worker.step # "regress"
    BY <1>1, <1>9 DEF RegressGroup, Straight, Walked
  <2> QED BY <2>1
<1>10. ASSUME NEW l \in worker.due, ProcessLog(l) PROVE Straight'
  BY <1>1, <1>10, StraightProcessLog
<1>11. CASE Advance
  BY <1>1, <1>11, StraightAdvance
<1>12. CASE FinishScan
  BY <1>1, <1>12, StraightFinishScan
<1>13. CASE UNCHANGED vars
  BY <1>1, <1>13, StraightSame
<1> QED BY <1>1, <1>2, <1>3, <1>4, <1>5, <1>6, <1>7, <1>8, <1>9, <1>10, <1>11, <1>12, <1>13 DEF Next, Cycle

LEMMA NoPhantomFollows ==
  ASSUME IndexerAssumption, Shaped, StraightWhenUnharmed PROVE NoPhantom
<1> SUFFICES ASSUME Quiet, Unharmed, NEW t \in Canonical(transfers)
             PROVE  \/ chain[transfers[t].at].hash = transfers[t].hash /\ t \in chain[transfers[t].at].txs
                    \/ \E m \in members : Detected(m, transfers[t].at)
  BY DEF NoPhantom
<1>0. TypeOK /\ CycleShaped /\ Straight
  BY DEF Shaped, StraightWhenUnharmed
<1>1. PICK h : h = transfers[t].at
  OBVIOUS
<1>2. h \in Recorded /\ blocks[h] = transfers[t].hash /\ (Agrees(h) => t \in chain[h].txs) /\ h \in Nat
  BY <1>0, <1>1 DEF Canonical, Straight, RowsStand, Recorded, Heights
<1>3. CASE Agrees(h)
  BY <1>1, <1>2, <1>3 DEF Agrees
<1>4. CASE ~Agrees(h)
  <2>1. PICK m \in members : h <= checkpoint[m].last
    BY <1>0, <1>2 DEF Straight, RecordedCovered, Quiet, Busy
  <2>2. /\ RecordedTo(m) = {i \in Recorded : i <= checkpoint[m].last}
        /\ Agreed(m) = {i \in Recorded : i <= checkpoint[m].last /\ Agrees(i)}
        /\ Recorded \subseteq Nat
    BY <1>0, AgreedAre
  <2>3. \A a \in Agreed(m) : h > a
    <3> SUFFICES ASSUME NEW a \in Agreed(m), ~(h > a) PROVE FALSE
      OBVIOUS
    <3>1. a \in Recorded /\ Agrees(a) /\ a \in Nat
      BY <2>2
    <3>2. h = a \/ h < a
      BY <1>2, <3>1
    <3> QED BY <1>0, <1>2, <1>4, <3>1, <3>2 DEF Straight, AgreementClosed
  <2>4. h \in Diverged(m)
    BY <1>2, <2>1, <2>2, <2>3 DEF Diverged
  <2>5. PICK f : f = RewindTo(m)
    OBVIOUS
  <2>6. f \in Nat \ {0} /\ \A i \in Recorded : i < f => Agrees(i)
    BY <1>0, <2>4, <2>5, RewindSound DEF Straight
  <2>7. f <= h
    BY <1>2, <1>4, <2>6
  <2> QED BY <1>1, <2>4, <2>5, <2>7 DEF Detected
<1> QED BY <1>3, <1>4

-----------------------------------------------------------------------------
DoneKept == \A m \in members : \A t \in Txs : Done(m, t) => Done(m, t)'

LEMMA DoneSame == ASSUME UNCHANGED <<transfers, purchased, purchases>> PROVE DoneKept
BY DEF DoneKept, Done, RowOf

LEMMA BelowKept ==
  ASSUME IndexerAssumption, TypeOK, BelowDone, DoneKept, UNCHANGED <<configs, chain>>, \A m \in members : checkpoint'[m].next = checkpoint[m].next
  PROVE  BelowDone'
<1>1. members' = members /\ \A m : Logs(m)' = Logs(m)
  BY DEF members, Logs
<1>2. \A h \in DOMAIN chain : chain[h].txs \subseteq Txs
  BY ChainTypes
<1> QED BY <1>1, <1>2 DEF BelowDone, DoneKept

LEMMA ChunkOff == ASSUME worker'.step # "block", worker'.due = {} PROVE ChunkDone' /\ OneAtATime'
BY DEF ChunkDone, OneAtATime

\* The logs of a chunk are fetched: what is not below a contract's next block is there to be processed.
LEMMA ChunkFetched ==
  ASSUME IndexerAssumption, Shaped, FetchLogs, BelowDone, \A m \in Admitted : worker.next[m] = checkpoint[m].next
  PROVE  BelowDone' /\ ChunkDone' /\ OneAtATime'
<1>0. TypeOK /\ CycleShaped
  BY DEF Shaped
<1>1. /\ worker.step = "scan" /\ ActiveMembers # {} /\ worker.due = {} /\ Admitted = members
      /\ UNCHANGED <<configs, chain, transfers, purchased, purchases, checkpoint>>
  BY <1>0 DEF FetchLogs, world, rows, CycleShaped, Holding, Busy, Admission, Scanning
<1>2. /\ worker'.step = "block" /\ worker'.next = worker.next /\ worker'.due = {} /\ worker'.end = ChunkEnd
      /\ worker'.logs = {<<l[1], l[2], l[3], chain[l[2]].hash>> : l \in Accepted}
      /\ {l[2] : l \in worker'.logs} \subseteq worker'.todo
  BY <1>0, <1>1, FetchedKnown
<1>3. ChunkEnd \in Nat /\ Target \in Nat /\ ChunkEnd <= Target
  BY <1>0, <1>1, ChunkKnown
<1>4. members' = members /\ (\A m : Logs(m)' = Logs(m)) /\ DoneKept
  BY <1>1, DoneSame DEF members, Logs
<1>5. ASSUME NEW m \in members, NEW h \in DOMAIN chain, h <= ChunkEnd, NEW t \in chain[h].txs \cap Logs(m)
      PROVE  Done(m, t)' \/ (h >= worker'.next[m] /\ Pending(m, h, t)')
  <2>0. h \in Heights /\ h \in Nat /\ t \in Txs /\ worker.next[m] \in Nat /\ m \in Admitted
    BY <1>0, <1>1, ChainTypes, WorkerTypes DEF Heights
  <2>1. CASE h < worker.next[m]
    <3>1. Done(m, t)
      BY <1>1, <2>0, <2>1 DEF BelowDone
    <3> QED BY <1>4, <2>0, <3>1 DEF DoneKept
  <2>2. CASE h >= worker.next[m]
    <3>1. m \in ActiveMembers
      BY <1>3, <1>5, <2>0, <2>2 DEF ActiveMembers
    <3>2. <<m, h, t>> \in Accepted
      BY <1>3, <1>5, <2>0, <2>2, <3>1 DEF Accepted
    <3>3. <<m, h, t, chain[h].hash>> \in worker'.logs
      BY <1>2, <3>2
    <3>4. h \in worker'.todo
      <4>1. PICK l \in worker'.logs : l = <<m, h, t, chain[h].hash>>
        BY <3>3
      <4>2. l[2] = h
        BY ONLY <4>1
      <4>3. l[2] \in {k[2] : k \in worker'.logs}
        OBVIOUS
      <4> QED BY <1>2, <4>2, <4>3
    <3> QED BY <1>1, <1>2, <2>2, <3>3, <3>4 DEF Pending
  <2> QED BY <2>0, <2>1, <2>2
<1>6. ChunkDone'
  BY <1>1, <1>2, <1>4, <1>5 DEF ChunkDone
<1>7. BelowDone'
  BY <1>0, <1>1, <1>4, BelowKept
<1>8. OneAtATime'
  BY <1>2 DEF OneAtATime
<1> QED BY <1>6, <1>7, <1>8

\* A block is fetched: its logs are due.
LEMMA ChunkBlock ==
  ASSUME IndexerAssumption, Shaped, FetchBlock, worker'.step = "block", BelowDone, ChunkDone
  PROVE  BelowDone' /\ ChunkDone' /\ OneAtATime'
<1>0. TypeOK /\ CycleShaped
  BY DEF Shaped
<1>1. PICK n : n = NextBlock
  OBVIOUS
<1>2. /\ worker.step = "block" /\ worker.due = {} /\ n \in worker.todo /\ blocks[n] \in {None, chain[n].hash}
      /\ UNCHANGED <<worker.next, worker.end, worker.logs, configs, chain, checkpoint>> /\ worker'.at = n
      /\ worker'.todo = worker.todo \ {n} /\ worker'.due = {l \in worker.logs : l[2] = n}
  BY <1>0, <1>1, FetchBlockKnown
<1>3. UNCHANGED <<transfers, purchased, purchases>>
  BY <1>0, <1>1, <1>2, FetchBlockKnown
<1>4. members' = members /\ (\A m : Logs(m)' = Logs(m)) /\ DoneKept
  BY <1>2, <1>3, DoneSame DEF members, Logs
<1>5. ASSUME NEW m \in members, NEW h \in DOMAIN chain, h <= worker.end, NEW t \in chain[h].txs \cap Logs(m)
      PROVE  Done(m, t)' \/ (h >= worker'.next[m] /\ Pending(m, h, t)')
  <2>1. t \in Txs
    BY <1>0, ChainTypes
  <2>2. Done(m, t) \/ (h >= worker.next[m] /\ h \in worker.todo /\ <<m, h, t, chain[h].hash>> \in worker.logs)
    BY <1>2, <1>5 DEF ChunkDone, Pending
  <2>3. Pending(m, h, t)' <=> <<m, h, t, chain[h].hash>> \in worker'.due \/ (h \in worker'.todo /\ <<m, h, t, chain[h].hash>> \in worker'.logs)
    BY <1>2 DEF Pending
  <2> QED BY <1>2, <1>4, <2>1, <2>2, <2>3 DEF DoneKept
<1>6. ChunkDone'
  BY <1>2, <1>4, <1>5 DEF ChunkDone
<1>7. BelowDone'
  BY <1>0, <1>2, <1>4, BelowKept
<1>8. OneAtATime'
  BY <1>2 DEF OneAtATime
<1> QED BY <1>6, <1>7, <1>8

\* What was done stays done, and a log that is dealt with is done.
LEMMA ProcessDone ==
  ASSUME IndexerAssumption, TypeOK, CycleShaped, NEW l \in worker.due, ProcessLog(l)
  PROVE  DoneKept /\ (~PurchaseNoted(l) => Done(l[1], l[3])')
<1>1. l[1] \in members /\ l[3] \in Txs /\ l[2] \in Nat \ {0} /\ transfers \in [Txs -> Row] /\ purchased \in [Txs -> Row] /\ purchases \in [Txs -> Purchase]
  BY DueKnown DEF TypeOK, RowsTyped, Heights
<1> DEFINE r == [at |-> l[2], hash |-> l[4], canonical |-> TRUE]
           p == [at |-> l[2], hash |-> l[4], status |-> "CONFIRMED"]
<1>2. r # NoRow /\ p.status = "CONFIRMED"
  BY <1>1 DEF NoRow
<1>3. CASE MintApplied(l)
  <2>1. UNCHANGED <<purchased, purchases>> /\ l[1] = "release"
        /\ \/ transfers' = transfers /\ transfers[l[3]] # NoRow
           \/ transfers' = [transfers EXCEPT ![l[3]] = r]
    BY <1>3 DEF MintApplied, ApplyTransfer
  <2> HIDE DEF r
  <2>2. transfers'[l[3]] # NoRow /\ \A t \in Txs : transfers[t] # NoRow => transfers'[t] # NoRow
    BY <1>1, <1>2, <2>1
  <2> QED BY <2>1, <2>2 DEF DoneKept, Done, RowOf
<1>4. CASE PurchaseNoted(l)
  <2>1. UNCHANGED <<transfers, purchases>> /\ purchased' = [purchased EXCEPT ![l[3]] = r]
    BY <1>4 DEF PurchaseNoted, Noted
  <2> HIDE DEF r
  <2>2. \A t \in Txs : purchased[t] # NoRow => purchased'[t] # NoRow
    BY <1>1, <1>2, <2>1
  <2> QED BY <1>4, <2>1, <2>2 DEF DoneKept, Done, RowOf
<1>5. CASE PurchaseApplied(l)
  <2>1. UNCHANGED <<transfers, purchased>> /\ l[1] = "sale" /\ purchased[l[3]] # NoRow
        /\ \/ purchases' = purchases /\ purchases[l[3]].status # "NONE"
           \/ purchases' = [purchases EXCEPT ![l[3]] = p]
    BY <1>5 DEF PurchaseApplied, ApplyPurchase, Unmarked
  <2> HIDE DEF p
  <2>2. purchases'[l[3]].status # "NONE" /\ \A t \in Txs : purchases[t].status # "NONE" => purchases'[t].status # "NONE"
    BY <1>1, <1>2, <2>1
  <2> QED BY <2>1, <2>2 DEF DoneKept, Done, RowOf
<1> QED BY <1>3, <1>4, <1>5, ProcessLogCases

LEMMA ChunkProcessed ==
  ASSUME IndexerAssumption, Shaped, NEW l \in worker.due, ProcessLog(l), BelowDone, ChunkDone, OneAtATime
  PROVE  BelowDone' /\ ChunkDone' /\ OneAtATime'
<1>0. TypeOK /\ CycleShaped
  BY DEF Shaped
<1>1. /\ worker.step = "block" /\ worker'.due \in {worker.due, worker.due \ {l}} /\ (worker'.due = worker.due \/ ~PurchaseNoted(l))
      /\ UNCHANGED <<worker.step, worker.next, worker.end, worker.at, worker.logs, worker.todo, configs, chain, checkpoint>>
  BY <1>0, ProcessLogKnown DEF PurchaseNoted
<1>2. DoneKept /\ (~PurchaseNoted(l) => Done(l[1], l[3])')
  BY <1>0, ProcessDone
<1>3. members' = members /\ (\A m : Logs(m)' = Logs(m))
  BY <1>1 DEF members, Logs
<1> HIDE DEF PurchaseNoted, Done
<1>4. ASSUME NEW m \in members, NEW h \in DOMAIN chain, h <= worker.end, NEW t \in chain[h].txs \cap Logs(m)
      PROVE  Done(m, t)' \/ (h >= worker'.next[m] /\ Pending(m, h, t)')
  <2>1. t \in Txs
    BY <1>0, ChainTypes
  <2>2. Done(m, t) \/ (h >= worker.next[m] /\ Pending(m, h, t))
    BY <1>1, <1>4 DEF ChunkDone
  <2>3. CASE Done(m, t)
    BY <1>2, <2>1, <2>3 DEF DoneKept
  <2>4. CASE worker'.due = worker.due /\ h >= worker.next[m] /\ Pending(m, h, t)
    BY <1>1, <2>4 DEF Pending
  <2>5. CASE worker'.due = worker.due \ {l} /\ Done(l[1], l[3])' /\ h >= worker.next[m] /\ Pending(m, h, t)
    <3>1. CASE <<m, h, t, chain[h].hash>> = l
      <4>1. l[1] = m /\ l[3] = t
        BY <3>1
      <4> QED BY <2>5, <4>1
    <3>2. CASE <<m, h, t, chain[h].hash>> # l
      BY <1>1, <2>5, <3>2 DEF Pending
    <3> QED BY <3>1, <3>2
  <2> QED BY <1>1, <1>2, <2>2, <2>3, <2>4, <2>5
<1>5. ChunkDone'
  BY <1>1, <1>3, <1>4 DEF ChunkDone
<1>6. BelowDone'
  BY <1>0, <1>1, <1>2, BelowKept
<1>7. OneAtATime'
  BY <1>1 DEF OneAtATime
<1> QED BY <1>5, <1>6, <1>7

\* Nothing of the chunk is left: the checkpoints may go past it.
LEMMA ChunkOver ==
  ASSUME IndexerAssumption, TypeOK, worker.step = "block", ChunkDone, worker.due = {}, worker.todo = {},
         NEW m \in members, NEW h \in DOMAIN chain, h <= worker.end, NEW t \in chain[h].txs \cap Logs(m)
  PROVE  Done(m, t)
<1>1. Done(m, t) \/ Pending(m, h, t)
  BY DEF ChunkDone
<1>2. ~Pending(m, h, t)
  BY DEF Pending
<1> QED BY <1>1, <1>2

LEMMA ChunkAdvanced ==
  ASSUME IndexerAssumption, Shaped, Advance, BelowDone, ChunkDone
  PROVE  BelowDone' /\ ChunkDone' /\ OneAtATime'
<1>0. TypeOK /\ CycleShaped
  BY DEF Shaped
<1>1. PICK n : n = FirstOf(Participating)
  OBVIOUS
<1>2. /\ worker.step = "block" /\ worker.due = {} /\ worker.todo = {} /\ n \in members
      /\ checkpoint' = [checkpoint EXCEPT ![n] = [@ EXCEPT !.next = worker.end + 1, !.last = worker.end, !.status = "RUNNING"]]
      /\ worker'.due = {} /\ (worker'.step = "block" => worker'.end = worker.end)
      /\ UNCHANGED <<configs, chain, transfers, purchased, purchases>>
  BY <1>0, <1>1, AdvanceKnown
<1>3. /\ checkpoint'[n].next = worker.end + 1 /\ (\A k \in members : k # n => checkpoint'[k] = checkpoint[k]) /\ worker.end \in Nat
  BY <1>0, <1>2, WorkerTypes DEF TypeOK, CheckpointType
<1>4. members' = members /\ (\A m : Logs(m)' = Logs(m)) /\ DoneKept
  BY <1>2, DoneSame DEF members, Logs
<1>5. ASSUME NEW m \in members, NEW h \in DOMAIN chain, h <= worker.end, NEW t \in chain[h].txs \cap Logs(m)
      PROVE  Done(m, t)'
  <2>1. Done(m, t) /\ t \in Txs
    BY <1>0, <1>2, <1>5, ChunkOver, ChainTypes
  <2> QED BY <1>4, <2>1 DEF DoneKept
<1>6. ChunkDone'
  BY <1>2, <1>4, <1>5 DEF ChunkDone
<1>7. ASSUME NEW m \in members, NEW h \in DOMAIN chain, h < checkpoint'[m].next, NEW t \in chain[h].txs \cap Logs(m)
      PROVE  Done(m, t)'
  <2>1. h \in Nat /\ t \in Txs
    BY <1>0, ChainTypes
  <2>2. CASE m = n
    <3>1. h <= worker.end
      BY <1>3, <1>7, <2>1, <2>2
    <3> QED BY <1>5, <3>1
  <2>3. CASE m # n
    <3>1. Done(m, t)
      BY <1>3, <1>7, <2>3 DEF BelowDone
    <3> QED BY <1>4, <2>1, <3>1 DEF DoneKept
  <2> QED BY <2>2, <2>3
<1>8. BelowDone'
  BY <1>2, <1>4, <1>7 DEF BelowDone
<1>9. OneAtATime'
  BY <1>2 DEF OneAtATime
<1> QED BY <1>6, <1>8, <1>9

CreditsBalance == snapshot.amount = Cardinality(Credited)

-----------------------------------------------------------------------------
\* Without a reorganisation no recorded block can differ from the chain.
LEMMA AllAgree ==
  ASSUME IndexerAssumption, TypeOK, ChainSound, forks = 0
  PROVE  (\A h \in DOMAIN chain : chain[h].hash = 0) /\ \A h \in Recorded : Agrees(h)
<1>1. \A h \in DOMAIN chain : chain[h].hash \in Nat /\ chain[h].hash <= 0
  BY ChainTypes DEF ChainSound
<1>2. \A h \in DOMAIN chain : chain[h].hash = 0
  BY <1>1
<1>3. \A h \in Recorded : h \in DOMAIN chain /\ blocks[h] \in Nat /\ blocks[h] <= 0
  BY DEF ChainSound, TypeOK, Recorded
<1>4. \A h \in Recorded : blocks[h] = 0
  BY <1>3
<1> QED BY <1>2, <1>3, <1>4 DEF Agrees

LEMMA NothingToRewind ==
  ASSUME IndexerAssumption, Shaped, ChainSound, forks = 0, NEW m \in members PROVE Diverged(m) = {}
<1>0. TypeOK /\ CycleShaped
  BY DEF Shaped
<1>1. ASSUME NEW h \in Diverged(m) PROVE FALSE
  <2>1. h \in RecordedTo(m) /\ \A a \in Agreed(m) : h > a
    BY DEF Diverged
  <2>2. h \in Recorded /\ h \in Nat /\ Agrees(h) /\ h <= checkpoint[m].last
    BY <1>0, <2>1, AgreedAre, AllAgree
  <2>3. h \in Agreed(m)
    BY <1>0, <2>2, AgreedAre
  <2>4. h > h
    BY <2>1, <2>3
  <2> QED BY <2>2, <2>4
<1> QED BY <1>1

\* There are finitely many mints to count.
LEMMA CreditedFinite ==
  ASSUME IndexerAssumption PROVE IsFiniteSet(Credited) /\ Cardinality(Credited) \in Nat /\ IsFiniteSet(Canonical(transfers)) /\ Cardinality(Canonical(transfers)) \in Nat
<1>1. Credited \subseteq Txs /\ Canonical(transfers) \subseteq Txs /\ IsFiniteSet(Txs)
  BY DEF Credited, Canonical, IndexerAssumption
<1> QED BY <1>1, FS_Subset, FS_CardinalityType

\* The rows of a step that writes none.
LEMMA RowsFirstSame ==
  ASSUME RowsFirst, CreditsBalance, UNCHANGED <<configs, transfers, purchased, snapshot>>,
         \A t \in Txs : purchases'[t].status = "NONE" <=> purchases[t].status = "NONE",
         \A h \in DOMAIN chain : h \in DOMAIN chain' /\ chain'[h] = chain[h]
  PROVE  RowsFirst' /\ CreditsBalance'
<1>1. RowsFirst'
  BY DEF RowsFirst
<1>2. members' = members /\ Canonical(transfers)' = Canonical(transfers) /\ Canonical(transfers) \subseteq Txs
  BY DEF members, Canonical
<1>3. Credited' = Credited
  BY <1>2 DEF Credited
<1> QED BY <1>1, <1>3 DEF CreditsBalance

\* Every step before the first reorganisation, whatever fails or dies, keeps what holds then.
LEMMA UnforkedParts == Unforked <=> RowsFirst /\ Unturned /\ BelowDone /\ ChunkDone /\ OneAtATime /\ CreditsBalance
BY DEF Unforked, CreditsBalance

LEMMA UnforkedFirst == ASSUME IndexerAssumption, Init PROVE Unforked
<1>1. DOMAIN chain = {} /\ forks = 0
  BY DEF Init
<1>2. \A t \in Txs : transfers[t] = NoRow /\ purchased[t] = NoRow /\ purchases[t].status = "NONE"
  BY DEF Init, NoPurchase
<1>3. Credited = {}
  BY <1>2 DEF Credited, Canonical, NoRow
<1>4. worker = Idle /\ job = "NONE" /\ Admitted = {} /\ snapshot.amount = 0
  BY IdleFields DEF Init, Admitted
<1>5. RowsFirst
  BY <1>2 DEF RowsFirst
<1>6. Unturned
  BY <1>4, IdleFields DEF Unturned
<1>7. BelowDone /\ ChunkDone /\ OneAtATime
  BY <1>1, <1>4, IdleFields DEF BelowDone, ChunkDone, OneAtATime
<1>8. CreditsBalance
  BY <1>3, <1>4, FS_EmptySet DEF CreditsBalance
<1> QED BY <1>5, <1>6, <1>7, <1>8, UnforkedParts

LEMMA UnforkedMine ==
  ASSUME IndexerAssumption, Shaped, ChainSound, Unforked, forks = 0, NEW txs \in SUBSET Txs, Mine(txs) PROVE Unforked'
<1>0. TypeOK /\ CycleShaped
  BY DEF Shaped
<1>1. /\ worker.step = "idle" /\ DOMAIN chain' = 1..(Len(chain) + 1) /\ DOMAIN chain = 1..Len(chain) /\ Len(chain) \in Nat
      /\ (\A h \in DOMAIN chain : chain'[h] = chain[h])
      /\ UNCHANGED <<configs, transfers, purchased, purchases, snapshot, job, checkpoint, worker>>
  BY <1>0, MineKnown, ChainTypes
<1>2. RowsFirst' /\ CreditsBalance'
  BY <1>1, UnforkedParts, RowsFirstSame
<1>3. worker.due = {} /\ worker.logs = {} /\ members' = members /\ Admitted' = Admitted
  BY <1>0, <1>1, RestShape DEF members, Admitted
<1>4. Unturned'
  BY <1>1, <1>3 DEF Unforked, Unturned
<1>5. ChunkDone' /\ OneAtATime'
  BY <1>1, <1>3, ChunkOff
<1>6. DoneKept /\ \A m : Logs(m)' = Logs(m)
  BY <1>1, DoneSame DEF Logs
<1>7. ASSUME NEW m \in members, NEW h \in DOMAIN chain', h < checkpoint[m].next, NEW t \in chain'[h].txs \cap Logs(m)
      PROVE  Done(m, t)'
  <2>1. checkpoint[m].next <= Len(chain) + 1 /\ checkpoint[m].next \in Nat
    BY <1>0, CheckpointBounds, WorkerTypes
  <2>2. h \in DOMAIN chain
    BY <1>1, <1>7, <2>1
  <2>3. Done(m, t) /\ t \in Txs
    BY <1>0, <1>1, <1>7, <2>2, ChainTypes DEF Unforked, BelowDone
  <2> QED BY <1>6, <2>3 DEF DoneKept
<1>8. BelowDone'
  BY <1>1, <1>3, <1>6, <1>7 DEF BelowDone
<1> QED BY <1>2, <1>4, <1>5, <1>8 DEF Unforked, CreditsBalance

\* A step that leaves the worker between chunks.
LEMMA UnforkedBetween ==
  ASSUME Unforked, UNCHANGED <<configs, chain, transfers, purchased, snapshot, job>>,
         \A t \in Txs : purchases'[t].status = "NONE" <=> purchases[t].status = "NONE",
         worker'.step \in {"idle", "admit", "tip", "scan"}, worker'.from = 0, worker'.due = {}, worker'.logs = {},
         \A m \in Admitted' : worker'.next[m] = checkpoint'[m].next, BelowDone'
  PROVE  Unforked'
<1>1. RowsFirst' /\ CreditsBalance'
  BY UnforkedParts, RowsFirstSame
<1>2. Unturned'
  BY DEF Unforked, Unturned
<1>3. ChunkDone' /\ OneAtATime'
  BY ChunkOff
<1> QED BY <1>1, <1>2, <1>3 DEF Unforked, CreditsBalance

LEMMA UnforkedReadTip == ASSUME IndexerAssumption, Shaped, Unforked, ReadTip PROVE Unforked'
<1>0. TypeOK /\ CycleShaped
  BY DEF Shaped
<1>1. /\ UNCHANGED <<configs, chain, transfers, purchased, purchases, snapshot, job, checkpoint>>
      /\ worker.step \in {"idle", "tip"} /\ worker'.step = "admit" /\ UNCHANGED <<worker.from, worker.next, worker.due, worker.logs>>
  BY <1>0 DEF ReadTip, world, rows, TypeOK, WorkerType
<1>2. worker.from = 0 /\ worker.due = {} /\ worker.logs = {} /\ Admitted = {}
  BY <1>0, <1>1, RestShape
<1>3. Admitted' = {}
  BY <1>1, <1>2 DEF Admitted, members
<1>4. BelowDone'
  BY <1>0, <1>1, DoneSame, BelowKept DEF Unforked
<1> QED BY <1>1, <1>2, <1>3, <1>4, UnforkedBetween

LEMMA UnforkedAdmit == ASSUME IndexerAssumption, Shaped, Unforked, Admit PROVE Unforked'
<1>0. TypeOK /\ CycleShaped
  BY DEF Shaped
<1>1. PICK m : m = Joining
  OBVIOUS
<1>2. worker.from = 0 /\ \A k \in Admitted : worker.next[k] = checkpoint[k].next
  BY DEF Unforked, Unturned
<1>3. /\ worker.step = "admit" /\ m \in members /\ (\A k \in members : checkpoint'[k].next = checkpoint[k].next)
      /\ worker'.next = [worker.next EXCEPT ![m] = checkpoint'[m].next] /\ worker'.from = 0 /\ worker'.step \in {"scan", "admit"}
      /\ Admitted' = Admitted \cup {m} /\ Admitted \subseteq members /\ worker'.logs = worker.logs /\ worker'.due = worker.due
      /\ UNCHANGED <<configs, chain, transfers, purchased, purchases, snapshot, job>>
  BY <1>0, <1>1, <1>2, AdmitKnown DEF Admitted
<1>4. worker.logs = {} /\ worker.due = {} /\ worker.next \in [members -> Nat]
  BY <1>0, <1>3, WorkerTypes DEF CycleShaped, Holding, Busy
<1>5. \A k \in Admitted' : worker'.next[k] = checkpoint'[k].next
  BY <1>2, <1>3, <1>4
<1>6. BelowDone'
  BY <1>0, <1>3, DoneSame, BelowKept DEF Unforked
<1> QED BY <1>3, <1>4, <1>5, <1>6, UnforkedBetween

LEMMA UnforkedFinishScan == ASSUME IndexerAssumption, Shaped, Unforked, FinishScan PROVE Unforked'
<1>0. TypeOK /\ CycleShaped
  BY DEF Shaped
<1>1. ~Rebuildable
  BY DEF Unforked, Unturned, Rebuildable
<1>2. /\ worker.step = "scan" /\ worker'.step = "idle" /\ worker'.from = 0 /\ worker'.next = [m \in members |-> 0]
      /\ worker'.logs = {} /\ worker'.due = {} /\ (\A m \in members : checkpoint'[m].next = checkpoint[m].next)
      /\ purchases' = (IF "sale" \in members THEN Finalized(worker.next["sale"] - 1) ELSE purchases)
      /\ UNCHANGED <<configs, chain, transfers, purchased, snapshot, job>>
  BY <1>0, <1>1, FinishScanKnown
<1>3. \A t \in Txs : purchases'[t].status = "NONE" <=> purchases[t].status = "NONE"
  <2>1. purchases \in [Txs -> Purchase]
    BY <1>0 DEF TypeOK, RowsTyped
  <2>2. \A u : \A t \in Txs : Finalized(u)[t].status = "NONE" <=> purchases[t].status = "NONE"
    BY <2>1 DEF Finalized, Purchase
  <2> QED BY <1>2, <2>2
<1>4. Admitted' = {}
  BY <1>2 DEF Admitted, members
<1>5. DoneKept
  BY <1>2, <1>3 DEF DoneKept, Done, RowOf
<1>6. BelowDone'
  BY <1>0, <1>2, <1>5, BelowKept DEF Unforked
<1> QED BY <1>2, <1>3, <1>4, <1>6, UnforkedBetween

LEMMA UnforkedStopped == ASSUME IndexerAssumption, Shaped, Unforked, Fail \/ FailToAdmit \/ Crash PROVE Unforked'
<1>0. TypeOK /\ CycleShaped
  BY DEF Shaped
<1>1. worker' = Idle /\ UNCHANGED <<configs, chain, transfers, purchased, purchases, snapshot, job>>
  BY DEF Fail, FailToAdmit, Crash, rows
<1>2. /\ members' = members /\ (\A m : Logs(m)' = Logs(m)) /\ DoneKept
      /\ worker'.step = "idle" /\ worker'.from = 0 /\ worker'.next = [m \in members |-> 0] /\ worker'.due = {} /\ worker'.logs = {}
  BY <1>1, DoneSame, IdleFields DEF members, Logs
<1>3. Admitted' = {}
  BY <1>2 DEF Admitted
<1>4. CASE FailToAdmit \/ Crash
  <2>1. \A m \in members : checkpoint'[m].next = checkpoint[m].next
    <3>1. checkpoint \in [members -> CheckpointType]
      BY <1>0 DEF TypeOK
    <3>2. checkpoint' = checkpoint \/ checkpoint' = [checkpoint EXCEPT ![Joining].status = "FAILED"]
      BY <1>4 DEF FailToAdmit, Crash
    <3> QED BY <3>1, <3>2 DEF CheckpointType
  <2>2. BelowDone'
    BY <1>0, <1>1, <1>2, <2>1, BelowKept DEF Unforked
  <2> QED BY <1>1, <1>2, <1>3, <2>2, UnforkedBetween
<1>5. CASE Fail
  <2>1. Scanning /\ Admitted = members
    BY <1>0, <1>5, FailKnown DEF CycleShaped, Admission
  <2>2. \A m \in members : worker.next[m] = checkpoint[m].next
    BY <2>1 DEF Unforked, Unturned
  <2>3. ASSUME NEW m \in members, NEW h \in DOMAIN chain, h < checkpoint'[m].next, NEW t \in chain[h].txs \cap Logs(m)
        PROVE  Done(m, t)'
    <3>0. t \in Txs /\ h \in Nat
      BY <1>0, ChainTypes
    <3>1. CASE h < checkpoint[m].next
      BY <1>2, <3>0, <3>1 DEF Unforked, BelowDone, DoneKept
    <3>2. CASE ~(h < checkpoint[m].next)
      <4>1. checkpoint'[m].next = ResumeAt(m)
        BY <1>0, <1>5, <2>3, <3>2, FailKnown
      <4>2. worker.step = "block" /\ worker.due = {} /\ worker.todo # {} /\ h < NextBlock
        BY <1>0, <2>1, <2>2, <2>3, <3>2, <4>1, ResumeKnown
      <4>3. NextBlock \in Nat /\ NextBlock <= worker.end /\ \A k \in worker.todo : NextBlock <= k
        BY <1>0, <4>2, NextBlockKnown DEF Busy
      <4>4. h \notin worker.todo /\ h <= worker.end
        BY <1>0, <3>0, <4>2, <4>3, WorkerTypes
      <4>5. Done(m, t)
        BY <2>3, <4>2, <4>4 DEF Unforked, ChunkDone, Pending
      <4> QED BY <1>2, <3>0, <4>5 DEF DoneKept
    <3> QED BY <3>1, <3>2
  <2>4. BelowDone'
    BY <1>1, <1>2, <2>3 DEF BelowDone
  <2> QED BY <1>1, <1>2, <1>3, <2>4, UnforkedBetween
<1> QED BY <1>4, <1>5

LEMMA UnforkedFetchLogs == ASSUME IndexerAssumption, Shaped, ChainSound, Unforked, forks = 0, FetchLogs PROVE Unforked'
<1>0. TypeOK /\ CycleShaped
  BY DEF Shaped
<1>1. /\ UNCHANGED <<configs, chain, transfers, purchased, purchases, snapshot, job, checkpoint>>
      /\ worker'.step = "block" /\ worker'.next = worker.next /\ worker'.from = worker.from
      /\ \A l \in worker'.logs : l[2] \in DOMAIN chain /\ l[3] \in chain[l[2]].txs /\ l[4] = chain[l[2]].hash
  BY <1>0, FetchedKnown DEF FetchLogs, world, rows
<1>2. \A h \in DOMAIN chain : chain[h].hash = 0
  BY <1>0, AllAgree
<1>3. RowsFirst' /\ CreditsBalance'
  BY <1>1, UnforkedParts, RowsFirstSame
<1>4. Admitted' = Admitted
  BY <1>1 DEF Admitted, members
<1>5. Unturned'
  BY <1>1, <1>2, <1>4 DEF Unforked, Unturned
<1>6. BelowDone' /\ ChunkDone' /\ OneAtATime'
  BY ChunkFetched DEF Unforked, Unturned
<1> QED BY <1>3, <1>5, <1>6 DEF Unforked, CreditsBalance

LEMMA UnforkedFetchBlock == ASSUME IndexerAssumption, Shaped, ChainSound, Unforked, forks = 0, FetchBlock PROVE Unforked'
<1>0. TypeOK /\ CycleShaped
  BY DEF Shaped
<1>1. PICK n : n = NextBlock
  OBVIOUS
<1>2. n \in DOMAIN chain /\ n \in Heights
  BY <1>0, <1>1, FetchBlockKnown, ChainTypes
<1>3. blocks[n] \in {None, chain[n].hash}
  <2>1. blocks[n] # None => n \in Recorded
    BY <1>2 DEF Recorded
  <2> QED BY <1>0, <2>1, AllAgree DEF Agrees
<1>4. /\ UNCHANGED <<configs, chain, transfers, purchased, purchases, snapshot, job, checkpoint>>
      /\ worker'.step = "block" /\ worker'.next = worker.next /\ worker'.from = worker.from /\ worker'.logs = worker.logs
  BY <1>0, <1>1, <1>3, FetchBlockKnown
<1>5. RowsFirst' /\ CreditsBalance'
  BY <1>4, UnforkedParts, RowsFirstSame
<1>6. Admitted' = Admitted
  BY <1>4 DEF Admitted, members
<1>7. Unturned'
  BY <1>4, <1>6 DEF Unforked, Unturned
<1>8. BelowDone' /\ ChunkDone' /\ OneAtATime'
  BY <1>4, ChunkBlock DEF Unforked
<1> QED BY <1>5, <1>7, <1>8 DEF Unforked, CreditsBalance

LEMMA UnforkedAdvance == ASSUME IndexerAssumption, Shaped, Unforked, Advance PROVE Unforked'
<1>0. TypeOK /\ CycleShaped
  BY DEF Shaped
<1>1. PICK n : n = FirstOf(Participating)
  OBVIOUS
<1>2. /\ n \in members /\ worker.step = "block"
      /\ checkpoint' = [checkpoint EXCEPT ![n] = [@ EXCEPT !.next = worker.end + 1, !.last = worker.end, !.status = "RUNNING"]]
      /\ worker'.next = [worker.next EXCEPT ![n] = worker.end + 1] /\ worker'.from = worker.from
      /\ worker'.step \in {"scan", "block"} /\ worker'.logs \subseteq worker.logs
      /\ UNCHANGED <<configs, chain, transfers, purchased, purchases, snapshot, job>>
  BY <1>0, <1>1, AdvanceKnown
<1>3. RowsFirst' /\ CreditsBalance'
  BY <1>2, UnforkedParts, RowsFirstSame
<1>4. Admitted = members /\ members' = members
  BY <1>0, <1>2 DEF CycleShaped, Admission, Scanning, members
<1>5. \A m \in members : worker'.next[m] = checkpoint'[m].next
  <2>1. worker.next \in [members -> Nat] /\ \A m \in members : worker.next[m] = checkpoint[m].next
    BY <1>0, <1>4, WorkerTypes DEF Unforked, Unturned
  <2>2. checkpoint'[n].next = worker.end + 1 /\ \A k \in members : k # n => checkpoint'[k] = checkpoint[k]
    BY <1>0, <1>2 DEF TypeOK, CheckpointType
  <2> QED BY <1>2, <2>1, <2>2
<1>6. Unturned'
  <2>1. Admitted' \subseteq members
    BY <1>4 DEF Admitted
  <2> QED BY <1>2, <1>5, <2>1 DEF Unforked, Unturned
<1>7. BelowDone' /\ ChunkDone' /\ OneAtATime'
  BY ChunkAdvanced DEF Unforked
<1> QED BY <1>3, <1>6, <1>7 DEF Unforked, CreditsBalance

\* The mint of a sale whose purchase is dealt with has its row.
LEMMA MintBeforePurchase ==
  ASSUME IndexerAssumption, Shaped, ChunkDone, OneAtATime, NEW l \in worker.due, ProcessLog(l), l[1] = "sale",
         l[2] \in DOMAIN chain, l[3] \in chain[l[2]].txs
  PROVE  transfers[l[3]] # NoRow
<1>0. TypeOK /\ CycleShaped
  BY DEF Shaped
<1>1. /\ worker.step = "block" /\ (\A k \in worker.due : k[3] = l[3] => k[1] = "sale")
      /\ l[2] = worker.at /\ l[2] <= worker.end /\ l[3] \in Txs /\ "release" \in members /\ l[3] \in Logs("release")
  BY <1>0, ProcessLogCases, DueKnown, MembersKnown DEF TypeOK, Logs
<1>2. ~Pending("release", l[2], l[3])
  <2>1. <<"release", l[2], l[3], chain[l[2]].hash>> \notin worker.due
    <3>1. ASSUME NEW k \in worker.due, k = <<"release", l[2], l[3], chain[l[2]].hash>> PROVE FALSE
      <4>1. k[1] = "release" /\ k[3] = l[3]
        BY ONLY <3>1
      <4> QED BY <1>1, <4>1
    <3> QED BY <3>1
  <2>2. l[2] \notin worker.todo
    BY <1>1 DEF OneAtATime
  <2> QED BY <2>1, <2>2 DEF Pending
<1>3. Done("release", l[3])
  BY <1>1, <1>2 DEF ChunkDone
<1> QED BY <1>3 DEF Done, RowOf

LEMMA UnforkedProcessLog ==
  ASSUME IndexerAssumption, Shaped, ChainSound, Unforked, forks = 0, NEW l \in worker.due, ProcessLog(l) PROVE Unforked'
<1>0. TypeOK /\ CycleShaped
  BY DEF Shaped
<1>1. PICK t, h : t = l[3] /\ h = l[2]
  OBVIOUS
<1>2. /\ l[1] \in members /\ t \in Txs /\ h \in Heights /\ h \in Nat \ {0} /\ t \in Logs(l[1]) /\ l \in worker.logs
      /\ transfers \in [Txs -> Row] /\ purchased \in [Txs -> Row] /\ purchases \in [Txs -> Purchase] /\ snapshot.amount \in Nat
  BY <1>0, <1>1, DueKnown DEF TypeOK, RowsTyped, Heights, SnapshotType
<1>3. h \in DOMAIN chain /\ t \in chain[h].txs /\ l[4] = 0
  BY <1>1, <1>2 DEF Unforked, Unturned
<1>4. /\ UNCHANGED <<worker.step, worker.next, worker.from, worker.logs, configs, chain, job, checkpoint>>
      /\ members' = members
  BY <1>0, ProcessLogKnown DEF members
<1>5. BelowDone' /\ ChunkDone' /\ OneAtATime'
  BY ChunkProcessed DEF Unforked
<1>6. Unturned'
  <2>1. Admitted' = Admitted
    BY <1>4 DEF Admitted
  <2> QED BY <1>4, <2>1 DEF Unforked, Unturned
<1>7. IsFiniteSet(Credited) /\ Cardinality(Credited) \in Nat /\ RowsFirst /\ CreditsBalance
  BY CreditedFinite DEF Unforked, CreditsBalance
<1>8. PICK r : r = [at |-> h, hash |-> 0, canonical |-> TRUE]
  OBVIOUS
<1>9. r.at = h /\ r.hash = 0 /\ r.canonical /\ r # NoRow
  BY <1>2, <1>8 DEF NoRow
<1>10. ASSUME RowsFirst', Credited' = Credited, snapshot' = snapshot PROVE Unforked'
  BY <1>5, <1>6, <1>7, <1>10 DEF Unforked, CreditsBalance
<1>11. ASSUME RowsFirst', Credited' = Credited \cup {t}, t \notin Credited, snapshot'.amount = snapshot.amount + 1 PROVE Unforked'
  <2>1. Cardinality(Credited') = Cardinality(Credited) + 1
    BY <1>7, <1>11, FS_AddElement
  <2> QED BY <1>5, <1>6, <1>7, <1>11, <2>1 DEF Unforked, CreditsBalance
<1>12. CASE MintApplied(l)
  <2>1. /\ UNCHANGED <<purchased, purchases>>
        /\ \/ transfers' = transfers /\ snapshot' = snapshot
           \/ /\ transfers[t] = NoRow /\ transfers' = [transfers EXCEPT ![t] = r]
              /\ IF t \in Sales /\ "sale" \in members THEN snapshot' = snapshot ELSE snapshot'.amount = snapshot.amount + 1
    BY <1>1, <1>3, <1>8, <1>12 DEF MintApplied, ApplyTransfer, Credit
  <2>2. CASE transfers' = transfers /\ snapshot' = snapshot
    <3>1. RowsFirst'
      BY <1>4, <1>7, <2>1, <2>2 DEF RowsFirst
    <3>2. Credited' = Credited
      BY <1>4, <2>1, <2>2 DEF Credited, Canonical
    <3> QED BY <1>10, <2>2, <3>1, <3>2
  <2>3. CASE /\ transfers[t] = NoRow /\ transfers' = [transfers EXCEPT ![t] = r]
             /\ IF t \in Sales /\ "sale" \in members THEN snapshot' = snapshot ELSE snapshot'.amount = snapshot.amount + 1
    <3>1. transfers'[t] = r /\ \A x \in Txs : x # t => transfers'[x] = transfers[x]
      BY <1>2, <2>3
    <3>2. RowsFirst'
      <4>1. \A x \in Txs : transfers'[x] # NoRow => /\ transfers'[x].canonical /\ transfers'[x].hash = 0
                                                    /\ transfers'[x].at \in DOMAIN chain /\ x \in chain[transfers'[x].at].txs
        BY <1>3, <1>7, <1>9, <3>1 DEF RowsFirst
      <4>2. \A x \in Txs : purchases[x].status # "NONE" => transfers'[x] # NoRow
        BY <1>7, <1>9, <3>1 DEF RowsFirst
      <4> QED BY <1>4, <1>7, <2>1, <4>1, <4>2 DEF RowsFirst
    <3>3. ~transfers[t].canonical /\ purchases[t].status = "NONE"
      BY <1>2, <1>7, <2>3 DEF RowsFirst, NoRow
    <3>4. \A x : x \in Credited' <=> x \in Credited \/ (x = t /\ ~(t \in Sales /\ "sale" \in members))
      BY <1>2, <1>4, <1>9, <2>1, <3>1, <3>3 DEF Credited, Canonical
    <3>5. t \notin Credited
      BY <3>3 DEF Credited, Canonical
    <3>6. CASE t \in Sales /\ "sale" \in members
      <4>1. Credited' = Credited
        BY <3>4, <3>6
      <4> QED BY <1>10, <2>3, <3>2, <3>6, <4>1
    <3>7. CASE ~(t \in Sales /\ "sale" \in members)
      <4>1. Credited' = Credited \cup {t}
        BY <3>4, <3>7
      <4> QED BY <1>11, <2>3, <3>2, <3>5, <3>7, <4>1
    <3> QED BY <3>6, <3>7
  <2> QED BY <2>1, <2>2, <2>3
<1>13. CASE PurchaseNoted(l)
  <2>1. UNCHANGED <<transfers, purchases, snapshot>> /\ purchased' = [purchased EXCEPT ![t] = r]
    BY <1>1, <1>3, <1>8, <1>13 DEF PurchaseNoted, Noted
  <2>2. purchased'[t] = r /\ \A x \in Txs : x # t => purchased'[x] = purchased[x]
    BY <1>2, <2>1
  <2>3. RowsFirst'
    BY <1>4, <1>7, <1>9, <2>1, <2>2 DEF RowsFirst
  <2>4. Credited' = Credited
    BY <1>4, <2>1 DEF Credited, Canonical
  <2> QED BY <1>10, <2>1, <2>3, <2>4
<1>14. CASE PurchaseApplied(l)
  <2>1. PICK p : p = [at |-> h, hash |-> 0, status |-> "CONFIRMED"]
    OBVIOUS
  <2>2. /\ UNCHANGED <<transfers, purchased>> /\ l[1] = "sale"
        /\ \/ purchases' = purchases /\ snapshot' = snapshot
           \/ purchases[t].status = "NONE" /\ purchases' = [purchases EXCEPT ![t] = p] /\ snapshot'.amount = snapshot.amount + 1
    BY <1>1, <1>3, <1>14, <2>1, <1>0, ProcessLogCases DEF PurchaseApplied, ApplyPurchase, Unmarked, Credit
  <2>3. CASE purchases' = purchases /\ snapshot' = snapshot
    <3>1. RowsFirst'
      BY <1>4, <1>7, <2>2, <2>3 DEF RowsFirst
    <3>2. Credited' = Credited
      BY <1>4, <2>2, <2>3 DEF Credited, Canonical
    <3> QED BY <1>10, <2>3, <3>1, <3>2
  <2>4. CASE purchases[t].status = "NONE" /\ purchases' = [purchases EXCEPT ![t] = p] /\ snapshot'.amount = snapshot.amount + 1
    <3>1. purchases'[t].status = "CONFIRMED" /\ \A x \in Txs : x # t => purchases'[x] = purchases[x]
      BY <1>2, <2>1, <2>4
    <3>2. transfers[t] # NoRow
      BY <1>1, <1>3, <2>2, MintBeforePurchase DEF Unforked
    <3>3. RowsFirst'
      BY <1>4, <1>7, <2>2, <3>1, <3>2 DEF RowsFirst
    <3>4. transfers[t].canonical /\ t \in Sales /\ "sale" \in members
      BY <1>2, <1>7, <2>2, <3>2 DEF RowsFirst, Logs
    <3>5. Credited' = Credited \cup {t} /\ t \notin Credited
      BY <1>2, <1>4, <2>2, <2>4, <3>1, <3>4 DEF Credited, Canonical
    <3> QED BY <1>11, <2>4, <3>3, <3>5
  <2> QED BY <2>2, <2>3, <2>4
<1> QED BY <1>0, <1>12, <1>13, <1>14, ProcessLogCases

LEMMA UnforkedSame == ASSUME Unforked, UNCHANGED vars PROVE Unforked'
<1>1. UNCHANGED <<configs, chain, transfers, purchased, purchases, snapshot, job, checkpoint, worker>>
  BY DEF vars
<1>2. members' = members /\ Admitted' = Admitted /\ (\A m : Logs(m)' = Logs(m)) /\ RowsFirst'
  BY <1>1 DEF members, Admitted, Logs, Unforked, RowsFirst
<1>3. Credited' = Credited
  BY <1>1, <1>2 DEF Credited, Canonical
<1>4. Unturned'
  BY <1>1, <1>2 DEF Unforked, Unturned
<1>5. BelowDone'
  BY <1>1, <1>2 DEF Unforked, BelowDone, Done, RowOf
<1>6. ChunkDone' /\ OneAtATime'
  BY <1>1, <1>2 DEF Unforked, ChunkDone, OneAtATime, Done, RowOf, Pending
<1> QED BY <1>1, <1>2, <1>3, <1>4, <1>5, <1>6 DEF Unforked

LEMMA UnforkedStays ==
  ASSUME IndexerAssumption, Shaped, ChainSound, BeforeForks, [Next]_vars PROVE BeforeForks'
<1> SUFFICES ASSUME forks' = 0 PROVE Unforked'
  BY DEF BeforeForks
<1>0. TypeOK /\ CycleShaped /\ forks \in Nat
  BY DEF Shaped, TypeOK
<1>1. \A h \in Heights : ~Reorg(h)
  BY <1>0 DEF Reorg
<1>2. forks = 0
  <2>1. UNCHANGED vars => forks' = forks
    BY DEF vars
  <2>2. \A txs \in SUBSET Txs : Mine(txs) => forks' = forks
    BY DEF Mine
  <2>3. Cycle => forks' = forks
    BY DEF Cycle, BeginRebuild, Derive, Replay, ReadTip, Verify, Admit, FetchLogs, FetchBlock, RegressGroup, Advance, FinishScan, ProcessLog, world
  <2>4. Fail \/ FailToAdmit \/ FailToRebuild \/ Crash => forks' = forks
    BY DEF Fail, FailToAdmit, FailToRebuild, Crash
  <2> QED BY <1>1, <2>1, <2>2, <2>3, <2>4 DEF Next
<1>3. Unforked
  BY <1>2 DEF BeforeForks
<1>4. worker.step \notin {"regress", "rebuild", "rebuildAfter"} /\ job = "NONE"
  BY <1>3 DEF Unforked, Unturned
<1>5. ~BeginRebuild /\ ~Derive /\ ~Replay /\ ~FailToRebuild /\ ~RegressGroup
  BY <1>4 DEF BeginRebuild, Derive, Replay, FailToRebuild, RegressGroup, Rebuildable
<1>6. ~Verify
  <2>1. worker.step = "admit" => Joining \in members
    BY <1>0, JoiningIsOne
  <2>2. worker.step = "admit" => Diverged(Joining) = {}
    BY <1>2, <2>1, NothingToRewind
  <2> QED BY <2>2 DEF Verify
<1>7. CASE Cycle
  <2>1. \A l \in worker.due : ProcessLog(l) => Unforked'
    BY <1>2, <1>3, UnforkedProcessLog
  <2>2. ReadTip \/ Admit \/ FinishScan \/ Advance => Unforked'
    BY <1>3, UnforkedReadTip, UnforkedAdmit, UnforkedFinishScan, UnforkedAdvance
  <2>3. FetchLogs \/ FetchBlock => Unforked'
    BY <1>2, <1>3, UnforkedFetchLogs, UnforkedFetchBlock
  <2> QED BY <1>5, <1>6, <1>7, <2>1, <2>2, <2>3 DEF Cycle
<1>8. CASE Fail \/ FailToAdmit \/ Crash
  BY <1>3, <1>8, UnforkedStopped
<1>9. \A txs \in SUBSET Txs : Mine(txs) => Unforked'
  BY <1>2, <1>3, UnforkedMine
<1>10. CASE UNCHANGED vars
  BY <1>3, <1>10, UnforkedSame
<1> QED BY <1>1, <1>5, <1>7, <1>8, <1>9, <1>10 DEF Next

-----------------------------------------------------------------------------
\* Unharmed and before a reorganisation, contracts that are scanned together advance together.
LEMMA TogetherFirst == ASSUME IndexerAssumption, Init PROVE Together
<1>1. worker.step = "idle" /\ (\A m \in members : checkpoint[m].next = 1) /\ \A t \in Txs : transfers[t] = NoRow
  BY IdleFields DEF Init
<1> QED BY <1>1 DEF Together

\* A step between chunks that moves no checkpoint.
LEMMA TogetherBetween ==
  ASSUME Together, UNCHANGED <<configs, transfers>>, worker.step # "block", worker'.step # "block",
         \A m \in members : checkpoint'[m].next = checkpoint[m].next
  PROVE  Together'
<1>1. members' = members
  BY DEF members
<1> QED BY <1>1 DEF Together

LEMMA TogetherFetchLogs == ASSUME IndexerAssumption, Shaped, Unforked, Together, FetchLogs PROVE Together'
<1>0. TypeOK /\ CycleShaped
  BY DEF Shaped
<1>1. /\ worker.step = "scan" /\ ActiveMembers # {} /\ UNCHANGED <<configs, transfers, checkpoint>>
      /\ worker'.step = "block" /\ worker'.end = ChunkEnd
  BY <1>0, FetchedKnown DEF FetchLogs, world, rows
<1>2. PICK m \in ActiveMembers : Start = worker.next[m]
  BY <1>0, <1>1, ChunkKnown
<1>3. Start = checkpoint[m].next /\ m \in members /\ Start \in 1..ChunkEnd
  BY <1>0, <1>1, <1>2, ChunkKnown DEF Unforked, Unturned, ActiveMembers, Admitted
<1>4. \A k \in members : checkpoint[k].next = Start
  BY <1>1, <1>3 DEF Together
<1>5. members' = members
  BY <1>1 DEF members
<1> QED BY <1>1, <1>3, <1>4, <1>5 DEF Together

LEMMA TogetherFetchBlock == ASSUME IndexerAssumption, Shaped, ChainSound, Together, forks = 0, FetchBlock PROVE Together'
<1>0. TypeOK /\ CycleShaped
  BY DEF Shaped
<1>1. PICK n : n = NextBlock
  OBVIOUS
<1>2. n \in DOMAIN chain /\ n \in Heights
  BY <1>0, <1>1, FetchBlockKnown, ChainTypes
<1>3. blocks[n] \in {None, chain[n].hash}
  <2>1. blocks[n] # None => n \in Recorded
    BY <1>2 DEF Recorded
  <2> QED BY <1>0, <2>1, AllAgree DEF Agrees
<1>4. worker.step = "block" /\ worker'.step = "block" /\ worker'.end = worker.end /\ UNCHANGED <<configs, transfers, checkpoint>>
  BY <1>0, <1>1, <1>3, FetchBlockKnown
<1>5. members' = members
  BY <1>4 DEF members
<1> QED BY <1>4, <1>5 DEF Together

LEMMA TogetherProcessLog ==
  ASSUME IndexerAssumption, Shaped, Together, NEW l \in worker.due, ProcessLog(l) PROVE Together'
<1>0. TypeOK /\ CycleShaped
  BY DEF Shaped
<1>1. worker.step = "block" /\ UNCHANGED <<worker.step, worker.end, configs, checkpoint>> /\ members' = members
  BY <1>0, ProcessLogKnown DEF members
<1>2. \A t \in Txs : \/ transfers'[t] = transfers[t]
                     \/ transfers'[t].at <= worker.end
  <2>1. l[2] <= worker.end /\ l[3] \in Txs /\ transfers \in [Txs -> Row]
    BY <1>0, DueKnown DEF TypeOK, RowsTyped
  <2>2. transfers' = transfers \/ transfers' = [transfers EXCEPT ![l[3]] = [at |-> l[2], hash |-> l[4], canonical |-> TRUE]]
    BY <1>0, ProcessLogCases DEF MintApplied, ApplyTransfer, PurchaseNoted, PurchaseApplied, ProcessLog
  <2> QED BY <2>1, <2>2
<1> QED BY <1>1, <1>2 DEF Together

LEMMA TogetherAdvance == ASSUME IndexerAssumption, Shaped, Unforked, Together, Advance PROVE Together'
<1>0. TypeOK /\ CycleShaped
  BY DEF Shaped
<1>1. PICK n : n = FirstOf(Participating)
  OBVIOUS
<1>2. /\ n \in members /\ n \in Participating /\ worker.step = "block"
      /\ checkpoint' = [checkpoint EXCEPT ![n] = [@ EXCEPT !.next = worker.end + 1, !.last = worker.end, !.status = "RUNNING"]]
      /\ (Participating = {n} => worker'.step = "scan")
      /\ (Participating # {n} => worker'.step = "block" /\ worker'.end = worker.end)
      /\ UNCHANGED <<configs, transfers>>
  BY <1>0, <1>1, AdvanceKnown
<1>3. checkpoint'[n].next = worker.end + 1 /\ \A k \in members : k # n => checkpoint'[k].next = checkpoint[k].next
  BY <1>0, <1>2 DEF TypeOK, CheckpointType
<1>4. /\ Admitted = members /\ (\A m \in members : worker.next[m] = checkpoint[m].next) /\ members' = members
      /\ worker.end \in Nat
  BY <1>0, <1>2, WorkerTypes DEF CycleShaped, Admission, Scanning, Unforked, Unturned, members
<1>5. PICK b \in 1..worker.end : \A m \in members : checkpoint[m].next \in {b, worker.end + 1}
  BY <1>2 DEF Together
<1>6. \A m \in members : checkpoint'[m].next \in {b, worker.end + 1}
  BY <1>3, <1>5
<1>7. \A t \in Txs : transfers[t].at \in Nat
  BY <1>0 DEF TypeOK, RowsTyped, Row
<1>10. \A t \in Txs : transfers[t] # NoRow => transfers[t].at <= worker.end
  <2>1. \A m \in members : checkpoint[m].next <= worker.end + 1 /\ checkpoint[m].next \in Nat
    BY <1>4, <1>5
  <2>2. \A t \in Txs : transfers[t] # NoRow => transfers[t].at <= worker.end \/ \E m \in members : transfers[t].at < checkpoint[m].next
    BY DEF Together
  <2> QED BY <1>4, <1>7, <2>1, <2>2
<1>8. CASE Participating = {n}
  <2>1. \A m \in members : m # n => checkpoint[m].next = worker.end + 1
    BY <1>4, <1>5, <1>8 DEF Participating
  <2>2. \A m \in members : checkpoint'[m].next = worker.end + 1
    BY <1>3, <2>1
  <2>3. \A t \in Txs : transfers[t] # NoRow => transfers[t].at < worker.end + 1
    BY <1>4, <1>7, <1>10
  <2> QED BY <1>2, <1>4, <1>8, <2>2, <2>3 DEF Together
<1>9. CASE Participating # {n}
  <2> QED BY <1>2, <1>4, <1>5, <1>6, <1>9, <1>10 DEF Together
<1> QED BY <1>8, <1>9

LEMMA TogetherStays ==
  ASSUME IndexerAssumption, Shaped, ChainSound, BeforeForks, TogetherUnharmed, [Next]_vars PROVE TogetherUnharmed'
<1> SUFFICES ASSUME forks' = 0, Unharmed' PROVE Together'
  BY DEF TogetherUnharmed
<1>0. TypeOK /\ CycleShaped /\ forks \in Nat
  BY DEF Shaped, TypeOK
<1>1. Unharmed /\ ~Fail /\ ~FailToAdmit /\ ~FailToRebuild /\ ~Crash
  BY <1>0, UnharmedSo
<1>2. (\A h \in Heights : ~Reorg(h)) /\ forks = 0
  <2>1. \A h \in Heights : ~Reorg(h)
    BY <1>0 DEF Reorg
  <2>2. UNCHANGED vars => forks' = forks
    BY DEF vars
  <2>3. \A txs \in SUBSET Txs : Mine(txs) => forks' = forks
    BY DEF Mine
  <2>4. Cycle => forks' = forks
    BY DEF Cycle, BeginRebuild, Derive, Replay, ReadTip, Verify, Admit, FetchLogs, FetchBlock, RegressGroup, Advance, FinishScan, ProcessLog, world
  <2> QED BY <1>1, <2>1, <2>2, <2>3, <2>4 DEF Next
<1>3. Unforked /\ Together
  BY <1>1, <1>2 DEF BeforeForks, TogetherUnharmed
<1>4. worker.step \notin {"regress", "rebuild", "rebuildAfter"} /\ job = "NONE" /\ worker.from = 0
  BY <1>3 DEF Unforked, Unturned
<1>5. ~BeginRebuild /\ ~Derive /\ ~Replay /\ ~RegressGroup
  BY <1>4 DEF BeginRebuild, Derive, Replay, RegressGroup, Rebuildable
<1>6. ~Verify
  <2>1. worker.step = "admit" => Joining \in members
    BY <1>0, JoiningIsOne
  <2>2. worker.step = "admit" => Diverged(Joining) = {}
    BY <1>2, <2>1, NothingToRewind
  <2> QED BY <2>2 DEF Verify
<1>7. ReadTip => Together'
  <2>1. ReadTip => worker.step # "block" /\ worker'.step # "block" /\ UNCHANGED <<configs, transfers, checkpoint>>
    BY <1>0 DEF ReadTip, world, rows, TypeOK, WorkerType
  <2> QED BY <1>3, <2>1, TogetherBetween
<1>8. Admit => Together'
  <2>1. PICK m : m = Joining
    OBVIOUS
  <2>2. Admit => /\ worker.step # "block" /\ worker'.step # "block" /\ UNCHANGED <<configs, transfers>>
                 /\ \A k \in members : checkpoint'[k].next = checkpoint[k].next
    BY <1>0, <1>4, <2>1, AdmitKnown
  <2> QED BY <1>3, <2>2, TogetherBetween
<1>9. FinishScan => Together'
  <2>1. FinishScan => /\ worker.step # "block" /\ worker'.step # "block" /\ UNCHANGED <<configs, transfers>>
                      /\ \A k \in members : checkpoint'[k].next = checkpoint[k].next
    BY <1>0, FinishScanKnown
  <2> QED BY <1>3, <2>1, TogetherBetween
<1>10. CASE Cycle
  <2>1. \A l \in worker.due : ProcessLog(l) => Together'
    BY <1>3, TogetherProcessLog
  <2>2. FetchLogs \/ FetchBlock \/ Advance => Together'
    BY <1>2, <1>3, TogetherFetchLogs, TogetherFetchBlock, TogetherAdvance
  <2> QED BY <1>5, <1>6, <1>7, <1>8, <1>9, <1>10, <2>1, <2>2 DEF Cycle
<1>11. ASSUME NEW txs \in SUBSET Txs, Mine(txs) PROVE Together'
  <2>1. worker.step = "idle" /\ UNCHANGED <<configs, transfers, checkpoint, worker>>
    BY <1>0, <1>11, MineKnown
  <2> QED BY <1>3, <2>1, TogetherBetween
<1>12. CASE UNCHANGED vars
  <2>1. UNCHANGED <<configs, transfers, checkpoint, worker>> /\ members' = members
    BY <1>12 DEF vars, members
  <2> QED BY <1>3, <2>1 DEF Together
<1> QED BY <1>1, <1>2, <1>10, <1>11, <1>12 DEF Next

\* So between cycles every sale that was minted was also credited.
LEMMA CreditedWhole ==
  ASSUME IndexerAssumption, Shaped, Unforked, Together, Quiet PROVE Credited = Canonical(transfers)
<1>0. TypeOK /\ CycleShaped
  BY DEF Shaped
<1>1. ASSUME NEW t \in Canonical(transfers), t \in Sales, "sale" \in members PROVE purchases[t].status # "NONE"
  <2>1. t \in Txs /\ transfers[t] # NoRow
    BY <1>1 DEF Canonical, NoRow
  <2>2. transfers[t].at \in DOMAIN chain /\ t \in chain[transfers[t].at].txs
    BY <2>1 DEF Unforked, RowsFirst
  <2>3. transfers[t].at < checkpoint["sale"].next
    BY <1>1, <2>1 DEF Together, Quiet
  <2>4. t \in Logs("sale")
    BY <1>1 DEF Logs
  <2>5. Done("sale", t)
    BY <1>1, <2>2, <2>3, <2>4 DEF Unforked, BelowDone
  <2> QED BY <2>5 DEF Done
<1> QED BY <1>1 DEF Credited

-----------------------------------------------------------------------------
\* A release that is indexed alone: nothing is missing exactly when all is done below its checkpoint.
LEMMA OnlyRelease ==
  ASSUME IndexerAssumption, TypeOK, Len(configs) = 1
  PROVE  members = {"release"} /\ Logs("release") = Txs /\ \A t : Done("release", t) <=> transfers[t] # NoRow
<1>1. configs \in Seq({"release", "sale"}) /\ "release" \in ToSet(configs)
  BY DEF IndexerAssumption, TypeOK
<1>2. ToSet(configs) = {configs[1]}
  BY <1>1 DEF ToSet
<1> QED BY <1>1, <1>2 DEF members, Logs, Done, RowOf

LEMMA NothingMissing ==
  ASSUME IndexerAssumption, TypeOK, Len(configs) = 1 PROVE BelowDone <=> MissingRows = {}
<1>1. members = {"release"} /\ Logs("release") = Txs /\ \A t : Done("release", t) <=> transfers[t] # NoRow
  BY OnlyRelease
<1>2. \A h \in DOMAIN chain : chain[h].txs \cap Txs = chain[h].txs
  BY ChainTypes
<1>3. BelowDone <=> \A h \in DOMAIN chain : h < checkpoint["release"].next => \A t \in chain[h].txs : transfers[t] # NoRow
  BY <1>1, <1>2 DEF BelowDone
<1> QED BY <1>3 DEF MissingRows

\* The same of the next state.
LEMMA NothingMissingNext ==
  ASSUME IndexerAssumption, TypeOK', Len(configs') = 1, BelowDone' PROVE MissingRows' = {}
<1>1. configs' \in Seq({"release", "sale"}) /\ "release" \in ToSet(configs')
  BY DEF IndexerAssumption, TypeOK
<1>2. ToSet(configs') = {configs'[1]}
  BY <1>1 DEF ToSet
<1>3. members' = {"release"} /\ Logs("release")' = Txs /\ \A t : Done("release", t)' <=> transfers'[t] # NoRow
  BY <1>1, <1>2 DEF members, Logs, Done, RowOf
<1>4. \A h \in DOMAIN chain' : chain'[h].txs \subseteq Txs
  <2>1. chain' \in Seq(Block)
    BY DEF TypeOK, ChainTyped, Block
  <2>2. \A h \in DOMAIN chain' : chain'[h] \in Block
    BY <2>1
  <2> QED BY <2>2 DEF Block
<1> QED BY <1>3, <1>4 DEF BelowDone, MissingRows

LEMMA AloneKnown ==
  ASSUME IndexerAssumption, Shaped, Straight, Len(configs) = 1
  PROVE  /\ members = {"release"} /\ checkpoint["release"].last = checkpoint["release"].next - 1
         /\ checkpoint["release"].next \in Nat \ {0} /\ checkpoint["release"].last \in Nat
         /\ ~Busy => \A h \in Recorded : h <= checkpoint["release"].last
         /\ worker.step # "admit" => worker.from = 0
         /\ worker.step \in {"admit"} \/ ~Scanning => Admitted = {}
         /\ Scanning => Admitted = {"release"} /\ worker.next["release"] = checkpoint["release"].next
<1>0. TypeOK /\ CycleShaped
  BY DEF Shaped
<1>1. members = {"release"}
  BY <1>0, OnlyRelease
<1>2. checkpoint["release"].next \in Nat \ {0} /\ checkpoint["release"].last \in Nat /\ checkpoint["release"].last = checkpoint["release"].next - 1
  BY <1>0, <1>1, WorkerTypes DEF Straight, Level
<1>3. ~Busy => \A h \in Recorded : h <= checkpoint["release"].last
  BY <1>1 DEF Straight, RecordedCovered
<1>4. Admitted \subseteq members
  BY DEF Admitted
<1>5. (worker.step # "admit" => worker.from = 0) /\ (worker.step \in {"admit"} \/ ~Scanning => Admitted = {})
  BY <1>0, <1>1, <1>4 DEF CycleShaped, Admission, Scanning
<1>6. Scanning => Admitted = {"release"} /\ worker.next["release"] = checkpoint["release"].next
  BY <1>0, <1>1 DEF CycleShaped, Admission, Straight, Level
<1> QED BY <1>1, <1>2, <1>3, <1>5, <1>6

\* Every step of an unharmed history of a release alone keeps it complete, or what is missing within the next
\* rewind.
LEMMA AloneFirst == ASSUME IndexerAssumption, Init PROVE Alone
<1>1. /\ DOMAIN chain = {} /\ (\A h \in Heights : blocks[h] = None) /\ worker = Idle
      /\ (\A t \in Txs : transfers[t] = NoRow) /\ checkpoint = [m \in members |-> [next |-> 1, last |-> 0, status |-> "NONE", succeeded |-> FALSE]]
  BY DEF Init
<1>2. Recorded = {} /\ MissingRows = {}
  BY <1>1 DEF Recorded, MissingRows
<1>3. "release" \in members
  BY MembersKnown DEF Init
<1>4. LastRecorded
  BY <1>1, <1>3, IdleFields DEF LastRecorded
<1>5. RowsRight /\ MissingSeen /\ (Scanning => BelowDone) /\ ChunkDone /\ OneAtATime /\ LowestStands
  BY <1>1, <1>2, IdleFields DEF RowsRight, MissingSeen, Scanning, ChunkDone, OneAtATime, LowestStands
<1> QED BY <1>4, <1>5 DEF Alone

LEMMA AloneMine ==
  ASSUME IndexerAssumption, Shaped, ChainSound, Straight, Alone, Len(configs) = 1, NEW txs \in SUBSET Txs, Mine(txs), perils' = {} PROVE Alone'
<1>0. TypeOK /\ CycleShaped
  BY DEF Shaped
<1>1. /\ worker.step = "idle" /\ DOMAIN chain' = 1..(Len(chain) + 1) /\ DOMAIN chain = 1..Len(chain) /\ Len(chain) \in Nat
      /\ (\A h \in DOMAIN chain : chain'[h] = chain[h]) /\ chain'[Len(chain) + 1].txs = txs /\ (\A t \in txs : transfers[t] = NoRow)
      /\ UNCHANGED <<configs, blocks, transfers, checkpoint, worker>>
  <2>1. chain'[Len(chain) + 1] = [hash |-> forks, txs |-> txs]
    BY <1>0, MineKnown
  <2>2. chain'[Len(chain) + 1].txs = txs
    BY ONLY <2>1
  <2> QED BY <1>0, <2>2, MineKnown, ChainTypes
<1>2. worker.from = 0 /\ worker.due = {} /\ "release" \in members /\ Recorded' = Recorded
  BY <1>0, <1>1, RestShape, MembersKnown DEF Recorded, TypeOK
<1>3. checkpoint["release"].next <= Len(chain) + 1 /\ checkpoint["release"].next \in Nat
  BY <1>0, <1>2, CheckpointBounds, WorkerTypes
<1>4. \A h \in Recorded : Agrees(h)' <=> Agrees(h)
  <2>1. \A h \in Recorded : h \in DOMAIN chain
    BY DEF ChainSound
  <2> QED BY <1>1, <2>1 DEF Agrees
<1>5. \A h \in DOMAIN chain' : h \in DOMAIN chain \/ h = Len(chain) + 1
  BY <1>1
<1>6. RowsRight'
  BY <1>1, <1>5 DEF Alone, RowsRight
<1>7. MissingSeen'
  <2>1. MissingRows' \subseteq MissingRows
    BY <1>1, <1>3, <1>5 DEF MissingRows
  <2>2. \A h : Caught(h) => Caught(h)'
    BY <1>2, <1>4 DEF Caught
  <2> QED BY <1>1, <1>2, <2>1, <2>2 DEF Alone, MissingSeen
<1>8. ~Scanning' /\ ChunkDone' /\ OneAtATime'
  BY <1>1, <1>2, ChunkOff DEF Scanning
<1>9. LowestStands'
  BY <1>2, <1>4 DEF Alone, LowestStands
<1>10. LastRecorded'
  BY <1>1, <1>2 DEF Alone, LastRecorded
<1> QED BY <1>6, <1>7, <1>8, <1>9, <1>10 DEF Alone

LEMMA AloneReorg ==
  ASSUME IndexerAssumption, Shaped, ChainSound, Straight, Alone, Len(configs) = 1, NEW h \in Heights, Reorg(h), worker.step = "idle", perils' = {} PROVE Alone'
<1>0. TypeOK /\ CycleShaped
  BY DEF Shaped
<1>1. /\ DOMAIN chain' = DOMAIN chain /\ forks \in Nat /\ h \in Nat
      /\ (\A i \in DOMAIN chain : i < h => chain'[i] = chain[i])
      /\ (\A i \in DOMAIN chain : i >= h => chain'[i].hash = forks + 1 /\ \A t \in chain'[i].txs : transfers[t] = NoRow)
      /\ (\E i \in Recorded : i < h)
      /\ UNCHANGED <<configs, blocks, transfers, checkpoint, worker>>
  BY <1>0, ReorgKnown DEF TypeOK, Heights
<1>2. worker.from = 0 /\ worker.due = {} /\ Recorded' = Recorded
  BY <1>0, <1>1, RestShape DEF Recorded
<1>3. \A i \in Recorded : i \in DOMAIN chain /\ i \in Nat /\ (i < h \/ i >= h) /\ (Agrees(i)' <=> Agrees(i) /\ i < h)
  <2>0. forks \in Nat /\ h \in Nat
    BY <1>1
  <2>1. \A i \in Recorded : i \in DOMAIN chain /\ i \in Nat /\ blocks[i] \in Int /\ blocks[i] # forks + 1 /\ (i < h \/ i >= h)
    BY <1>0, <2>0, ChainTypes DEF ChainSound, TypeOK, Recorded, None
  <2> QED BY <1>1, <2>1 DEF Agrees
<1>4. /\ checkpoint["release"].last = checkpoint["release"].next - 1 /\ checkpoint["release"].next \in Nat
      /\ checkpoint["release"].last \in Nat
  BY AloneKnown
<1>5. \A i \in DOMAIN chain : i \in Nat /\ i > 0 /\ (i < h \/ i >= h)
  BY <1>0, <1>1, ChainTypes
<1>6. RowsRight'
  BY <1>1, <1>5 DEF Alone, RowsRight
<1>7. ASSUME NEW k \in MissingRows' PROVE Caught(k)'
  <2>1. k \in DOMAIN chain /\ k < checkpoint["release"].next /\ \E t \in chain'[k].txs : transfers[t] = NoRow
    BY <1>1 DEF MissingRows
  <2>2. CASE k < h
    <3>1. k \in MissingRows
      BY <1>1, <2>1, <2>2 DEF MissingRows
    <3>2. Caught(k)
      BY <1>2, <3>1 DEF Alone, MissingSeen
    <3> QED BY <1>2, <1>3, <3>2 DEF Caught
  <2>3. CASE k >= h
    <3>1. checkpoint["release"].last > 0 /\ checkpoint["release"].last >= k
      BY <1>4, <1>5, <2>1
    <3>2. checkpoint["release"].last \in Recorded
      BY <1>2, <3>1 DEF Alone, LastRecorded
    <3>3. ~Agrees(checkpoint["release"].last)'
      BY <1>1, <1>3, <1>5, <2>1, <2>3, <3>1, <3>2
    <3>4. \A a \in Recorded : Agrees(a)' => a < k
      BY <1>1, <1>3, <1>5, <2>1, <2>3
    <3> QED BY <1>1, <1>2, <3>2, <3>3, <3>4 DEF Caught
  <2> QED BY <1>5, <2>1, <2>2, <2>3
<1>8. MissingSeen'
  BY <1>1, <1>2, <1>7 DEF MissingSeen
<1>9. ~Scanning' /\ ChunkDone' /\ OneAtATime'
  BY <1>1, <1>2, ChunkOff DEF Scanning
<1>10. LowestStands'
  <2>1. ASSUME NEW r \in Recorded PROVE \E k \in Recorded : k <= r /\ Agrees(k)'
    <3>1. PICK i \in Recorded : i < h
      BY <1>1
    <3>2. CASE r < h
      <4>1. PICK k \in Recorded : k <= r /\ Agrees(k)
        BY DEF Alone, LowestStands
      <4> QED BY <1>1, <1>3, <3>2, <4>1
    <3>3. CASE r >= h
      <4>1. PICK k \in Recorded : k <= i /\ Agrees(k)
        BY DEF Alone, LowestStands
      <4> QED BY <1>1, <1>3, <3>1, <3>3, <4>1
    <3> QED BY <1>3, <3>2, <3>3
  <2> QED BY <1>2, <2>1 DEF LowestStands
<1>11. LastRecorded'
  BY <1>1, <1>2 DEF Alone, LastRecorded
<1> QED BY <1>6, <1>8, <1>9, <1>10, <1>11 DEF Alone

\* A step between cycles, or before the admission.
LEMMA AloneAtRest ==
  ASSUME IndexerAssumption, Alone, UNCHANGED <<configs, chain, blocks, transfers>>,
         \A k \in {"next", "last"} : checkpoint'["release"][k] = checkpoint["release"][k],
         worker.from = 0, worker'.from = 0, worker'.due = {},
         worker'.step \in {"idle", "rebuild", "rebuildAfter", "tip", "admit"},
         checkpoint["release"].last > 0 => checkpoint["release"].last \in Recorded
  PROVE  Alone'
<1>1. Recorded' = Recorded /\ MissingRows' = MissingRows /\ (\A h : Agrees(h)' <=> Agrees(h))
  <2>1. checkpoint'["release"].next = checkpoint["release"].next
    OBVIOUS
  <2> QED BY <2>1 DEF Recorded, MissingRows, Agrees
<1>2. RowsRight' /\ LowestStands'
  BY <1>1 DEF Alone, RowsRight, LowestStands
<1>3. MissingSeen'
  BY <1>1 DEF Alone, MissingSeen, Caught
<1>4. ~Scanning' /\ ChunkDone' /\ OneAtATime'
  BY ChunkOff DEF Scanning
<1>5. LastRecorded'
  <2>1. checkpoint'["release"].last = checkpoint["release"].last
    OBVIOUS
  <2> QED BY <1>1, <2>1 DEF Alone, LastRecorded
<1> QED BY <1>2, <1>3, <1>4, <1>5 DEF Alone

LEMMA AloneRests ==
  ASSUME IndexerAssumption, Shaped, Alone, BeginRebuild \/ Derive \/ Replay \/ ReadTip PROVE Alone'
<1>0. TypeOK /\ CycleShaped
  BY DEF Shaped
<1>1. worker.step \in {"idle", "rebuild", "rebuildAfter", "tip"} /\ UNCHANGED <<configs, chain, blocks, transfers, checkpoint>>
  BY DEF BeginRebuild, Derive, Replay, ReadTip, world, rows
<1>2. /\ worker'.step \in {"idle", "rebuild", "rebuildAfter", "tip", "admit"}
      /\ UNCHANGED <<worker.from, worker.due>>
  BY <1>0 DEF BeginRebuild, Derive, Replay, ReadTip, TypeOK, WorkerType
<1>3. worker.from = 0 /\ worker.due = {}
  BY <1>0, <1>1, RestShape
<1>4. checkpoint["release"].last > 0 => checkpoint["release"].last \in Recorded
  BY <1>1, <1>3 DEF Alone, LastRecorded
<1> QED BY <1>1, <1>2, <1>3, <1>4, AloneAtRest

LEMMA AloneFinishScan ==
  ASSUME IndexerAssumption, Shaped, Straight, Alone, Len(configs) = 1, FinishScan PROVE Alone'
<1>0. TypeOK /\ CycleShaped
  BY DEF Shaped
<1>1. /\ worker.step = "scan" /\ (ActiveMembers = {} \/ worker.chunk >= MaxChunks)
      /\ worker'.step \in {"idle", "rebuildAfter"} /\ worker'.from = 0 /\ worker'.due = {}
      /\ (\A m \in members : checkpoint'[m].next = checkpoint[m].next)
      /\ (\A m \in members : checkpoint'[m].last \in {checkpoint[m].last, worker.next[m] - 1})
      /\ UNCHANGED <<configs, chain, blocks, transfers>>
  BY <1>0, FinishScanKnown
<1>2. /\ members = {"release"} /\ worker.from = 0 /\ worker.next["release"] = checkpoint["release"].next
      /\ checkpoint["release"].last = checkpoint["release"].next - 1
  BY <1>1, AloneKnown DEF Scanning
<1>3. checkpoint'["release"].next = checkpoint["release"].next /\ checkpoint'["release"].last = checkpoint["release"].last
  BY <1>1, <1>2
<1>4. worker.chunk \in Nat /\ MaxChunks \in Nat
  BY <1>0, WorkerTypes DEF IndexerAssumption
<1>5. checkpoint["release"].last > 0 => checkpoint["release"].last \in Recorded
  BY <1>1, <1>2, <1>4 DEF Alone, LastRecorded
<1> QED BY <1>1, <1>2, <1>3, <1>5, AloneAtRest

LEMMA AloneVerify ==
  ASSUME IndexerAssumption, Shaped, ChainSound, Straight, Alone, Len(configs) = 1, Verify PROVE Alone'
<1>0. TypeOK /\ CycleShaped /\ AgreementClosed
  BY DEF Shaped, Straight
<1>1. PICK f : f = RewindTo(Joining)
  OBVIOUS
<1>2. /\ worker.step = "admit" /\ worker.from = 0 /\ Joining \in members /\ Diverged(Joining) # {} /\ f \in Nat \ {0}
      /\ HandleReorg(f) /\ worker'.from = f /\ worker'.step = "admit" /\ worker'.due = worker.due
      /\ UNCHANGED <<configs, chain, checkpoint>>
  BY <1>0, <1>1, VerifyKnown
<1>3. /\ Joining = "release" /\ checkpoint["release"].last \in Nat /\ worker.due = {}
      /\ \A h \in Recorded : h <= checkpoint["release"].last
  BY <1>0, <1>2, AloneKnown DEF Busy, CycleShaped, Holding
<1>4. /\ (\A h \in Recorded : h < f => Agrees(h)) /\ (\A h \in Recorded : h >= f => ~Agrees(h))
      /\ (\E d \in Recorded : d <= checkpoint["release"].last /\ d >= f)
      /\ (Agreed("release") # {} => f - 1 \in Recorded /\ Agrees(f - 1))
  BY <1>0, <1>1, <1>2, <1>3, RewindSound
<1>5. \A h \in Recorded : h \in Nat \ {0} /\ h \in Heights
  BY DEF Recorded, Heights
<1>6. f - 1 \in Recorded /\ Agrees(f - 1)
  <2>1. PICK k \in Recorded : Agrees(k)
    BY <1>4 DEF Alone, LowestStands
  <2>2. k \in Agreed("release")
    BY <1>0, <1>2, <1>3, <2>1, AgreedAre
  <2> QED BY <1>4, <2>2
<1>7. /\ \A t \in Txs : /\ transfers'[t].at = transfers[t].at /\ transfers'[t].hash = transfers[t].hash
                        /\ (transfers'[t].canonical <=> transfers[t].canonical /\ transfers[t].at < f)
                        /\ (transfers'[t] = NoRow <=> transfers[t] = NoRow)
      /\ \A h \in Heights : blocks'[h] = IF h >= f THEN None ELSE blocks[h]
  BY <1>0, <1>2, OrphanEffects
<1>8. \A h : h \in Recorded' <=> h \in Recorded /\ h < f
  BY <1>2, <1>5, <1>7 DEF Recorded, Heights
<1>9. \A h \in Recorded' : Agrees(h)'
  BY <1>2, <1>4, <1>5, <1>7, <1>8 DEF Agrees
<1>10. RowsRight'
  <2>1. ASSUME NEW h \in DOMAIN chain, NEW t \in chain[h].txs, transfers'[t] # NoRow
        PROVE  transfers'[t].at = h /\ transfers'[t].canonical /\ transfers'[t].hash = chain[h].hash
    <3>1. t \in Txs /\ h \in Nat
      BY <1>0, ChainTypes
    <3>2. transfers[t].at = h /\ transfers[t].canonical /\ transfers[t].hash = chain[h].hash
      BY <1>7, <2>1, <3>1 DEF Alone, RowsRight
    <3>3. h \in Recorded /\ blocks[h] = chain[h].hash
      BY <3>1, <3>2 DEF Straight, RowsStand
    <3>4. h < f
      BY <1>2, <1>4, <3>1, <3>3 DEF Agrees
    <3> QED BY <1>7, <3>1, <3>2, <3>4
  <2> QED BY <1>2, <2>1 DEF RowsRight
<1>11. MissingSeen'
  <2>1. ASSUME NEW h \in MissingRows' PROVE f <= h
    <3>1. h \in MissingRows
      <4>1. \A k \in DOMAIN chain : chain[k].txs \subseteq Txs
        BY <1>0, ChainTypes
      <4> QED BY <1>2, <1>7, <4>1 DEF MissingRows
    <3>2. f - 1 < h /\ h \in Nat
      BY <1>0, <1>2, <1>6, <3>1, ChainTypes DEF Alone, MissingSeen, Caught, MissingRows
    <3> QED BY <1>2, <3>2
  <2> QED BY <1>2, <2>1 DEF MissingSeen
<1>12. ~Scanning' /\ ChunkDone' /\ OneAtATime'
  BY <1>2, <1>3, ChunkOff DEF Scanning
<1>13. LowestStands'
  BY <1>5, <1>8, <1>9 DEF LowestStands
<1>14. LastRecorded'
  <2>1. f <= checkpoint["release"].last /\ f - 1 \in Recorded'
    BY <1>2, <1>3, <1>4, <1>5, <1>6, <1>8
  <2> QED BY <1>2, <2>1 DEF LastRecorded
<1> QED BY <1>10, <1>11, <1>12, <1>13, <1>14 DEF Alone

LEMMA AloneAdmit ==
  ASSUME IndexerAssumption, Shaped, ChainSound, Straight, Alone, Len(configs) = 1, Admit, TypeOK' PROVE Alone'
<1>0. TypeOK /\ CycleShaped /\ AgreementClosed
  BY DEF Shaped, Straight
<1>1. PICK m : m = Joining
  OBVIOUS
<1>2. /\ worker.step = "admit" /\ m \in members /\ (worker.from = 0 => Diverged(m) = {})
      /\ checkpoint'[m].next = (IF worker.from = 0 THEN checkpoint[m].next ELSE worker.from)
      /\ checkpoint'[m].last = (IF worker.from = 0 THEN checkpoint[m].last ELSE worker.from - 1)
      /\ worker'.from = 0 /\ worker'.step = (IF Admitted \cup {m} = members THEN "scan" ELSE "admit")
      /\ worker'.due = worker.due /\ UNCHANGED <<configs, chain, blocks, transfers, purchased, purchases>>
  BY <1>0, <1>1, AdmitKnown
<1>3. /\ members = {"release"} /\ m = "release" /\ worker'.step = "scan" /\ members' = members
      /\ worker.due = {} /\ checkpoint["release"].last \in Nat /\ checkpoint["release"].next \in Nat
      /\ checkpoint["release"].last = checkpoint["release"].next - 1 /\ worker.from \in Nat
      /\ \A h \in Recorded : h <= checkpoint["release"].last
  <2>1. Admitted = {} /\ members = {"release"}
    BY <1>2, AloneKnown
  <2> QED BY <1>0, <1>2, <2>1, AloneKnown, WorkerTypes DEF Busy, CycleShaped, Holding, members
<1>4. Recorded' = Recorded /\ \A h : Agrees(h)' <=> Agrees(h)
  BY <1>2 DEF Recorded, Agrees
<1>5. \A h \in MissingRows' : FALSE
  <2>1. CASE worker.from = 0
    <3>1. MissingRows' = MissingRows
      BY <1>2, <1>3, <2>1 DEF MissingRows
    <3>2. \A h \in Recorded : Agrees(h)
      BY <1>0, <1>2, <1>3, <2>1, NotDiverged
    <3> QED BY <2>1, <3>1, <3>2 DEF Alone, MissingSeen, Caught
  <2>2. CASE worker.from # 0
    <3>1. ASSUME NEW h \in MissingRows' PROVE FALSE
      <4>1. h \in DOMAIN chain /\ h \in Nat /\ h < worker.from /\ \E t \in chain[h].txs : transfers[t] = NoRow
        BY <1>0, <1>2, <1>3, <2>2, ChainTypes DEF MissingRows
      <4>2. worker.from <= checkpoint["release"].last
        BY DEF Alone, LastRecorded
      <4>3. h \in MissingRows
        BY <1>3, <4>1, <4>2 DEF MissingRows
      <4>4. worker.from <= h
        BY <2>2, <4>3 DEF Alone, MissingSeen
      <4> QED BY <1>3, <4>1, <4>4
    <3> QED BY <3>1
  <2> QED BY <2>1, <2>2
<1>6. RowsRight' /\ LowestStands'
  BY <1>2, <1>4 DEF Alone, RowsRight, LowestStands
<1>7. MissingSeen'
  BY <1>5 DEF MissingSeen
<1>8. BelowDone'
  <2>1. Logs("release")' = Txs /\ \A t : Done("release", t)' <=> transfers'[t] # NoRow
    BY DEF Logs, Done, RowOf
  <2> QED BY <1>3, <1>5, <2>1 DEF BelowDone, MissingRows
<1>9. ChunkDone' /\ OneAtATime'
  BY <1>2, <1>3, ChunkOff
<1>10. LastRecorded'
  <2>1. checkpoint'["release"].last \in Nat /\ (checkpoint'["release"].last > 0 => checkpoint'["release"].last \in Recorded)
    BY <1>2, <1>3 DEF Alone, LastRecorded
  <2> QED BY <1>2, <1>3, <1>4, <2>1 DEF LastRecorded
<1> QED BY <1>6, <1>7, <1>8, <1>9, <1>10 DEF Alone

LEMMA AloneFetchLogs ==
  ASSUME IndexerAssumption, Shaped, Straight, Alone, Len(configs) = 1, FetchLogs PROVE Alone'
<1>0. TypeOK /\ CycleShaped
  BY DEF Shaped
<1>1. /\ worker.step = "scan" /\ UNCHANGED <<configs, chain, blocks, transfers, checkpoint>>
      /\ worker'.step = "block" /\ worker'.end = ChunkEnd /\ worker'.from = worker.from /\ worker'.chunk = worker.chunk /\ worker'.latest = worker.latest
      /\ worker'.todo = {l[2] : l \in worker'.logs} \cup (IF ChunkEnd >= Target \/ worker.chunk + 1 >= MaxChunks THEN {ChunkEnd} ELSE {})
  BY <1>0, FetchedKnown DEF FetchLogs, world, rows
<1>2. worker.from = 0 /\ checkpoint["release"].last \in Nat
  BY <1>1, AloneKnown
<1>3. Scanning /\ BelowDone /\ (\A m \in Admitted : worker.next[m] = checkpoint[m].next)
  BY <1>1 DEF Alone, Scanning, Straight, Level
<1>4. BelowDone' /\ ChunkDone' /\ OneAtATime'
  BY <1>3, ChunkFetched
<1>5. Recorded' = Recorded /\ MissingRows' = MissingRows /\ Target' = Target /\ (\A h : Agrees(h)' <=> Agrees(h))
  BY <1>1 DEF Recorded, MissingRows, Target, Agrees
<1>6. RowsRight' /\ LowestStands'
  BY <1>1, <1>5 DEF Alone, RowsRight, LowestStands
<1>7. MissingSeen'
  BY <1>1, <1>5 DEF Alone, MissingSeen, Caught
<1>8. LastRecorded'
  <2>1. ChunkEnd \in worker'.todo \/ (ChunkEnd < Target /\ worker.chunk + 1 < MaxChunks)
    <3>1. ChunkEnd \in Nat /\ Target \in Nat /\ worker.chunk \in Nat /\ MaxChunks \in Nat
      BY <1>0, ChunkKnown, WorkerTypes DEF FetchLogs, IndexerAssumption
    <3> QED BY <1>1, <3>1
  <2> QED BY <1>1, <1>2, <1>5, <2>1 DEF LastRecorded
<1> QED BY <1>4, <1>6, <1>7, <1>8 DEF Alone

LEMMA AloneFetchBlock ==
  ASSUME IndexerAssumption, Shaped, ChainSound, Straight, Alone, Len(configs) = 1, FetchBlock, TypeOK' PROVE Alone'
<1>0. TypeOK /\ CycleShaped
  BY DEF Shaped
<1>1. PICK n : n = NextBlock
  OBVIOUS
<1>2. worker'.step = "block" /\ Straight'
  BY StraightFetchBlock
<1>3. /\ worker.step = "block" /\ n \in DOMAIN chain /\ worker'.end = worker.end /\ worker'.from = worker.from /\ worker'.chunk = worker.chunk
      /\ worker'.latest = worker.latest /\ worker'.todo = worker.todo \ {n}
      /\ blocks' = [blocks EXCEPT ![n] = chain[n].hash]
      /\ UNCHANGED <<configs, chain, transfers, checkpoint>>
  BY <1>0, <1>1, <1>2, FetchBlockKnown
<1>4. worker.from = 0 /\ checkpoint["release"].last \in Nat
  BY <1>3, AloneKnown
<1>5. BelowDone' /\ ChunkDone' /\ OneAtATime'
  BY <1>2, <1>3, ChunkBlock DEF Alone, Scanning
<1>6. MissingRows' = {}
  BY <1>3, <1>5, NothingMissingNext
<1>7. \A h \in Recorded' : Agrees(h)'
  BY <1>2 DEF Straight, Walked, Scanning
<1>8. \A h : h \in Recorded' <=> h \in Recorded \/ h = n
  <2>1. n \in Heights /\ chain[n].hash \in Nat /\ blocks \in [Heights -> Nat \cup {None}]
    BY <1>0, <1>3, ChainTypes DEF TypeOK
  <2>2. blocks'[n] # None /\ \A h \in Heights : h # n => blocks'[h] = blocks[h]
    BY <1>3, <2>1 DEF None
  <2> QED BY <2>1, <2>2 DEF Recorded, Heights
<1>9. RowsRight'
  BY <1>3 DEF Alone, RowsRight
<1>10. MissingSeen'
  BY <1>6 DEF MissingSeen
<1>11. LowestStands'
  BY <1>7, <1>8 DEF LowestStands, Recorded, Heights
<1>12. LastRecorded'
  <2>1. Target' = Target
    BY <1>3 DEF Target
  <2>2. worker.end \in Recorded' \/ worker.end \in worker'.todo \/ (worker.end < Target /\ worker.chunk + 1 < MaxChunks)
    BY <1>3, <1>8 DEF Alone, LastRecorded
  <2> QED BY <1>2, <1>3, <1>4, <2>1, <2>2 DEF LastRecorded
<1> QED BY <1>5, <1>9, <1>10, <1>11, <1>12 DEF Alone

LEMMA AloneProcessLog ==
  ASSUME IndexerAssumption, Shaped, ChainSound, Straight, Alone, Len(configs) = 1, NEW l \in worker.due, ProcessLog(l), TypeOK' PROVE Alone'
<1>0. TypeOK /\ CycleShaped
  BY DEF Shaped
<1>1. /\ worker.step = "block"
      /\ UNCHANGED <<worker.step, worker.latest, worker.chunk, worker.end, worker.from, worker.todo>>
      /\ UNCHANGED <<configs, chain, blocks, checkpoint>>
  BY <1>0, ProcessLogKnown
<1>2. BelowDone' /\ ChunkDone' /\ OneAtATime'
  BY <1>1, ChunkProcessed DEF Alone, Scanning
<1>3. MissingRows' = {}
  BY <1>1, <1>2, NothingMissingNext
<1>4. Recorded' = Recorded /\ Target' = Target /\ (\A h : Agrees(h)' <=> Agrees(h))
  BY <1>1 DEF Recorded, Target, Agrees
<1>5. PICK t, h : t = l[3] /\ h = l[2]
  OBVIOUS
<1>6. /\ l[1] = "release" /\ t \in Txs /\ h \in DOMAIN chain /\ l[4] = chain[h].hash /\ t \in chain[h].txs
      /\ transfers \in [Txs -> Row]
  BY <1>0, <1>5, DueKnown, AloneKnown DEF Straight, LogsStand, TypeOK, RowsTyped
<1>7. transfers' = transfers \/ transfers' = [transfers EXCEPT ![t] = [at |-> h, hash |-> chain[h].hash, canonical |-> TRUE]]
  BY <1>0, <1>5, <1>6, ProcessLogCases DEF MintApplied, ApplyTransfer, PurchaseNoted, PurchaseApplied
<1>8. RowsRight'
  <2>1. ASSUME NEW k \in DOMAIN chain, NEW x \in chain[k].txs, transfers'[x] # NoRow
        PROVE  transfers'[x].at = k /\ transfers'[x].canonical /\ transfers'[x].hash = chain[k].hash
    <3>1. CASE transfers'[x] = transfers[x]
      BY <2>1, <3>1 DEF Alone, RowsRight
    <3>2. CASE transfers'[x] # transfers[x]
      <4>1. x \in Txs
        BY <1>0, ChainTypes
      <4>2. x = t /\ transfers'[x] = [at |-> h, hash |-> chain[h].hash, canonical |-> TRUE]
        BY <1>6, <1>7, <3>2, <4>1
      <4>3. k = h
        BY <1>6, <4>2 DEF ChainSound
      <4> QED BY <4>2, <4>3
    <3> QED BY <3>1, <3>2
  <2> QED BY <1>1, <2>1 DEF RowsRight
<1>9. MissingSeen'
  BY <1>3 DEF MissingSeen
<1>10. LowestStands'
  BY <1>4 DEF Alone, LowestStands
<1>11. LastRecorded'
  BY <1>1, <1>4 DEF Alone, LastRecorded
<1> QED BY <1>2, <1>8, <1>9, <1>10, <1>11 DEF Alone

LEMMA AloneAdvance ==
  ASSUME IndexerAssumption, Shaped, ChainSound, Straight, Alone, Len(configs) = 1, Advance, TypeOK' PROVE Alone'
<1>0. TypeOK /\ CycleShaped
  BY DEF Shaped
<1>1. PICK n : n = FirstOf(Participating)
  OBVIOUS
<1>2. members = {"release"} /\ Participating \subseteq members
  BY <1>0, OnlyRelease DEF Participating, Admitted
<1>3. n \in Participating /\ Participating = {n} /\ n = "release"
  BY <1>0, <1>1, <1>2, AdvanceKnown
<1>4. /\ worker.step = "block" /\ worker.todo = {} /\ worker'.step = "scan" /\ worker'.chunk = worker.chunk + 1
      /\ worker'.latest = worker.latest /\ worker'.from = worker.from /\ worker.next \in [members -> Nat] /\ worker.end \in Nat
      /\ checkpoint' = [checkpoint EXCEPT !["release"] = [@ EXCEPT !.next = worker.end + 1, !.last = worker.end, !.status = "RUNNING"]]
      /\ worker'.next = [worker.next EXCEPT !["release"] = worker.end + 1]
      /\ UNCHANGED <<configs, chain, blocks, transfers>>
  BY <1>0, <1>1, <1>3, AdvanceKnown, WorkerTypes
<1>5. checkpoint'["release"].last = worker.end /\ worker'.next["release"] = worker.end + 1 /\ worker.from = 0
  BY <1>0, <1>2, <1>4, AloneKnown DEF TypeOK, CheckpointType
<1>6. BelowDone' /\ ChunkDone' /\ OneAtATime'
  BY <1>4, ChunkAdvanced DEF Alone, Scanning
<1>7. MissingRows' = {}
  BY <1>4, <1>6, NothingMissingNext
<1>8. Recorded' = Recorded /\ Target' = Target /\ members' = members /\ (\A h : Agrees(h)' <=> Agrees(h))
  BY <1>4 DEF Recorded, Target, Agrees, members
<1>9. RowsRight' /\ LowestStands'
  BY <1>4, <1>8 DEF Alone, RowsRight, LowestStands
<1>10. MissingSeen'
  BY <1>7 DEF MissingSeen
<1>11. LastRecorded'
  <2>1. worker.end \in Recorded \/ (worker.end < Target /\ worker.chunk + 1 < MaxChunks)
    BY <1>4 DEF Alone, LastRecorded
  <2>2. worker.end < Target => "release" \in ActiveMembers'
    <3>1. Target \in Int
      BY <1>0, WorkerTypes
    <3>2. worker.end < Target => worker.end + 1 <= Target /\ worker.end + 1 # 0
      BY <1>4, <3>1
    <3> QED BY <1>2, <1>5, <1>8, <3>2 DEF ActiveMembers, Admitted
  <2> QED BY <1>4, <1>5, <1>8, <2>1, <2>2 DEF LastRecorded
<1> QED BY <1>6, <1>9, <1>10, <1>11 DEF Alone

LEMMA AloneSame == ASSUME Alone, UNCHANGED vars PROVE Alone'
<1>1. UNCHANGED <<configs, chain, blocks, transfers, purchased, purchases, checkpoint, worker>>
  BY DEF vars
<1>2. /\ members' = members /\ Recorded' = Recorded /\ MissingRows' = MissingRows /\ Target' = Target /\ (\A m : Logs(m)' = Logs(m))
      /\ (\A h : Agrees(h)' <=> Agrees(h)) /\ Scanning' = Scanning
  BY <1>1 DEF members, Recorded, MissingRows, Target, Logs, Agrees, Scanning
<1>3. RowsRight' /\ LowestStands'
  BY <1>1, <1>2 DEF Alone, RowsRight, LowestStands
<1>4. MissingSeen'
  BY <1>1, <1>2 DEF Alone, MissingSeen, Caught
<1>5. Scanning' => BelowDone'
  BY <1>1, <1>2 DEF Alone, BelowDone, Done, RowOf
<1>6. ChunkDone' /\ OneAtATime'
  BY <1>1, <1>2 DEF Alone, ChunkDone, OneAtATime, Done, RowOf, Pending
<1>7. LastRecorded'
  <2>1. ActiveMembers' = ActiveMembers
    BY <1>1, <1>2 DEF ActiveMembers, Admitted
  <2> QED BY <1>1, <1>2, <2>1 DEF Alone, LastRecorded
<1> QED BY <1>3, <1>4, <1>5, <1>6, <1>7 DEF Alone

\* No step changes what is indexed, and the history only grows.
LEMMA ConfigsStay ==
  ASSUME [Next]_vars PROVE configs' = configs /\ perils \subseteq perils'
<1>1. UNCHANGED vars => configs' = configs /\ perils' = perils
  BY DEF vars
<1>2. \A txs \in SUBSET Txs : Mine(txs) => configs' = configs /\ perils \subseteq perils'
  BY DEF Mine
<1>3. \A h \in Heights : Reorg(h) => configs' = configs /\ perils \subseteq perils'
  BY DEF Reorg
<1>4. Cycle => configs' = configs /\ perils' = perils
  BY DEF Cycle, BeginRebuild, Derive, Replay, ReadTip, Verify, Admit, FetchLogs, FetchBlock, RegressGroup, Advance, FinishScan, ProcessLog, world
<1>5. Fail \/ FailToAdmit \/ FailToRebuild \/ Crash => configs' = configs /\ perils' = perils
  BY DEF Fail, FailToAdmit, FailToRebuild, Crash
<1> QED BY <1>1, <1>2, <1>3, <1>4, <1>5 DEF Next

LEMMA AloneStays ==
  ASSUME IndexerAssumption, Shaped, Shaped', ChainSound, StraightWhenUnharmed, AloneUnharmed, [Next]_vars PROVE AloneUnharmed'
<1> SUFFICES ASSUME Unharmed', Len(configs') = 1, perils' = {} PROVE Alone'
  BY DEF AloneUnharmed
<1>0. TypeOK /\ CycleShaped /\ TypeOK'
  BY DEF Shaped
<1>1. Len(configs) = 1 /\ perils = {}
  BY ConfigsStay
<1>2. /\ Unharmed /\ ~Fail /\ ~FailToAdmit /\ ~FailToRebuild /\ ~Crash /\ \A h \in Heights : Reorg(h) => worker.step = "idle"
  BY <1>0, UnharmedSo
<1>3. Straight /\ Alone
  BY <1>1, <1>2 DEF StraightWhenUnharmed, AloneUnharmed
<1>4. ~RegressGroup
  BY <1>3 DEF Straight, Walked, RegressGroup
<1>5. CASE Cycle
  <2>1. \A l \in worker.due : ProcessLog(l) => Alone'
    BY <1>0, <1>1, <1>3, AloneProcessLog
  <2>2. BeginRebuild \/ Derive \/ Replay \/ ReadTip => Alone'
    BY <1>3, AloneRests
  <2>3. FinishScan \/ FetchLogs => Alone'
    BY <1>1, <1>3, AloneFinishScan, AloneFetchLogs
  <2>4. Verify \/ Admit => Alone'
    BY <1>0, <1>1, <1>3, AloneVerify, AloneAdmit
  <2>5. FetchBlock \/ Advance => Alone'
    BY <1>0, <1>1, <1>3, AloneFetchBlock, AloneAdvance
  <2> QED BY <1>4, <1>5, <2>1, <2>2, <2>3, <2>4, <2>5 DEF Cycle
<1>6. \A txs \in SUBSET Txs : Mine(txs) => Alone'
  BY <1>1, <1>3, AloneMine
<1>7. \A h \in Heights : Reorg(h) => Alone'
  BY <1>1, <1>2, <1>3, AloneReorg
<1>8. CASE UNCHANGED vars
  BY <1>3, <1>8, AloneSame
<1> QED BY <1>2, <1>5, <1>6, <1>7, <1>8 DEF Next

\* What is missing below a checkpoint is found by the next cycle.
LEMMA CompleteFollows ==
  ASSUME IndexerAssumption, Shaped, ChainSound, StraightWhenUnharmed, BeforeForks, AloneUnharmed PROVE IndexComplete
<1> SUFFICES ASSUME Quiet, perils = {}, forks > 0 => Unharmed /\ Len(configs) = 1, NEW m \in members, NEW h \in Missing(m)
             PROVE  Detected(m, h)
  BY DEF IndexComplete
<1>0. TypeOK /\ CycleShaped /\ forks \in Nat
  BY DEF Shaped, TypeOK
<1>1. PICK t \in chain[h].txs \cap Logs(m) : ~RowOf(m, t).canonical \/ RowOf(m, t).hash # chain[h].hash
  BY DEF Missing
<1>2. h \in DOMAIN chain /\ h < checkpoint[m].next /\ t \in Txs /\ h \in Nat
  BY <1>0, ChainTypes DEF Missing
<1>3. CASE forks = 0
  <2>1. Unforked
    BY <1>3 DEF BeforeForks
  <2>2. Done(m, t)
    BY <1>2, <2>1 DEF Unforked, BelowDone
  <2>3. RowOf(m, t).canonical /\ RowOf(m, t).hash = 0
    BY <1>2, <2>1, <2>2 DEF Unforked, RowsFirst, Done, RowOf
  <2>4. chain[h].hash = 0
    BY <1>0, <1>2, <1>3, AllAgree
  <2> QED BY <1>1, <2>3, <2>4
<1>4. CASE forks > 0
  <2>1. Straight /\ Alone /\ Len(configs) = 1
    BY <1>4 DEF StraightWhenUnharmed, AloneUnharmed
  <2>2. /\ m = "release" /\ worker.from = 0 /\ (\A k \in Recorded : k <= checkpoint["release"].last) /\ "release" \in members
    BY <1>0, <2>1, AloneKnown DEF Quiet, Busy
  <2>3. transfers[t] = NoRow
    BY <1>1, <1>2, <2>1, <2>2 DEF Alone, RowsRight, RowOf
  <2>4. Caught(h)
    BY <1>1, <1>2, <2>1, <2>2, <2>3 DEF Alone, MissingSeen, MissingRows
  <2>5. PICK d \in Recorded : ~Agrees(d)
    BY <2>4 DEF Caught
  <2>6. /\ RecordedTo(m) = {k \in Recorded : k <= checkpoint[m].last}
        /\ Agreed(m) = {k \in Recorded : k <= checkpoint[m].last /\ Agrees(k)}
        /\ Recorded \subseteq Nat
    BY <1>0, <2>2, AgreedAre
  <2>7. d \in Diverged(m)
    <3>1. ASSUME NEW a \in Agreed(m) PROVE d > a
      <4>1. a \in Recorded /\ Agrees(a) /\ a \in Nat /\ d \in Nat /\ a # d
        BY <2>5, <2>6
      <4>2. ~(d < a)
        BY <2>1, <2>5, <4>1 DEF Straight, AgreementClosed
      <4> QED BY <4>1, <4>2
    <3> QED BY <2>2, <2>5, <2>6, <3>1 DEF Diverged
  <2>8. Agreed(m) # {}
    BY <2>1, <2>2, <2>5, <2>6 DEF Alone, LowestStands
  <2>9. PICK f : f = RewindTo(m)
    OBVIOUS
  <2>10. f \in Nat /\ f - 1 \in Recorded /\ Agrees(f - 1)
    BY <1>0, <2>1, <2>7, <2>8, <2>9, RewindSound DEF Straight
  <2>11. f - 1 < h
    BY <2>4, <2>10 DEF Caught
  <2>12. f <= h
    BY <1>2, <2>10, <2>11
  <2> QED BY <2>7, <2>9, <2>12 DEF Detected
<1> QED BY <1>0, <1>3, <1>4

-----------------------------------------------------------------------------
\* The balance of a release alone counts its canonical mints whenever no rebuild is due, whatever fails or dies.
LEMMA BalancedFirst == ASSUME IndexerAssumption, Init PROVE Balanced
<1>1. Canonical(transfers) = {} /\ snapshot.amount = 0
  BY DEF Init, Canonical, NoRow
<1> QED BY <1>1, FS_EmptySet DEF Balanced

\* A step that leaves the rows, the balance and the job alone.
LEMMA BalancedSame ==
  ASSUME Balanced, UNCHANGED <<transfers, snapshot>>,
         job' \in {"NONE", "COMPLETED"} => job \in {"NONE", "COMPLETED"},
         worker'.step \in {"rebuild", "rebuildAfter"} /\ worker'.todo # {} => worker.step \in {"rebuild", "rebuildAfter"} /\ worker.todo # {}
  PROVE  Balanced'
<1>1. Canonical(transfers)' = Canonical(transfers)
  BY DEF Canonical
<1> QED BY <1>1 DEF Balanced

LEMMA BalancedRebuild ==
  ASSUME IndexerAssumption, Shaped, Balanced, BeginRebuild \/ Derive \/ Replay PROVE Balanced'
<1>0. TypeOK /\ CycleShaped /\ worker \in WorkerType
  BY DEF Shaped, TypeOK
<1>1. CASE BeginRebuild
  <2>1. UNCHANGED <<transfers, snapshot>> /\ job' = "RUNNING" /\ worker'.todo = worker.todo /\ worker.step \in {"idle", "rebuildAfter"}
    BY <1>0, <1>1 DEF BeginRebuild, rows, WorkerType
  <2>2. worker.step = "idle" => worker.todo = {}
    BY <1>0, RestShape
  <2> QED BY <2>1, <2>2, BalancedSame
<1>2. CASE Derive
  <2>1. transfers' = transfers /\ snapshot'.amount = Cardinality(Canonical(transfers))
    BY <1>2 DEF Derive
  <2>2. Canonical(transfers)' = Canonical(transfers)
    BY <2>1 DEF Canonical
  <2> QED BY <2>1, <2>2 DEF Balanced
<1>3. CASE Replay
  <2>1. UNCHANGED <<transfers, snapshot>> /\ snapshot.amount = Cardinality(Canonical(transfers))
    BY <1>3 DEF Replay, Balanced
  <2>2. Canonical(transfers)' = Canonical(transfers)
    BY <2>1 DEF Canonical
  <2> QED BY <2>1, <2>2 DEF Balanced
<1> QED BY <1>1, <1>2, <1>3

LEMMA BalancedProcessLog ==
  ASSUME IndexerAssumption, Shaped, Balanced, Len(configs) = 1, NEW l \in worker.due, ProcessLog(l) PROVE Balanced'
<1>0. TypeOK /\ CycleShaped
  BY DEF Shaped
<1>1. worker.step = "block" /\ worker'.step = worker.step /\ job' = job
  BY <1>0, ProcessLogKnown
<1>2. PICK t, h : t = l[3] /\ h = l[2]
  OBVIOUS
<1>3. /\ members = {"release"} /\ l[1] = "release" /\ t \in Txs /\ transfers \in [Txs -> Row] /\ snapshot.amount \in Nat
  BY <1>0, <1>2, DueKnown, OnlyRelease DEF TypeOK, RowsTyped, SnapshotType
<1>4. PICK r : r = [at |-> h, hash |-> l[4], canonical |-> TRUE]
  OBVIOUS
<1>5. \/ transfers' = transfers /\ snapshot' = snapshot
      \/ transfers[t] = NoRow /\ transfers' = [transfers EXCEPT ![t] = r] /\ snapshot'.amount = snapshot.amount + 1
  BY <1>0, <1>2, <1>3, <1>4, ProcessLogCases DEF MintApplied, ApplyTransfer, Credit, PurchaseNoted, PurchaseApplied
<1>6. CASE transfers' = transfers /\ snapshot' = snapshot
  BY <1>1, <1>6, BalancedSame
<1>7. CASE transfers[t] = NoRow /\ transfers' = [transfers EXCEPT ![t] = r] /\ snapshot'.amount = snapshot.amount + 1
  <2>1. transfers'[t].canonical /\ ~transfers[t].canonical /\ \A x \in Txs : x # t => transfers'[x] = transfers[x]
    BY <1>3, <1>4, <1>7 DEF NoRow
  <2>2. Canonical(transfers)' = Canonical(transfers) \cup {t} /\ t \notin Canonical(transfers)
    BY <1>3, <2>1 DEF Canonical
  <2>3. Cardinality(Canonical(transfers)') = Cardinality(Canonical(transfers)) + 1
    BY <2>2, CreditedFinite, FS_AddElement
  <2> QED BY <1>1, <1>3, <1>7, <2>3 DEF Balanced
<1> QED BY <1>5, <1>6, <1>7

LEMMA BalancedStays ==
  ASSUME IndexerAssumption, Shaped, BalancedAlone, [Next]_vars PROVE BalancedAlone'
<1> SUFFICES ASSUME Len(configs') = 1 PROVE Balanced'
  BY DEF BalancedAlone
<1>0. TypeOK /\ CycleShaped /\ worker \in WorkerType
  BY DEF Shaped, TypeOK
<1>1. Len(configs) = 1 /\ Balanced
  BY ConfigsStay DEF BalancedAlone
<1>2. CASE Cycle
  <2>1. \A l \in worker.due : ProcessLog(l) => Balanced'
    BY <1>1, BalancedProcessLog
  <2>2. BeginRebuild \/ Derive \/ Replay => Balanced'
    BY <1>1, BalancedRebuild
  <2>3. ReadTip => Balanced'
    <3>1. ReadTip => UNCHANGED <<transfers, snapshot, job>> /\ worker'.step = "admit"
      BY <1>0 DEF ReadTip, rows, WorkerType
    <3> QED BY <1>1, <3>1, BalancedSame
  <2>4. Verify => Balanced'
    <3>1. Verify => job' = "PENDING" /\ worker'.step = "admit"
      BY <1>0, VerifyKnown DEF HandleReorg
    <3> QED BY <3>1 DEF Balanced
  <2>5. Admit => Balanced'
    <3>1. PICK m : m = Joining
      OBVIOUS
    <3>2. Admit => UNCHANGED <<transfers, snapshot, job>> /\ worker'.step \in {"admit", "scan"}
      BY <1>0, <3>1, AdmitKnown
    <3> QED BY <1>1, <3>2, BalancedSame
  <2>6. FetchLogs => Balanced'
    <3>1. FetchLogs => UNCHANGED <<transfers, snapshot, job>> /\ worker'.step = "block"
      BY <1>0, FetchedKnown DEF FetchLogs, rows
    <3> QED BY <1>1, <3>1, BalancedSame
  <2>7. FetchBlock => Balanced'
    <3>1. PICK n : n = NextBlock
      OBVIOUS
    <3>2. FetchBlock => worker'.step \in {"block", "regress"} /\ (job' = "PENDING" \/ UNCHANGED <<transfers, snapshot, job>>)
      BY <1>0, <3>1, FetchBlockKnown DEF HandleReorg
    <3>3. CASE FetchBlock /\ job' = "PENDING"
      BY <3>2, <3>3 DEF Balanced
    <3>4. CASE FetchBlock /\ UNCHANGED <<transfers, snapshot, job>>
      BY <1>1, <3>2, <3>4, BalancedSame
    <3> QED BY <3>2, <3>3, <3>4
  <2>8. RegressGroup => Balanced'
    <3>1. RegressGroup => UNCHANGED <<transfers, snapshot, job>> /\ worker'.step = "block"
      BY <1>0, RegressKnown
    <3> QED BY <1>1, <3>1, BalancedSame
  <2>9. Advance => Balanced'
    <3>1. PICK n : n = FirstOf(Participating)
      OBVIOUS
    <3>2. Advance => UNCHANGED <<transfers, snapshot, job>> /\ worker'.step \in {"block", "scan"}
      BY <1>0, <3>1, AdvanceKnown
    <3> QED BY <1>1, <3>2, BalancedSame
  <2>10. FinishScan => Balanced'
    <3>1. FinishScan => UNCHANGED <<transfers, snapshot, job>> /\ worker'.todo = {}
      BY <1>0, FinishScanKnown
    <3> QED BY <1>1, <3>1, BalancedSame
  <2> QED BY <1>2, <2>1, <2>2, <2>3, <2>4, <2>5, <2>6, <2>7, <2>8, <2>9, <2>10 DEF Cycle
<1>3. Fail \/ FailToAdmit \/ FailToRebuild \/ Crash => Balanced'
  <2>1. Fail \/ FailToAdmit \/ FailToRebuild \/ Crash => UNCHANGED <<transfers, snapshot>> /\ job' \in {job, "FAILED"} /\ worker'.step = "idle"
    BY IdleFields DEF Fail, FailToAdmit, FailToRebuild, Crash, rows
  <2> QED BY <1>1, <2>1, BalancedSame
<1>4. \A txs \in SUBSET Txs : Mine(txs) => Balanced'
  <2>1. \A txs \in SUBSET Txs : Mine(txs) => UNCHANGED <<transfers, snapshot, job, worker>>
    BY DEF Mine, rows
  <2> QED BY <1>1, <2>1, BalancedSame
<1>5. \A h \in Heights : Reorg(h) => Balanced'
  <2>1. \A h \in Heights : Reorg(h) => UNCHANGED <<transfers, snapshot, job, worker>>
    BY DEF Reorg, rows
  <2> QED BY <1>1, <2>1, BalancedSame
<1>6. UNCHANGED vars => Balanced'
  <2>1. UNCHANGED vars => UNCHANGED <<transfers, snapshot, job, worker>>
    BY DEF vars
  <2> QED BY <1>1, <2>1, BalancedSame
<1> QED BY <1>2, <1>3, <1>4, <1>5, <1>6 DEF Next

\* And of a release with its sale as long as no block was replaced.
LEMMA SnapshotFollows ==
  ASSUME IndexerAssumption, Shaped, BeforeForks, TogetherUnharmed, BalancedAlone PROVE SnapshotMatches
<1> SUFFICES ASSUME Quiet, job \in {"NONE", "COMPLETED"}
             PROVE  /\ forks = 0 => snapshot.amount = Cardinality(Credited)
                    /\ (forks = 0 /\ Unharmed) \/ Len(configs) = 1 => snapshot.amount = Cardinality(Canonical(transfers))
  BY DEF SnapshotMatches
<1>1. forks = 0 => Unforked /\ snapshot.amount = Cardinality(Credited)
  BY DEF BeforeForks, Unforked
<1>2. forks = 0 /\ Unharmed => Credited = Canonical(transfers)
  BY <1>1, CreditedWhole DEF TogetherUnharmed
<1>3. Len(configs) = 1 => snapshot.amount = Cardinality(Canonical(transfers))
  BY DEF BalancedAlone, Balanced
<1> QED BY <1>1, <1>2, <1>3

-----------------------------------------------------------------------------
LEMMA InvariantFirst == ASSUME IndexerAssumption, Init PROVE IInv
<1>1. Shaped /\ Standing /\ ChainSound /\ StraightWhenUnharmed
  BY TypesFirst, ShapedFirst, StandingFirst, SoundFirst, StraightFirst DEF Shaped, StraightWhenUnharmed
<1>2. BeforeForks /\ TogetherUnharmed
  BY UnforkedFirst, TogetherFirst DEF BeforeForks, TogetherUnharmed
<1>3. AloneUnharmed /\ BalancedAlone
  BY AloneFirst, BalancedFirst DEF AloneUnharmed, BalancedAlone
<1> QED BY <1>1, <1>2, <1>3 DEF IInv

LEMMA InvariantStays == ASSUME IndexerAssumption, IInv, [Next]_vars PROVE IInv'
<1>1. Shaped' /\ Standing' /\ ChainSound' /\ StraightWhenUnharmed'
  BY ShapedStays, StandingStays, SoundStays, StraightStays DEF IInv
<1>2. BeforeForks' /\ TogetherUnharmed'
  BY UnforkedStays, TogetherStays DEF IInv
<1>3. AloneUnharmed' /\ BalancedAlone'
  BY <1>1, AloneStays, BalancedStays DEF IInv
<1> QED BY <1>1, <1>2, <1>3 DEF IInv

\* The invariant holds in every reachable state.
THEOREM Invariance == Spec => []IInv
<1>1. Init => IInv
  BY IndexerAssumption, InvariantFirst
<1>2. IInv /\ [Next]_vars => IInv'
  BY IndexerAssumption, InvariantStays
<1> QED BY <1>1, <1>2, PTL DEF Spec

\* Between cycles nothing below a checkpoint is missing and no row that counts is a phantom, unless the next cycle
\* rewinds to it (syncMember, verifyCanonicalCheckpoint, handleReorg).
THEOREM IndexStaysTrue == Spec => []IndexTrue
<1>1. IInv => IndexTrue
  BY IndexerAssumption, CompleteFollows, NoPhantomFollows DEF IInv, IndexTrue
<1> QED BY <1>1, Invariance, PTL

\* Whatever is cut off or replaced, a finalized purchase is in the block recorded at its height
\* (finalizePrimaryPurchases, handleReorg).
THEOREM FinalizedAlwaysStands == Spec => []FinalizedStands
<1>1. IInv => FinalizedStands
  BY DEF IInv, Standing
<1> QED BY <1>1, Invariance, PTL

\* Between cycles, with nothing left to rebuild, the wallet's balance is what its canonical mints say
\* (applyTransfer, applyPrimaryPurchase, rebuildDerivedState).
THEOREM SnapshotAlwaysMatches == Spec => []SnapshotMatches
<1>1. IInv => SnapshotMatches
  BY IndexerAssumption, SnapshotFollows DEF IInv
<1> QED BY <1>1, Invariance, PTL
=============================================================================
