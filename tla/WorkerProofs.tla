----------------------------- MODULE WorkerProofs -----------------------------
(***************************************************************************)
(* Proofs about what MCRequests runs in the background, for every value of *)
(* the constants: the workers of the indexer on one database (WorkerLease), *)
(* the pacing of their calls to the node (RpcPacer), and the scan of the   *)
(* Genesis transfers with its shared checkpoint (GenesisScan).             *)
(***************************************************************************)
EXTENDS MCRequests, FiniteSetTheorems, SequenceTheorems, TLAPS

-----------------------------------------------------------------------------
(***************************************************************************)
(* The lease.  Whoever has a fresh heartbeat is the owner; what a worker   *)
(* has passed in its chunk is stored; a rebuild that ends puts back what it *)
(* took away.                                                              *)
(***************************************************************************)
LEMMA LeaseStep ==
  part = "lease" /\ [NextOne]_allVars => part' = "lease" /\ [Lease!Next]_(Lease!vars)
BY DEF NextOne, Steps, allVars, vVars, Lease!vars

LEMMA LeaseCount == \A S : Lease!Cardinality(S) = Cardinality(S)
BY DEF Lease!Cardinality, Cardinality

\* Sets of blocks are finite, and counted one by one.
LEMMA LeaseBlocks ==
  ASSUME Height \in Nat, NEW S, S \subseteq Lease!Blocks
  PROVE  /\ Lease!Cardinality(S) \in Nat
         /\ \A b \in Lease!Blocks : b \notin S => Lease!Cardinality(S \cup {b}) = Lease!Cardinality(S) + 1
<1>1. IsFiniteSet(S)
  <2>1. 1 \in Int /\ Height \in Int
    OBVIOUS
  <2>2. IsFiniteSet(1..Height)
    BY <2>1, FS_Interval
  <2>3. S \in SUBSET (1..Height)
    BY DEF Lease!Blocks
  <2> QED BY <2>2, <2>3, FS_Subset
<1>2. Cardinality(S) \in Nat
  BY <1>1, FS_CardinalityType
<1>3. \A b : b \notin S => Cardinality(S \cup {b}) = Cardinality(S) + 1
  BY <1>1, FS_AddElement
<1> QED BY <1>2, <1>3, LeaseCount

LEMMA LeaseStarts == Lease!LeaseAssumption /\ Lease!Init => Lease!IInv
<1> SUFFICES ASSUME Lease!LeaseAssumption, Lease!Init PROVE Lease!IInv
  OBVIOUS
<1>0. Ttl \in Nat /\ Height \in Nat /\ v3 \in 1..(Height + 1)
  BY DEF Lease!LeaseAssumption, Lease!Init
<1>1. /\ v4 = [transfers |-> 1..(v3 - 1), events |-> 1..(v3 - 1), purchases |-> 1..(v3 - 1)]
      /\ v5 = v3 - 1 /\ v6 \in {"NONE", "PENDING"} /\ v1 = [owner |-> Nobody, age |-> 0]
      /\ v2 = [w \in Instances |-> Lease!Stopped] /\ v7 = {}
  BY DEF Lease!Init
<1>2. Lease!Cardinality(1..(v3 - 1)) = v3 - 1
  BY <1>0, FS_Interval, LeaseCount
<1>3. Lease!TypeOK
  <2>1. Lease!Stopped \in Lease!Worker
    BY <1>0 DEF Lease!Stopped, Lease!Worker, Lease!Steps, Lease!Ages
  <2>2. v1 \in Lease!Lease
    BY <1>0, <1>1 DEF Lease!Lease, Lease!Ages
  <2>3. v4 \in Lease!Rows
    BY <1>0, <1>1 DEF Lease!Rows, Lease!Blocks
  <2> QED BY <1>0, <1>1, <2>1, <2>2, <2>3 DEF Lease!TypeOK
<1>4. \A w \in Instances : v2[w].step = "stopped"
  BY <1>1 DEF Lease!Stopped
<1>5. Lease!LeaseReported /\ Lease!ChunkStored /\ Lease!OwnerRebuilds
  BY <1>4 DEF Lease!LeaseReported, Lease!Running, Lease!ChunkStored, Lease!ChunkOf, Lease!Scans, Lease!OwnerRebuilds, Lease!At
<1>6. Lease!NothingSkipped /\ Lease!RebuildFirst
  BY <1>1, <1>4 DEF Lease!NothingSkipped, Lease!RebuildFirst
<1>7. Lease!CreditedOnce
  BY <1>1, <1>2 DEF Lease!CreditedOnce
<1> QED BY <1>3, <1>5, <1>6, <1>7 DEF Lease!IInv

(***************************************************************************)
(* What one worker's step leaves of the invariant to the others.           *)
(***************************************************************************)
LEMMA LeaseTypes ==
  ASSUME Lease!LeaseAssumption, Lease!IInv
  PROVE  /\ Ttl \in Nat /\ Height \in Nat /\ ChunkBlocks \in Nat /\ ChunkBlocks > 0 /\ Nobody \notin Instances /\ NoUri \notin Instances
         /\ v1 \in Lease!Lease /\ v2 \in [Instances -> Lease!Worker] /\ v3 \in 1..(Height + 1) /\ v4 \in Lease!Rows
         /\ v5 \in Nat /\ v6 \in {"NONE", "PENDING", "RUNNING", "COMPLETED"} /\ v7 \subseteq {"outlived", "died"}
         /\ v1.age \in Nat
         /\ \A w \in Instances : v2[w].from \in Nat /\ v2[w].at \in Nat /\ v2[w].since \in Nat /\ Lease!ChunkEnd(w) \in Int
         /\ v4.transfers \subseteq Lease!Blocks /\ v4.events \subseteq Lease!Blocks /\ v4.purchases \subseteq Lease!Blocks
<1>1. /\ Ttl \in Nat /\ Height \in Nat /\ ChunkBlocks \in Nat /\ ChunkBlocks > 0 /\ Nobody \notin Instances /\ NoUri \notin Instances
  BY DEF Lease!LeaseAssumption
<1>2. /\ v1 \in Lease!Lease /\ v2 \in [Instances -> Lease!Worker] /\ v3 \in 1..(Height + 1) /\ v4 \in Lease!Rows
      /\ v5 \in Nat /\ v6 \in {"NONE", "PENDING", "RUNNING", "COMPLETED"} /\ v7 \subseteq {"outlived", "died"}
  BY DEF Lease!IInv, Lease!TypeOK
<1>3. v1.age \in Nat
  BY <1>1, <1>2 DEF Lease!Lease, Lease!Ages
<1>4. \A w \in Instances : v2[w].from \in Nat /\ v2[w].at \in Nat /\ v2[w].since \in Nat
  BY <1>1, <1>2 DEF Lease!Worker, Lease!Ages
<1>5. \A w \in Instances : Lease!ChunkEnd(w) \in Int
  BY <1>1, <1>4 DEF Lease!ChunkEnd, Lease!Least
<1>6. v4.transfers \subseteq Lease!Blocks /\ v4.events \subseteq Lease!Blocks /\ v4.purchases \subseteq Lease!Blocks
  BY <1>2 DEF Lease!Rows
<1> QED BY <1>1, <1>2, <1>3, <1>4, <1>5, <1>6

LEMMA LeaseChunks ==
  ASSUME Lease!LeaseAssumption, Lease!IInv, NEW w \in Instances, Lease!ChunkOf(w)',
         \A v \in Instances : v # w => v2'[v] = v2[v],
         v3' \in Nat, v3' >= v3, v4.transfers \subseteq v4'.transfers, v4.events \subseteq v4'.events,
         Lease!Whole' => (Lease!Whole /\ v4.purchases \subseteq v4'.purchases) \/ v4.events \subseteq v4'.purchases
  PROVE  Lease!ChunkStored'
<1> SUFFICES ASSUME NEW v \in Instances, v # w, v2'[v].step \in Lease!Scans PROVE Lease!ChunkOf(v)'
  BY DEF Lease!ChunkStored, Lease!ChunkOf
<1>1. v2'[v] = v2[v] /\ Lease!ChunkOf(v)
  BY DEF Lease!IInv, Lease!ChunkStored
<1>2. Lease!ChunkEnd(v)' = Lease!ChunkEnd(v) /\ Lease!Passed(v)' = Lease!Passed(v)
  BY <1>1 DEF Lease!ChunkEnd, Lease!Passed
<1>3. v2[v].from <= v3 => v2[v].from <= v3'
  BY LeaseTypes
<1> QED BY <1>1, <1>2, <1>3 DEF Lease!ChunkOf, Lease!At

\* The lease and what was reported of it stay as they are.
LEMMA LeaseUnreported ==
  ASSUME Lease!IInv, UNCHANGED v1, \A v \in Instances : v2'[v].since = v2[v].since /\ (Lease!Running(v)' => Lease!Running(v))
  PROVE  Lease!LeaseReported'
BY DEF Lease!IInv, Lease!LeaseReported

(***************************************************************************)
(* A step that writes nothing: the rest of the invariant is about the      *)
(* worker alone.                                                           *)
(***************************************************************************)
LEMMA LeaseTablesSame ==
  ASSUME Lease!LeaseAssumption, Lease!IInv, NEW w \in Instances, UNCHANGED <<v3, v4, v5, v6, v7>>,
         v1' \in Lease!Lease, v2' \in [Instances -> Lease!Worker],
         \A v \in Instances : v # w => v2'[v] = v2[v],
         v2[w].step \notin {"derive", "replay"}, v2'[w].step \notin {"derive", "replay"},
         \A v \in Instances : v # w /\ v1'.owner = v => v1.owner = v,
         v2'[w].step = "rebuild" => v6 = "PENDING",
         v2'[w].step \in {"admit"} \cup Lease!Scans => v6 # "PENDING",
         Lease!ChunkOf(w)', Lease!LeaseReported'
  PROVE  Lease!IInv'
<1>1. Lease!TypeOK'
  BY DEF Lease!IInv, Lease!TypeOK
<1>2. Lease!Rebuilding' = Lease!Rebuilding /\ Lease!Whole' = Lease!Whole
  BY DEF Lease!Rebuilding, Lease!Whole
<1>3. Lease!NothingSkipped' /\ Lease!CreditedOnce'
  BY <1>2 DEF Lease!IInv, Lease!NothingSkipped, Lease!CreditedOnce
<1>4. Lease!ChunkStored'
  <2>1. v3' \in Nat /\ v3' >= v3
    BY LeaseTypes
  <2> QED BY <1>2, <2>1, LeaseChunks
<1>5. Lease!RebuildFirst'
  <2>0. v2'[w] \in Lease!Worker
    OBVIOUS
  <2>1. v2'[w].step \in {"stopped", "waiting", "cycle", "rebuild", "derive", "replay", "admit"} \cup Lease!Scans
    BY <2>0 DEF Lease!Worker, Lease!Steps, Lease!Scans
  <2> QED BY <2>1 DEF Lease!IInv, Lease!RebuildFirst
<1>6. Lease!OwnerRebuilds'
  BY DEF Lease!IInv, Lease!OwnerRebuilds, Lease!At
<1> QED BY <1>1, <1>3, <1>4, <1>5, <1>6 DEF Lease!IInv
(***************************************************************************)
(* The lease itself.                                                       *)
(***************************************************************************)
\* A good heartbeat, or taking a lease nobody keeps: the owner is fresh, and nobody else is.
LEMMA LeaseHeard ==
  ASSUME Lease!LeaseAssumption, Lease!IInv, NEW w \in Instances, v1.owner = w \/ Lease!Free,
         v1' = [owner |-> w, age |-> 0], v2'[w].since = 0, \A v \in Instances : v # w => v2'[v] = v2[v]
  PROVE  Lease!LeaseReported' /\ v1' \in Lease!Lease /\ (\A v \in Instances : v # w => v1'.owner # v)
<1>0. Ttl \in Nat /\ v1.age \in Nat /\ Nobody \notin Instances
  BY LeaseTypes
<1>1. ASSUME NEW v \in Instances, v # w, Lease!Running(v), v2[v].since <= Ttl PROVE FALSE
  <2>1. v1.owner = v /\ v1.age = v2[v].since
    BY <1>1 DEF Lease!IInv, Lease!LeaseReported
  <2>2. v1.age > Ttl
    BY <1>0, <1>1, <2>1 DEF Lease!Free
  <2> QED BY <1>0, <1>1, <2>1, <2>2
<1>2. Lease!LeaseReported'
  BY <1>0, <1>1 DEF Lease!LeaseReported, Lease!Running
<1>3. v1' \in Lease!Lease
  BY <1>0 DEF Lease!Lease, Lease!Ages
<1> QED BY <1>2, <1>3

\* A process that ends leaves the lease to nobody else.
LEMMA LeaseLeft ==
  ASSUME Lease!LeaseAssumption, Lease!IInv, NEW w \in Instances, v1' \in Lease!Lease,
         v2' = [v2 EXCEPT ![w] = Lease!Stopped], v1.owner # w => UNCHANGED v1, v1.owner = w => v1'.owner \notin Instances \/ UNCHANGED v1
  PROVE  /\ v2' \in [Instances -> Lease!Worker] /\ v2'[w].step = "stopped" /\ (\A v \in Instances : v # w => v2'[v] = v2[v])
         /\ \A v \in Instances : v # w /\ v1'.owner = v => v1.owner = v
         /\ Lease!ChunkOf(w)' /\ Lease!LeaseReported'
<1>0. v2 \in [Instances -> Lease!Worker] /\ Height \in Nat /\ Ttl \in Nat
  BY LeaseTypes
<1>1. Lease!Stopped \in Lease!Worker /\ Lease!Stopped.step = "stopped"
  BY <1>0 DEF Lease!Stopped, Lease!Worker, Lease!Steps, Lease!Ages
<1>2. v2' \in [Instances -> Lease!Worker] /\ v2'[w].step = "stopped" /\ (\A v \in Instances : v # w => v2'[v] = v2[v])
  BY <1>0, <1>1
<1>3. Lease!ChunkOf(w)'
  BY <1>2 DEF Lease!ChunkOf, Lease!Scans
<1>4. Lease!LeaseReported'
  BY <1>2 DEF Lease!IInv, Lease!LeaseReported, Lease!Running
<1> QED BY <1>2, <1>3, <1>4

LEMMA LeaseFresh ==
  ASSUME Ttl \in Nat, NEW r \in Lease!Worker, NEW s \in Lease!Steps
  PROVE  [r EXCEPT !.step = s, !.since = 0] \in Lease!Worker
<1>1. \A A, B, C : \A q \in [step : A, from : B, at : B, since : C], x \in A, y \in C :
        [q EXCEPT !.step = x, !.since = y] \in [step : A, from : B, at : B, since : C]
  OBVIOUS
<1>2. 0 \in Lease!Ages
  BY DEF Lease!Ages
<1>3. Lease!Worker = [step : Lease!Steps, from : 0..(Height + 1), at : 0..(Height + 1), since : Lease!Ages]
  BY DEF Lease!Worker
<1> HIDE DEF Lease!Worker
<1> QED BY <1>1, <1>2, <1>3

LEMMA LeaseTicks == ASSUME Lease!LeaseAssumption, Lease!IInv, Lease!Tick PROVE Lease!IInv'
<1>0. /\ Ttl \in Nat /\ v1 \in Lease!Lease /\ v2 \in [Instances -> Lease!Worker] /\ Nobody \notin Instances /\ v1.age \in Nat
      /\ \A w \in Instances : v2[w].since \in Nat
  BY LeaseTypes
<1>1. UNCHANGED <<v3, v4, v5, v6, v7>>
  BY DEF Lease!Tick, Lease!tables
<1>2. /\ v1' = [v1 EXCEPT !.age = IF v1.owner = Nobody THEN 0 ELSE Lease!Older(@)]
      /\ v2' = [w \in Instances |-> [v2[w] EXCEPT !.since = Lease!Older(@)]]
  BY DEF Lease!Tick
<1>3. v1' \in Lease!Lease /\ v1'.owner = v1.owner /\ (v1.owner # Nobody => v1'.age = Lease!Older(v1.age))
  BY <1>0, <1>2 DEF Lease!Lease, Lease!Ages, Lease!Older
<1>4. \A w \in Instances : /\ v2'[w] \in Lease!Worker /\ v2'[w].step = v2[w].step /\ v2'[w].from = v2[w].from
                           /\ v2'[w].at = v2[w].at /\ v2'[w].since = Lease!Older(v2[w].since)
  <2> SUFFICES ASSUME NEW w \in Instances
               PROVE  /\ v2'[w] \in Lease!Worker /\ v2'[w].step = v2[w].step /\ v2'[w].from = v2[w].from
                      /\ v2'[w].at = v2[w].at /\ v2'[w].since = Lease!Older(v2[w].since)
    OBVIOUS
  <2>1. v2[w] \in Lease!Worker /\ Lease!Older(v2[w].since) \in Lease!Ages /\ v2'[w] = [v2[w] EXCEPT !.since = Lease!Older(v2[w].since)]
    BY <1>0, <1>2 DEF Lease!Worker, Lease!Ages, Lease!Older
  <2> QED BY <2>1 DEF Lease!Worker
<1>5. v2' \in [Instances -> Lease!Worker]
  BY <1>2, <1>4
<1>6. Lease!TypeOK'
  BY <1>1, <1>3, <1>5 DEF Lease!IInv, Lease!TypeOK
<1>7. Lease!LeaseReported'
  <2> SUFFICES ASSUME NEW w \in Instances, Lease!Running(w)
               PROVE  /\ v1'.owner = w => v1'.age = v2'[w].since
                      /\ v2'[w].since <= Ttl => v1'.owner = w
    BY <1>4 DEF Lease!LeaseReported, Lease!Running
  <2>1. (v1.owner = w => v1.age = v2[w].since) /\ (v2[w].since <= Ttl => v1.owner = w)
    BY DEF Lease!IInv, Lease!LeaseReported
  <2>2. v2'[w].since = Lease!Older(v2[w].since) /\ v2[w].since \in Nat /\ w # Nobody
    BY <1>0, <1>4
  <2>3. v2'[w].since <= Ttl => v2[w].since <= Ttl
    BY <1>0, <2>2 DEF Lease!Older
  <2> QED BY <1>3, <2>1, <2>2, <2>3
<1>8. Lease!Rebuilding' = Lease!Rebuilding /\ Lease!Whole' = Lease!Whole
  BY <1>1, <1>4 DEF Lease!Rebuilding, Lease!Whole
<1>9. Lease!NothingSkipped' /\ Lease!CreditedOnce'
  BY <1>1, <1>8 DEF Lease!IInv, Lease!NothingSkipped, Lease!CreditedOnce
<1>10. Lease!ChunkStored'
  <2> SUFFICES ASSUME NEW w \in Instances PROVE Lease!ChunkOf(w)'
    BY DEF Lease!ChunkStored, Lease!ChunkOf
  <2>1. Lease!ChunkOf(w) /\ Lease!ChunkEnd(w)' = Lease!ChunkEnd(w) /\ Lease!Passed(w)' = Lease!Passed(w)
    BY <1>4 DEF Lease!IInv, Lease!ChunkStored, Lease!ChunkEnd, Lease!Passed
  <2> QED BY <1>1, <1>4, <1>8, <2>1 DEF Lease!ChunkOf, Lease!At
<1>11. Lease!RebuildFirst' /\ Lease!OwnerRebuilds'
  BY <1>1, <1>3, <1>4 DEF Lease!IInv, Lease!RebuildFirst, Lease!OwnerRebuilds, Lease!At
<1> QED BY <1>6, <1>7, <1>9, <1>10, <1>11 DEF Lease!IInv

\* A process starts, takes the lease, reports that it is alive.
LEMMA LeaseBegins ==
  ASSUME Lease!LeaseAssumption, Lease!IInv, NEW w \in Instances, Lease!Start(w) \/ Lease!Acquire(w)
  PROVE  Lease!IInv'
<1>0. /\ v1 \in Lease!Lease /\ v2 \in [Instances -> Lease!Worker] /\ UNCHANGED <<v3, v4, v5, v6, v7>> /\ Ttl \in Nat
      /\ v2[w] \in Lease!Worker /\ v2[w].step \in {"stopped", "waiting"}
  BY LeaseTypes DEF Lease!Start, Lease!Acquire, Lease!At, Lease!tables
<1>1. CASE Lease!Start(w)
  <2>1. UNCHANGED v1 /\ v2' = [v2 EXCEPT ![w].step = "waiting"]
    BY <1>1 DEF Lease!Start, Lease!Goes
  <2>2. [v2[w] EXCEPT !.step = "waiting"] \in Lease!Worker
    BY <1>0 DEF Lease!Worker, Lease!Steps
  <2>3. v2' \in [Instances -> Lease!Worker] /\ v2'[w].step = "waiting" /\ \A v \in Instances : v # w => v2'[v] = v2[v]
    BY <1>0, <2>1, <2>2
  <2>4. \A v \in Instances : v2'[v].since = v2[v].since /\ (Lease!Running(v)' => Lease!Running(v))
    BY <1>0, <2>1, <2>3 DEF Lease!Running, Lease!Worker
  <2>5. Lease!LeaseReported'
    BY <2>1, <2>4, LeaseUnreported
  <2>6. Lease!ChunkOf(w)'
    BY <2>3 DEF Lease!ChunkOf, Lease!Scans
  <2> QED BY <1>0, <2>1, <2>3, <2>5, <2>6, LeaseTablesSame DEF Lease!Scans
<1>2. CASE Lease!Acquire(w)
  <2>1. /\ Lease!Free /\ v1' = [owner |-> w, age |-> 0]
        /\ v2' = [v2 EXCEPT ![w] = [v2[w] EXCEPT !.step = "cycle", !.since = 0]]
    BY <1>0, <1>2 DEF Lease!Acquire
  <2>2. [v2[w] EXCEPT !.step = "cycle", !.since = 0] \in Lease!Worker
    BY <1>0, LeaseFresh DEF Lease!Steps
  <2>3. v2' \in [Instances -> Lease!Worker] /\ v2'[w] = [v2[w] EXCEPT !.step = "cycle", !.since = 0]
        /\ \A v \in Instances : v # w => v2'[v] = v2[v]
    BY <1>0, <2>1, <2>2
  <2>4. v2'[w].step = "cycle" /\ v2'[w].since = 0
    BY <1>0, <2>3 DEF Lease!Worker
  <2>5. Lease!LeaseReported' /\ v1' \in Lease!Lease /\ (\A v \in Instances : v # w => v1'.owner # v)
    BY <2>1, <2>3, <2>4, LeaseHeard
  <2>6. Lease!ChunkOf(w)'
    BY <2>4 DEF Lease!ChunkOf, Lease!Scans
  <2> QED BY <1>0, <2>3, <2>4, <2>5, <2>6, LeaseTablesSame DEF Lease!Scans
<1> QED BY <1>1, <1>2

LEMMA LeaseHeartbeats ==
  ASSUME Lease!LeaseAssumption, Lease!IInv, NEW w \in Instances, Lease!BeginCycle(w) \/ Lease!ReportWaiting(w)
  PROVE  Lease!IInv'
<1>0. /\ v1 \in Lease!Lease /\ v2 \in [Instances -> Lease!Worker] /\ UNCHANGED <<v3, v4, v5, v6, v7>> /\ Ttl \in Nat
      /\ v2[w] \in Lease!Worker /\ v2[w].step \in {"cycle", "admit", "fetch"}
  BY LeaseTypes DEF Lease!BeginCycle, Lease!ReportWaiting, Lease!At, Lease!tables
<1>1. PICK then : Lease!Heartbeat(w, then) /\ (then = "rebuild" => v6 = "PENDING") /\ then \in {"rebuild", "admit", "fetch"}
                  /\ (then # "rebuild" => v6 # "PENDING") /\ (then = "fetch" => v2[w].step = "fetch")
  <2>1. v2[w].step \in {"admit", "fetch"} => v6 # "PENDING"
    BY DEF Lease!IInv, Lease!RebuildFirst
  <2>2. CASE Lease!BeginCycle(w)
    BY <2>2 DEF Lease!BeginCycle
  <2>3. CASE Lease!ReportWaiting(w)
    BY <2>1, <2>3 DEF Lease!ReportWaiting
  <2> QED BY <2>2, <2>3
<1>2. CASE v1.owner = w
  <2>1. /\ v1' = [owner |-> w, age |-> 0]
        /\ v2' = [v2 EXCEPT ![w] = [v2[w] EXCEPT !.step = then, !.since = 0]]
    BY <1>0, <1>1, <1>2 DEF Lease!Heartbeat, Lease!Lease
  <2>2. [v2[w] EXCEPT !.step = then, !.since = 0] \in Lease!Worker
    BY <1>0, <1>1, LeaseFresh DEF Lease!Steps
  <2>3. v2' \in [Instances -> Lease!Worker] /\ v2'[w] = [v2[w] EXCEPT !.step = then, !.since = 0]
        /\ \A v \in Instances : v # w => v2'[v] = v2[v]
    BY <1>0, <2>1, <2>2
  <2>4. v2'[w].step = then /\ v2'[w].since = 0 /\ v2'[w].from = v2[w].from /\ v2'[w].at = v2[w].at
    BY <1>0, <2>3 DEF Lease!Worker
  <2>5. Lease!LeaseReported' /\ v1' \in Lease!Lease /\ (\A v \in Instances : v # w => v1'.owner # v)
    BY <1>2, <2>1, <2>3, <2>4, LeaseHeard
  <2>6. Lease!ChunkOf(w)'
    <3> SUFFICES ASSUME then = "fetch" PROVE Lease!ChunkOf(w)'
      BY <1>1, <2>4 DEF Lease!ChunkOf, Lease!Scans
    <3>1. Lease!ChunkOf(w) /\ v2[w].step = "fetch"
      BY <1>1 DEF Lease!IInv, Lease!ChunkStored
    <3>2. Lease!ChunkEnd(w)' = Lease!ChunkEnd(w) /\ Lease!Passed(w)' = Lease!Passed(w)
      BY <2>4, <3>1 DEF Lease!ChunkEnd, Lease!Passed
    <3>3. Lease!Rebuilding' = Lease!Rebuilding
      BY <2>3, <2>4, <3>1 DEF Lease!Rebuilding
    <3>4. Lease!Whole' = Lease!Whole
      BY <1>0, <3>3 DEF Lease!Whole
    <3> QED BY <1>0, <2>4, <3>1, <3>2, <3>4 DEF Lease!ChunkOf, Lease!At
  <2> QED BY <1>0, <1>1, <2>3, <2>4, <2>5, <2>6, LeaseTablesSame DEF Lease!Scans
<1>3. CASE v1.owner # w
  <2>1. v2' = [v2 EXCEPT ![w] = Lease!Stopped] /\ UNCHANGED v1
    BY <1>1, <1>3 DEF Lease!Heartbeat
  <2> QED BY <1>0, <1>3, <2>1, LeaseLeft, LeaseTablesSame DEF Lease!Scans
<1> QED BY <1>2, <1>3

LEMMA LeaseEnds ==
  ASSUME Lease!LeaseAssumption, Lease!IInv, NEW w \in Instances, Lease!Release(w) PROVE Lease!IInv'
<1>1. /\ v1 \in Lease!Lease /\ UNCHANGED <<v3, v4, v5, v6, v7>> /\ v2' = [v2 EXCEPT ![w] = Lease!Stopped]
      /\ v1' = IF v1.owner = w THEN [owner |-> Nobody, age |-> 0] ELSE v1
      /\ v2[w].step \in {"waiting", "cycle"} /\ Nobody \notin Instances /\ Ttl \in Nat
  BY LeaseTypes DEF Lease!Release, Lease!tables
<1>2. v1' \in Lease!Lease /\ (v1.owner = w => v1'.owner \notin Instances)
  BY <1>1 DEF Lease!Lease, Lease!Ages
<1> QED BY <1>1, <1>2, LeaseLeft, LeaseTablesSame DEF Lease!Scans
\* A process that dies in a rebuild leaves it unfinished.
LEMMA LeaseDies ==
  ASSUME Lease!LeaseAssumption, Lease!IInv, NEW w \in Instances, Lease!Die(w) PROVE Lease!IInv'
<1>0. /\ v1 \in Lease!Lease /\ v2 \in [Instances -> Lease!Worker] /\ NoUri \notin Instances
      /\ UNCHANGED <<v3, v4, v5, v6>> /\ v2' = [v2 EXCEPT ![w] = Lease!Stopped]
      /\ v1' = IF v1.owner = w THEN [v1 EXCEPT !.owner = NoUri] ELSE v1
      /\ v7' = IF v2[w].step \in {"rebuild", "derive", "replay"} THEN v7 \cup {"died"} ELSE v7
      /\ v7 \subseteq {"outlived", "died"}
  BY LeaseTypes DEF Lease!Die, Lease!tables
<1>1. v1' \in Lease!Lease /\ (v1.owner = w => v1'.owner \notin Instances)
  BY <1>0 DEF Lease!Lease
<1>2. /\ v2' \in [Instances -> Lease!Worker] /\ v2'[w].step = "stopped" /\ (\A v \in Instances : v # w => v2'[v] = v2[v])
      /\ \A v \in Instances : v # w /\ v1'.owner = v => v1.owner = v
      /\ Lease!ChunkOf(w)' /\ Lease!LeaseReported'
  BY <1>0, <1>1, LeaseLeft
<1>3. v7 \subseteq v7' /\ v7' \subseteq {"outlived", "died"}
  BY <1>0
<1>4. Lease!TypeOK'
  BY <1>0, <1>1, <1>2, <1>3 DEF Lease!IInv, Lease!TypeOK
<1>5. Lease!Whole' => Lease!Whole
  <2>1. v2[w].step \in {"derive", "replay"} => "died" \in v7'
    BY <1>0
  <2>2. Lease!Rebuilding => Lease!Rebuilding' \/ v2[w].step \in {"derive", "replay"}
    BY <1>2 DEF Lease!Rebuilding
  <2> QED BY <1>3, <2>1, <2>2 DEF Lease!Whole
<1>6. v7' = {} /\ ~Lease!Rebuilding' => v7 = {} /\ ~Lease!Rebuilding
  <2>1. v2[w].step \in {"derive", "replay"} => "died" \in v7'
    BY <1>0
  <2>2. Lease!Rebuilding => Lease!Rebuilding' \/ v2[w].step \in {"derive", "replay"}
    BY <1>2 DEF Lease!Rebuilding
  <2> QED BY <1>3, <2>1, <2>2
<1>7. Lease!NothingSkipped' /\ Lease!CreditedOnce'
  <2>1. Lease!NothingSkipped'
    BY <1>0, <1>5 DEF Lease!IInv, Lease!NothingSkipped, Lease!Whole
  <2>2. Lease!CreditedOnce'
    BY <1>0, <1>6 DEF Lease!IInv, Lease!CreditedOnce
  <2> QED BY <2>1, <2>2
<1>8. Lease!ChunkStored'
  <2>1. v3' \in Nat /\ v3' >= v3
    BY <1>0, LeaseTypes
  <2> QED BY <1>0, <1>2, <1>5, <2>1, LeaseChunks
<1>9. Lease!RebuildFirst' /\ Lease!OwnerRebuilds'
  BY <1>0, <1>2, <1>3 DEF Lease!IInv, Lease!RebuildFirst, Lease!OwnerRebuilds, Lease!At
<1> QED BY <1>2, <1>4, <1>7, <1>8, <1>9 DEF Lease!IInv

(***************************************************************************)
(* What a cycle writes.                                                    *)
(***************************************************************************)
\* A step within a cycle, with nothing reported.
LEMMA LeaseGoes ==
  ASSUME Lease!LeaseAssumption, Lease!IInv, NEW w \in Instances, NEW s \in Lease!Steps, v2' = [v2 EXCEPT ![w].step = s]
  PROVE  /\ v2' \in [Instances -> Lease!Worker] /\ (\A v \in Instances : v # w => v2'[v] = v2[v])
         /\ v2'[w].step = s /\ v2'[w].from = v2[w].from /\ v2'[w].at = v2[w].at /\ v2'[w].since = v2[w].since
         /\ Lease!ChunkEnd(w)' = Lease!ChunkEnd(w)
         /\ Lease!Running(w) /\ UNCHANGED v1 => Lease!LeaseReported'
<1>1. v2 \in [Instances -> Lease!Worker] /\ v2[w] \in Lease!Worker
  BY LeaseTypes
<1>2. [v2[w] EXCEPT !.step = s] \in Lease!Worker
  BY <1>1 DEF Lease!Worker
<1>3. v2' \in [Instances -> Lease!Worker] /\ (\A v \in Instances : v # w => v2'[v] = v2[v]) /\ v2'[w] = [v2[w] EXCEPT !.step = s]
  BY <1>1, <1>2
<1>4. v2'[w].step = s /\ v2'[w].from = v2[w].from /\ v2'[w].at = v2[w].at /\ v2'[w].since = v2[w].since
  BY <1>1, <1>3 DEF Lease!Worker
<1>5. ASSUME Lease!Running(w), UNCHANGED v1 PROVE Lease!LeaseReported'
  <2>1. \A v \in Instances : v2'[v].since = v2[v].since /\ (Lease!Running(v)' => Lease!Running(v))
    BY <1>3, <1>4, <1>5 DEF Lease!Running
  <2> QED BY <1>5, <2>1, LeaseUnreported
<1> QED BY <1>3, <1>4, <1>5 DEF Lease!ChunkEnd

LEMMA LeaseNoticed ==
  ASSUME Lease!LeaseAssumption, Lease!IInv, NEW w \in Instances, Lease!Noticed(w)
  PROVE  /\ v7' \subseteq {"outlived", "died"} /\ v7 \subseteq v7' /\ ("died" \in v7' => "died" \in v7)
         /\ v7' = {} => v7 = {} /\ v1.owner = w
BY LeaseTypes DEF Lease!Noticed

\* Scanning: rows are added, and what was derived is kept up with them.
LEMMA LeaseStores ==
  ASSUME Lease!LeaseAssumption, Lease!IInv, NEW w \in Instances, v2[w].step \in Lease!Scans, Lease!Noticed(w),
         NEW s \in Lease!Scans, v2' = [v2 EXCEPT ![w].step = s], UNCHANGED <<v1, v3, v6>>,
         v4' \in Lease!Rows, v5' \in Nat,
         v4.transfers \subseteq v4'.transfers, v4.events \subseteq v4'.events, v4.purchases \subseteq v4'.purchases,
         v7 = {} /\ ~Lease!Rebuilding => v5' = Lease!Cardinality(v4'.purchases),
         Lease!ChunkOf(w)'
  PROVE  Lease!IInv'
<1>0. s \in Lease!Steps /\ s \notin {"stopped", "waiting", "derive", "replay", "rebuild"}
      /\ v2[w].step \notin {"stopped", "waiting", "derive", "replay", "rebuild", "cycle"}
  BY DEF Lease!Scans, Lease!Steps
<1>1. v2' \in [Instances -> Lease!Worker] /\ v2'[w].step = s /\ (\A v \in Instances : v # w => v2'[v] = v2[v])
  BY <1>0, LeaseGoes
<1>2. Lease!LeaseReported'
  BY <1>0, LeaseGoes DEF Lease!Running
<1>3. /\ v7' \subseteq {"outlived", "died"} /\ v7 \subseteq v7' /\ ("died" \in v7' => "died" \in v7)
      /\ v7' = {} => v7 = {} /\ v1.owner = w
  BY LeaseNoticed
<1>4. Lease!TypeOK'
  BY <1>1, <1>3 DEF Lease!IInv, Lease!TypeOK
<1>5. Lease!Rebuilding' = Lease!Rebuilding
  BY <1>0, <1>1 DEF Lease!Rebuilding
<1>6. Lease!Whole' = Lease!Whole
  BY <1>3, <1>5 DEF Lease!Whole
<1>7. Lease!NothingSkipped'
  BY <1>6 DEF Lease!IInv, Lease!NothingSkipped, Lease!Whole
<1>8. Lease!CreditedOnce'
  BY <1>3, <1>5 DEF Lease!CreditedOnce
<1>9. Lease!ChunkStored'
  <2>1. v3' \in Nat /\ v3' >= v3
    BY LeaseTypes
  <2> QED BY <1>1, <1>6, <2>1, LeaseChunks
<1>10. Lease!RebuildFirst'
  <2>1. v6' # "PENDING"
    BY <1>0 DEF Lease!IInv, Lease!RebuildFirst
  <2> QED BY <2>1 DEF Lease!RebuildFirst
<1>11. Lease!OwnerRebuilds'
  BY <1>0, <1>1, <1>3 DEF Lease!OwnerRebuilds, Lease!At
<1> QED BY <1>2, <1>4, <1>7, <1>8, <1>9, <1>10, <1>11 DEF Lease!IInv

\* A rebuild marks its job, derives everything again from the transfers, and puts the purchases back.
LEMMA LeaseRebuilds ==
  ASSUME Lease!LeaseAssumption, Lease!IInv, NEW w \in Instances, Lease!MarkRunning(w) \/ Lease!Derive(w) \/ Lease!Replay(w)
  PROVE  Lease!IInv'
<1>0. /\ UNCHANGED <<v1, v3>> /\ Lease!Noticed(w) /\ v2[w].step \in {"rebuild", "derive", "replay"}
      /\ v4 \in Lease!Rows /\ v5 \in Nat /\ v6 \in {"NONE", "PENDING", "RUNNING", "COMPLETED"}
      /\ v4.transfers \subseteq Lease!Blocks /\ v4.events \subseteq Lease!Blocks /\ v4.purchases \subseteq Lease!Blocks
  BY LeaseTypes DEF Lease!MarkRunning, Lease!Derive, Lease!Replay, Lease!At
<1>1. PICK s \in {"derive", "replay", "admit"} :
        /\ v2' = [v2 EXCEPT ![w].step = s]
        /\ s = "derive" => Lease!MarkRunning(w)
        /\ s = "replay" => Lease!Derive(w)
        /\ s = "admit" => Lease!Replay(w)
  BY DEF Lease!MarkRunning, Lease!Derive, Lease!Replay, Lease!Goes
<1>2. s \in Lease!Steps /\ Lease!Running(w)
  BY <1>0 DEF Lease!Steps, Lease!Running
<1>3. /\ v2' \in [Instances -> Lease!Worker] /\ (\A v \in Instances : v # w => v2'[v] = v2[v]) /\ v2'[w].step = s
      /\ Lease!LeaseReported'
  BY <1>0, <1>1, <1>2, LeaseGoes
<1>4. /\ v7' \subseteq {"outlived", "died"} /\ v7 \subseteq v7' /\ ("died" \in v7' => "died" \in v7)
      /\ v7' = {} => v7 = {} /\ v1.owner = w
  BY <1>0, LeaseNoticed
<1>5. Lease!ChunkOf(w)'
  BY <1>3 DEF Lease!ChunkOf, Lease!Scans
<1>6. v3' \in Nat /\ v3' >= v3
  BY <1>0, LeaseTypes
<1>7. CASE s = "derive"
  <2>1. UNCHANGED <<v4, v5>> /\ v6' = "RUNNING" /\ v2[w].step = "rebuild"
    BY <1>1, <1>7 DEF Lease!MarkRunning, Lease!At
  <2>2. Lease!TypeOK'
    BY <1>0, <1>3, <1>4, <2>1 DEF Lease!IInv, Lease!TypeOK
  <2>3. Lease!Rebuilding' /\ ~Lease!Whole'
    BY <1>3, <1>7 DEF Lease!Rebuilding, Lease!Whole
  <2>4. Lease!NothingSkipped' /\ Lease!CreditedOnce'
    BY <1>0, <2>1, <2>3 DEF Lease!IInv, Lease!NothingSkipped, Lease!CreditedOnce
  <2>5. Lease!ChunkStored'
    BY <1>3, <1>5, <1>6, <2>1, <2>3, LeaseChunks
  <2>6. Lease!RebuildFirst'
    BY <2>1 DEF Lease!RebuildFirst
  <2>7. v7' = {} => v4.transfers = v4.events
    BY <1>4, <2>1 DEF Lease!IInv, Lease!OwnerRebuilds, Lease!RebuildFirst, Lease!At
  <2>8. Lease!OwnerRebuilds'
    BY <1>0, <1>3, <1>4, <1>7, <2>1, <2>7 DEF Lease!OwnerRebuilds, Lease!At
  <2> QED BY <1>3, <2>2, <2>4, <2>5, <2>6, <2>8 DEF Lease!IInv
<1>8. CASE s = "replay"
  <2>1. v4' = [v4 EXCEPT !.purchases = {}] /\ v5' = Lease!Cardinality(v4.transfers) /\ v6' = v6 /\ v2[w].step = "derive"
    BY <1>1, <1>8 DEF Lease!Derive, Lease!At
  <2>2. v4' \in Lease!Rows /\ v4'.transfers = v4.transfers /\ v4'.events = v4.events /\ v4'.purchases = {}
    BY <1>0, <2>1 DEF Lease!Rows
  <2>3. v5' \in Nat
    BY <1>0, <2>1, LeaseBlocks, LeaseTypes
  <2>4. Lease!TypeOK'
    BY <1>0, <1>3, <1>4, <2>1, <2>2, <2>3 DEF Lease!IInv, Lease!TypeOK
  <2>5. Lease!Rebuilding' /\ ~Lease!Whole'
    BY <1>3, <1>8 DEF Lease!Rebuilding, Lease!Whole
  <2>6. Lease!NothingSkipped' /\ Lease!CreditedOnce'
    BY <1>0, <2>2, <2>5 DEF Lease!IInv, Lease!NothingSkipped, Lease!CreditedOnce
  <2>7. Lease!ChunkStored'
    BY <1>3, <1>5, <1>6, <2>2, <2>5, LeaseChunks
  <2>8. Lease!RebuildFirst'
    BY <2>1 DEF Lease!IInv, Lease!RebuildFirst
  <2>9. v7' = {} => v4.transfers = v4.events
    BY <1>4, <2>1 DEF Lease!IInv, Lease!OwnerRebuilds
  <2>10. Lease!OwnerRebuilds'
    BY <1>0, <1>3, <1>4, <1>8, <2>1, <2>2, <2>9 DEF Lease!OwnerRebuilds, Lease!At
  <2> QED BY <1>3, <2>4, <2>6, <2>7, <2>8, <2>10 DEF Lease!IInv
<1>9. CASE s = "admit"
  <2>1. /\ v4' = [v4 EXCEPT !.purchases = v4.purchases \cup v4.events] /\ v5' = v5 /\ v6' = "COMPLETED"
        /\ v2[w].step = "replay"
    BY <1>0, <1>1, <1>9 DEF Lease!Replay, Lease!At, Lease!Rows
  <2>2. /\ v4.purchases \cup v4.events \in SUBSET Lease!Blocks
    BY <1>0
  <2>3. v4' \in Lease!Rows /\ v4'.transfers = v4.transfers /\ v4'.events = v4.events /\ v4'.purchases = v4.purchases \cup v4.events
    BY <1>0, <2>1, <2>2 DEF Lease!Rows
  <2>4. Lease!TypeOK'
    BY <1>0, <1>3, <1>4, <2>1, <2>3 DEF Lease!IInv, Lease!TypeOK
  <2>5. Lease!NothingSkipped'
    BY <1>0, <2>3 DEF Lease!IInv, Lease!NothingSkipped
  <2>6. v7' = {} => v4.transfers = v4.events /\ v4.purchases = {} /\ v5 = Lease!Cardinality(v4.transfers)
    BY <1>4, <2>1 DEF Lease!IInv, Lease!OwnerRebuilds, Lease!At
  <2>7. Lease!CreditedOnce'
    BY <2>1, <2>3, <2>6 DEF Lease!CreditedOnce
  <2>8. v4.events \subseteq v4'.purchases /\ v4.transfers \subseteq v4'.transfers /\ v4.events \subseteq v4'.events
    BY <2>3
  <2>9. Lease!ChunkStored'
    BY <1>3, <1>5, <1>6, <2>8, LeaseChunks
  <2>10. Lease!RebuildFirst'
    BY <2>1 DEF Lease!RebuildFirst
  <2>11. Lease!OwnerRebuilds'
    BY <1>0, <1>3, <1>4, <1>9 DEF Lease!OwnerRebuilds, Lease!At
  <2> QED BY <1>3, <2>4, <2>5, <2>7, <2>9, <2>10, <2>11 DEF Lease!IInv
<1> QED BY <1>7, <1>8, <1>9
(***************************************************************************)
(* The steps of a scan.                                                    *)
(***************************************************************************)
\* A worker takes up a block, within what it may count to.
Turned(w, s, f, a) == [v2 EXCEPT ![w] = [v2[w] EXCEPT !.step = s, !.from = f, !.at = a]]

LEMMA LeaseTurns ==
  ASSUME Lease!LeaseAssumption, Lease!IInv, NEW w \in Instances, NEW s \in Lease!Steps,
         NEW f \in 0..(Height + 1), NEW a \in 0..(Height + 1),
         v2' = Turned(w, s, f, a)
  PROVE  /\ v2' \in [Instances -> Lease!Worker] /\ (\A v \in Instances : v # w => v2'[v] = v2[v])
         /\ v2'[w].step = s /\ v2'[w].from = f /\ v2'[w].at = a /\ v2'[w].since = v2[w].since
         /\ Lease!Running(w) /\ UNCHANGED v1 => Lease!LeaseReported'
<1>1. v2 \in [Instances -> Lease!Worker] /\ v2[w] \in Lease!Worker
  BY LeaseTypes
<1> DEFINE n == [v2[w] EXCEPT !.step = s, !.from = f, !.at = a]
<1>2. n \in Lease!Worker
  <2>1. \A A, B, C : \A q \in [step : A, from : B, at : B, since : C], x \in A, y \in B, z \in B :
          [q EXCEPT !.step = x, !.from = y, !.at = z] \in [step : A, from : B, at : B, since : C]
    BY ZenonT(60)
  <2>2. Lease!Worker = [step : Lease!Steps, from : 0..(Height + 1), at : 0..(Height + 1), since : Lease!Ages]
    BY DEF Lease!Worker
  <2> QED BY <1>1, <2>1, <2>2
<1>3. n.step = s /\ n.from = f /\ n.at = a /\ n.since = v2[w].since
  BY <1>1 DEF Lease!Worker
<1>4. v2' = [v2 EXCEPT ![w] = n]
  BY DEF Turned
<1> HIDE DEF n
<1>5. v2' \in [Instances -> Lease!Worker] /\ (\A v \in Instances : v # w => v2'[v] = v2[v]) /\ v2'[w] = n
  BY <1>1, <1>2, <1>4
<1>6. v2'[w].step = s /\ v2'[w].from = f /\ v2'[w].at = a /\ v2'[w].since = v2[w].since
  BY <1>3, <1>5
<1>7. ASSUME Lease!Running(w), UNCHANGED v1 PROVE Lease!LeaseReported'
  <2>1. \A v \in Instances : v2'[v].since = v2[v].since /\ (Lease!Running(v)' => Lease!Running(v))
    BY <1>5, <1>6, <1>7 DEF Lease!Running
  <2> QED BY <1>7, <2>1, LeaseUnreported
<1> QED BY <1>5, <1>6, <1>7

LEMMA LeaseAdmits ==
  ASSUME Lease!LeaseAssumption, Lease!IInv, NEW w \in Instances, Lease!Admit(w) PROVE Lease!IInv'
<1>0. /\ Height \in Nat /\ ChunkBlocks \in Nat /\ ChunkBlocks > 0 /\ v3 \in 1..(Height + 1) /\ v1 \in Lease!Lease
      /\ v2 \in [Instances -> Lease!Worker] /\ v2[w] \in Lease!Worker
  BY LeaseTypes
<1>1. UNCHANGED <<v1, v3, v4, v5, v6, v7>> /\ v2[w].step = "admit"
  BY DEF Lease!Admit, Lease!tables, Lease!At
<1> DEFINE s == IF v3 > Height THEN "cycle" ELSE "fetch"
<1>2. v2' = Turned(w, s, v3, v3)
  BY <1>0 DEF Lease!Admit, Turned
<1>3. s \in Lease!Steps /\ s \in {"cycle", "fetch"} /\ (s = "fetch" => v3 <= Height) /\ v3 \in 0..(Height + 1)
      /\ Lease!Running(w)
  BY <1>0, <1>1 DEF Lease!Steps, Lease!Running
<1> HIDE DEF s
<1>4. /\ v2' \in [Instances -> Lease!Worker] /\ (\A v \in Instances : v # w => v2'[v] = v2[v])
      /\ v2'[w].step = s /\ v2'[w].from = v3 /\ v2'[w].at = v3 /\ v2'[w].since = v2[w].since
      /\ Lease!LeaseReported'
  <2>1. s \in Lease!Steps /\ v3 \in 0..(Height + 1) /\ UNCHANGED v1 /\ Lease!Running(w)
    BY <1>1, <1>3
  <2> QED BY <1>2, <2>1, LeaseTurns
<1>5. v6 # "PENDING"
  BY <1>1 DEF Lease!IInv, Lease!RebuildFirst
<1>6. Lease!ChunkOf(w)'
  <2> SUFFICES ASSUME s = "fetch" PROVE Lease!ChunkOf(w)'
    BY <1>3, <1>4 DEF Lease!ChunkOf, Lease!Scans
  <2>1. Lease!ChunkEnd(w)' >= v3 /\ v3 >= 1
    BY <1>0, <1>3, <1>4 DEF Lease!ChunkEnd, Lease!Least
  <2>2. Lease!Passed(w)' = {}
    <3>1. Lease!Passed(w)' = v3..(v3 - 1)
      BY <1>4 DEF Lease!Passed
    <3> QED BY <1>0, <3>1
  <2> QED BY <1>0, <1>1, <1>4, <2>1, <2>2 DEF Lease!ChunkOf, Lease!At
<1> QED BY <1>0, <1>1, <1>3, <1>4, <1>5, <1>6, LeaseTablesSame DEF Lease!Scans

LEMMA LeaseFetches ==
  ASSUME Lease!LeaseAssumption, Lease!IInv, NEW w \in Instances, Lease!Fetch(w) PROVE Lease!IInv'
<1>0. v1 \in Lease!Lease /\ "transfer" \in Lease!Steps
  BY LeaseTypes DEF Lease!Steps
<1>1. UNCHANGED <<v1, v3, v4, v5, v6, v7>> /\ v2[w].step = "fetch" /\ v2' = [v2 EXCEPT ![w].step = "transfer"]
  BY DEF Lease!Fetch, Lease!tables, Lease!At, Lease!Goes
<1>2. /\ v2' \in [Instances -> Lease!Worker] /\ (\A v \in Instances : v # w => v2'[v] = v2[v])
      /\ v2'[w].step = "transfer" /\ v2'[w].from = v2[w].from /\ v2'[w].at = v2[w].at
      /\ Lease!ChunkEnd(w)' = Lease!ChunkEnd(w) /\ Lease!LeaseReported'
  BY <1>0, <1>1, LeaseGoes DEF Lease!Running
<1>3. v6 # "PENDING"
  BY <1>1 DEF Lease!IInv, Lease!RebuildFirst
<1>4. Lease!ChunkOf(w)'
  <2>1. Lease!ChunkOf(w) /\ Lease!Passed(w)' = Lease!Passed(w)
    BY <1>1, <1>2 DEF Lease!IInv, Lease!ChunkStored, Lease!Passed
  <2>2. Lease!Whole' = Lease!Whole
    BY <1>1, <1>2 DEF Lease!Whole, Lease!Rebuilding
  <2> QED BY <1>1, <1>2, <2>1, <2>2 DEF Lease!ChunkOf, Lease!At, Lease!Scans
<1> QED BY <1>0, <1>1, <1>2, <1>3, <1>4, LeaseTablesSame DEF Lease!Scans

\* The block a worker is at.
LEMMA LeaseHere ==
  ASSUME Lease!LeaseAssumption, Lease!IInv, NEW w \in Instances, v2[w].step \in Lease!Scans
  PROVE  /\ v2[w].at \in Lease!Blocks /\ v2[w].from \in 1..Height /\ Lease!ChunkOf(w)
         /\ Lease!ChunkEnd(w) \in 1..Height /\ v2[w].at <= Lease!ChunkEnd(w) /\ v2[w].from <= v2[w].at /\ v2[w].from <= v3
<1>1. Lease!ChunkOf(w)
  BY DEF Lease!IInv, Lease!ChunkStored
<1>2. /\ 1 <= v2[w].from /\ v2[w].from <= v3 /\ v2[w].from <= v2[w].at /\ v2[w].at <= Lease!ChunkEnd(w)
  BY <1>1 DEF Lease!ChunkOf
<1>3. v2[w].from \in Nat /\ v2[w].at \in Nat /\ Height \in Nat /\ ChunkBlocks \in Nat
  BY LeaseTypes
<1>4. Lease!ChunkEnd(w) <= Height /\ Lease!ChunkEnd(w) \in Int
  BY <1>3 DEF Lease!ChunkEnd, Lease!Least
<1> QED BY <1>1, <1>2, <1>3, <1>4 DEF Lease!Blocks

LEMMA LeaseScans ==
  ASSUME Lease!LeaseAssumption, Lease!IInv, NEW w \in Instances,
         Lease!StoreTransfer(w) \/ Lease!StoreEvent(w) \/ Lease!StorePurchase(w)
  PROVE  Lease!IInv'
<1>0. /\ v4 \in Lease!Rows /\ v5 \in Nat /\ v4.transfers \subseteq Lease!Blocks /\ v4.events \subseteq Lease!Blocks
      /\ v4.purchases \subseteq Lease!Blocks /\ v2[w].from \in Nat /\ v2[w].at \in Nat
  BY LeaseTypes
<1>1. v2[w].step \in {"transfer", "event", "purchase"} /\ v2[w].step \in Lease!Scans /\ Lease!Noticed(w) /\ UNCHANGED <<v1, v3, v6>>
  BY DEF Lease!StoreTransfer, Lease!StoreEvent, Lease!StorePurchase, Lease!At, Lease!Scans
<1>2. /\ v2[w].at \in Lease!Blocks /\ Lease!ChunkOf(w) /\ v2[w].from <= v2[w].at
  BY <1>1, LeaseHere
<1>3. PICK s \in {"event", "purchase", "report"} :
        /\ v2' = [v2 EXCEPT ![w].step = s]
        /\ s = "event" => Lease!StoreTransfer(w)
        /\ s = "purchase" => Lease!StoreEvent(w)
        /\ s = "report" => Lease!StorePurchase(w)
  BY DEF Lease!StoreTransfer, Lease!StoreEvent, Lease!StorePurchase, Lease!Goes
<1>4. s \in Lease!Steps /\ s \in Lease!Scans
  BY DEF Lease!Steps, Lease!Scans
<1>5. /\ v2'[w].step = s /\ v2'[w].from = v2[w].from /\ v2'[w].at = v2[w].at /\ Lease!ChunkEnd(w)' = Lease!ChunkEnd(w)
      /\ (\A v \in Instances : v # w => v2'[v] = v2[v])
  BY <1>3, <1>4, LeaseGoes
<1>6. Lease!Whole' => Lease!Whole
  <2>1. "died" \in v7' \/ "died" \notin v7
    BY <1>1, LeaseNoticed
  <2>2. Lease!Rebuilding => Lease!Rebuilding'
    BY <1>1, <1>5 DEF Lease!Rebuilding
  <2> QED BY <2>1, <2>2 DEF Lease!Whole
<1>7. /\ v2[w].from <= v3 /\ 1 <= v2[w].from /\ v2[w].at <= Lease!ChunkEnd(w)
      /\ Lease!Passed(w) = v2[w].from..(v2[w].at - 1)
  BY <1>1, <1>2 DEF Lease!ChunkOf, Lease!Passed
<1>8. CASE s = "event"
  <2>1. v4' = [v4 EXCEPT !.transfers = v4.transfers \cup {v2[w].at}] /\ v5' = v5 /\ v2[w].step = "transfer"
    BY <1>0, <1>3, <1>8 DEF Lease!StoreTransfer, Lease!Rows, Lease!At
  <2>2. v4.transfers \cup {v2[w].at} \in SUBSET Lease!Blocks
    BY <1>0, <1>2
  <2>3. v4' \in Lease!Rows /\ v4'.transfers = v4.transfers \cup {v2[w].at} /\ v4'.events = v4.events /\ v4'.purchases = v4.purchases
    BY <1>0, <2>1, <2>2 DEF Lease!Rows
  <2>4. Lease!Passed(w)' = Lease!Passed(w)
    BY <1>5, <1>7, <1>8 DEF Lease!Passed
  <2>5. Lease!ChunkOf(w)'
    BY <1>1, <1>2, <1>5, <1>6, <1>7, <1>8, <2>3, <2>4 DEF Lease!ChunkOf, Lease!At
  <2>6. v7 = {} /\ ~Lease!Rebuilding => v5' = Lease!Cardinality(v4'.purchases)
    BY <2>1, <2>3 DEF Lease!IInv, Lease!CreditedOnce
  <2> QED BY <1>0, <1>1, <1>3, <1>4, <2>1, <2>3, <2>5, <2>6, LeaseStores
<1>9. CASE s = "purchase"
  <2>1. v4' = [v4 EXCEPT !.events = v4.events \cup {v2[w].at}] /\ v5' = v5 /\ v2[w].step = "event"
    BY <1>0, <1>3, <1>9 DEF Lease!StoreEvent, Lease!Rows, Lease!At
  <2>2. v4.events \cup {v2[w].at} \in SUBSET Lease!Blocks
    BY <1>0, <1>2
  <2>3. v4' \in Lease!Rows /\ v4'.events = v4.events \cup {v2[w].at} /\ v4'.transfers = v4.transfers /\ v4'.purchases = v4.purchases
    BY <1>0, <2>1, <2>2 DEF Lease!Rows
  <2>4. Lease!Passed(w)' = Lease!Passed(w)
    BY <1>5, <1>7, <1>9 DEF Lease!Passed
  <2>5. Lease!ChunkOf(w)'
    BY <1>1, <1>2, <1>5, <1>6, <1>7, <1>9, <2>1, <2>3, <2>4 DEF Lease!ChunkOf, Lease!At
  <2>6. v7 = {} /\ ~Lease!Rebuilding => v5' = Lease!Cardinality(v4'.purchases)
    BY <2>1, <2>3 DEF Lease!IInv, Lease!CreditedOnce
  <2> QED BY <1>0, <1>1, <1>3, <1>4, <2>1, <2>3, <2>5, <2>6, LeaseStores
<1>10. CASE s = "report"
  <2>1. /\ v4' = [v4 EXCEPT !.purchases = v4.purchases \cup {v2[w].at}] /\ v2[w].step = "purchase"
        /\ v5' = IF v2[w].at \in v4.purchases THEN v5 ELSE v5 + 1
    BY <1>0, <1>3, <1>10 DEF Lease!StorePurchase, Lease!Rows, Lease!At
  <2>2. v4.purchases \cup {v2[w].at} \in SUBSET Lease!Blocks
    BY <1>0, <1>2
  <2>3. v4' \in Lease!Rows /\ v4'.events = v4.events /\ v4'.transfers = v4.transfers /\ v4'.purchases = v4.purchases \cup {v2[w].at}
    BY <1>0, <2>1, <2>2 DEF Lease!Rows
  <2>4. Lease!Passed(w)' = Lease!Passed(w) \cup {v2[w].at}
    <3>1. Lease!Passed(w)' = v2[w].from..v2[w].at
      BY <1>5, <1>10 DEF Lease!Passed
    <3> QED BY <1>0, <1>2, <1>7, <3>1
  <2>5. v2[w].at \in v4.transfers /\ v2[w].at \in v4.events
    BY <1>2, <2>1, <1>1 DEF Lease!ChunkOf, Lease!At
  <2>6. Lease!Passed(w)' \subseteq v4'.transfers \cap v4'.events
    BY <1>1, <1>2, <2>3, <2>4, <2>5 DEF Lease!ChunkOf
  <2>7. Lease!Whole' => Lease!Passed(w)' \subseteq v4'.purchases
    BY <1>1, <1>2, <1>6, <2>3, <2>4 DEF Lease!ChunkOf
  <2>8. Lease!ChunkOf(w)'
    BY <1>1, <1>2, <1>5, <1>7, <1>10, <2>6, <2>7 DEF Lease!ChunkOf, Lease!At
  <2>9. v7 = {} /\ ~Lease!Rebuilding => v5' = Lease!Cardinality(v4'.purchases)
    <3> SUFFICES ASSUME v7 = {}, ~Lease!Rebuilding PROVE v5' = Lease!Cardinality(v4'.purchases)
      OBVIOUS
    <3>1. v5 = Lease!Cardinality(v4.purchases)
      BY DEF Lease!IInv, Lease!CreditedOnce
    <3>2. v2[w].at \notin v4.purchases => Lease!Cardinality(v4.purchases \cup {v2[w].at}) = Lease!Cardinality(v4.purchases) + 1
      BY <1>0, <1>2, LeaseBlocks, LeaseTypes
    <3>3. v2[w].at \in v4.purchases => v4'.purchases = v4.purchases
      BY <2>3
    <3> QED BY <2>1, <2>3, <3>1, <3>2, <3>3
  <2>10. v5' \in Nat
    BY <1>0, <2>1
  <2> QED BY <1>0, <1>1, <1>3, <1>4, <2>3, <2>8, <2>9, <2>10, LeaseStores
<1> QED BY <1>8, <1>9, <1>10
\* The block is done: the heartbeat again, and the next block or the end of the chunk.
LEMMA LeaseReports ==
  ASSUME Lease!LeaseAssumption, Lease!IInv, NEW w \in Instances, Lease!Report(w) PROVE Lease!IInv'
<1>0. /\ v1 \in Lease!Lease /\ v2 \in [Instances -> Lease!Worker] /\ v2[w] \in Lease!Worker /\ Ttl \in Nat /\ Height \in Nat
      /\ v2[w].from \in Nat /\ v2[w].at \in Nat
  BY LeaseTypes
<1>1. UNCHANGED <<v3, v4, v5, v6, v7>> /\ v2[w].step = "report" /\ v2[w].step \in Lease!Scans
  BY DEF Lease!Report, Lease!tables, Lease!At, Lease!Scans
<1>2. v6 # "PENDING"
  BY <1>1 DEF Lease!IInv, Lease!RebuildFirst
<1>3. CASE v1.owner # w
  <2>1. v2' = [v2 EXCEPT ![w] = Lease!Stopped] /\ UNCHANGED v1
    BY <1>3 DEF Lease!Report
  <2> QED BY <1>0, <1>1, <1>3, <2>1, LeaseLeft, LeaseTablesSame DEF Lease!Scans
<1>4. CASE v1.owner = w
  <2> DEFINE s == IF v2[w].at < Lease!ChunkEnd(w) THEN "transfer" ELSE "advance"
             a == Lease!Least(Lease!ChunkEnd(w), v2[w].at + 1)
             n == [v2[w] EXCEPT !.step = s, !.at = a, !.since = 0]
  <2>1. v1' = [owner |-> w, age |-> 0]
    BY <1>0, <1>4 DEF Lease!Report, Lease!Lease
  <2>2. v2' = [v2 EXCEPT ![w] = n]
    <3>1. v2' = [v2 EXCEPT ![w].since = 0, ![w].step = s, ![w].at = a]
      BY <1>4 DEF Lease!Report
    <3> QED BY <1>0, <3>1 DEF Lease!Worker
  <2>3. s \in Lease!Steps /\ s \in {"transfer", "advance"} /\ s \in Lease!Scans
    BY DEF Lease!Steps, Lease!Scans
  <2>4. /\ v2[w].at \in Lease!Blocks /\ v2[w].from \in 1..Height /\ Lease!ChunkOf(w)
        /\ Lease!ChunkEnd(w) \in 1..Height /\ v2[w].at <= Lease!ChunkEnd(w) /\ v2[w].from <= v2[w].at /\ v2[w].from <= v3
    BY <1>1, LeaseHere
  <2>5. /\ a \in 1..Height /\ v2[w].from <= a /\ a <= Lease!ChunkEnd(w)
        /\ s = "transfer" => a = v2[w].at + 1
        /\ s = "advance" => a = Lease!ChunkEnd(w) /\ v2[w].at = Lease!ChunkEnd(w)
    BY <1>0, <2>4 DEF Lease!Least
  <2> HIDE DEF s, a
  <2>6. n \in Lease!Worker
    <3>1. \A A, B, C : \A q \in [step : A, from : B, at : B, since : C], x \in A, y \in B, z \in C :
            [q EXCEPT !.step = x, !.at = y, !.since = z] \in [step : A, from : B, at : B, since : C]
      BY ZenonT(60)
    <3>2. Lease!Worker = [step : Lease!Steps, from : 0..(Height + 1), at : 0..(Height + 1), since : Lease!Ages]
      BY DEF Lease!Worker
    <3>3. 0 \in Lease!Ages /\ a \in 0..(Height + 1)
      BY <1>0, <2>5 DEF Lease!Ages
    <3> QED BY <1>0, <2>3, <3>1, <3>2, <3>3
  <2>7. n.step = s /\ n.at = a /\ n.since = 0 /\ n.from = v2[w].from
    BY <1>0 DEF Lease!Worker
  <2> HIDE DEF n
  <2>8. /\ v2' \in [Instances -> Lease!Worker] /\ (\A v \in Instances : v # w => v2'[v] = v2[v])
        /\ v2'[w] = n
    BY <1>0, <2>2, <2>6
  <2>9. v2'[w].step = s /\ v2'[w].at = a /\ v2'[w].since = 0 /\ v2'[w].from = v2[w].from
    BY <2>7, <2>8
  <2>10. Lease!LeaseReported' /\ v1' \in Lease!Lease /\ (\A v \in Instances : v # w => v1'.owner # v)
    BY <1>4, <2>1, <2>8, <2>9, LeaseHeard
  <2>11. Lease!ChunkEnd(w)' = Lease!ChunkEnd(w)
    BY <2>9 DEF Lease!ChunkEnd
  <2>12. Lease!Passed(w)' = Lease!Passed(w)
    <3>1. Lease!Passed(w) = v2[w].from..v2[w].at
      BY <1>1 DEF Lease!Passed
    <3>2. CASE s = "transfer"
      <4>1. Lease!Passed(w)' = v2[w].from..(a - 1)
        BY <2>9, <3>2 DEF Lease!Passed
      <4> QED BY <1>0, <2>5, <3>1, <3>2, <4>1
    <3>3. CASE s = "advance"
      BY <2>5, <2>9, <3>1, <3>3 DEF Lease!Passed
    <3> QED BY <2>3, <3>2, <3>3
  <2>13. Lease!Whole' = Lease!Whole
    BY <1>1, <2>3, <2>8, <2>9 DEF Lease!Whole, Lease!Rebuilding
  <2>14. Lease!ChunkOf(w)'
    BY <1>1, <2>3, <2>4, <2>5, <2>9, <2>11, <2>12, <2>13 DEF Lease!ChunkOf, Lease!At
  <2> QED BY <1>0, <1>1, <1>2, <2>3, <2>8, <2>9, <2>10, <2>14, LeaseTablesSame DEF Lease!Scans
<1> QED BY <1>3, <1>4

\* The end of a chunk: the checkpoint moves past blocks that are stored, or the cycle ends.
LEMMA LeaseAdvances ==
  ASSUME Lease!LeaseAssumption, Lease!IInv, NEW w \in Instances, Lease!Advance(w) PROVE Lease!IInv'
<1>0. /\ v1 \in Lease!Lease /\ v2 \in [Instances -> Lease!Worker] /\ v2[w] \in Lease!Worker /\ Ttl \in Nat /\ Height \in Nat
      /\ v3 \in 1..(Height + 1) /\ ChunkBlocks \in Nat /\ ChunkBlocks > 0
  BY LeaseTypes
<1>1. UNCHANGED <<v1, v4, v5, v6>> /\ v2[w].step = "advance" /\ v2[w].step \in Lease!Scans /\ Lease!Running(w)
  BY DEF Lease!Advance, Lease!At, Lease!Scans, Lease!Running
<1>2. v6 # "PENDING"
  BY <1>1 DEF Lease!IInv, Lease!RebuildFirst
<1> DEFINE to == Lease!ChunkEnd(w) + 1
<1>3. /\ v2[w].at \in Lease!Blocks /\ v2[w].from \in 1..Height /\ Lease!ChunkOf(w)
      /\ Lease!ChunkEnd(w) \in 1..Height /\ v2[w].from <= v3
  BY <1>1, LeaseHere
<1>4. to \in 2..(Height + 1) /\ to \in 0..(Height + 1) /\ to \in Nat
  BY <1>0, <1>3
<1>5. Lease!Passed(w) = v2[w].from..(to - 1)
  BY <1>1, <1>3 DEF Lease!Passed, Lease!ChunkOf, Lease!At
<1>6. CASE ~Lease!MayAdvance(to)
  <2>1. v2' = Turned(w, "cycle", 0, 0) /\ UNCHANGED <<v3, v7>>
    BY <1>0, <1>6 DEF Lease!Advance, Turned
  <2>2. "cycle" \in Lease!Steps /\ 0 \in 0..(Height + 1)
    BY <1>0 DEF Lease!Steps
  <2>3. /\ v2' \in [Instances -> Lease!Worker] /\ (\A v \in Instances : v # w => v2'[v] = v2[v])
        /\ v2'[w].step = "cycle" /\ Lease!LeaseReported'
    BY <1>1, <2>1, <2>2, LeaseTurns
  <2>4. Lease!ChunkOf(w)'
    BY <2>3 DEF Lease!ChunkOf, Lease!Scans
  <2> QED BY <1>0, <1>1, <2>1, <2>3, <2>4, LeaseTablesSame DEF Lease!Scans
<1>7. CASE Lease!MayAdvance(to)
  <2> DEFINE s == IF to > Height THEN "cycle" ELSE "fetch"
             f == IF to > Height THEN 0 ELSE to
  <2>1. v2' = Turned(w, s, f, f) /\ v3' = to /\ Lease!Noticed(w) /\ to >= v3
    BY <1>0, <1>7 DEF Lease!Advance, Lease!MayAdvance, Turned
  <2>2. s \in Lease!Steps /\ s \in {"cycle", "fetch"} /\ f \in 0..(Height + 1) /\ (s = "fetch" => f = to /\ to <= Height)
    BY <1>0, <1>4 DEF Lease!Steps
  <2> HIDE DEF s, f
  <2>3. /\ v2' \in [Instances -> Lease!Worker] /\ (\A v \in Instances : v # w => v2'[v] = v2[v])
        /\ v2'[w].step = s /\ v2'[w].from = f /\ v2'[w].at = f /\ Lease!LeaseReported'
    BY <1>1, <2>1, <2>2, LeaseTurns
  <2>4. /\ v7' \subseteq {"outlived", "died"} /\ v7 \subseteq v7' /\ ("died" \in v7' => "died" \in v7)
        /\ v7' = {} => v7 = {} /\ v1.owner = w
    BY <2>1, LeaseNoticed
  <2>5. Lease!TypeOK'
    <3>1. v3' \in 1..(Height + 1)
      BY <1>0, <1>4, <2>1
    <3> QED BY <1>1, <2>3, <2>4, <3>1 DEF Lease!IInv, Lease!TypeOK
  <2>6. Lease!Rebuilding' = Lease!Rebuilding
    BY <1>1, <2>2, <2>3 DEF Lease!Rebuilding
  <2>7. Lease!Whole' = Lease!Whole
    BY <2>4, <2>6 DEF Lease!Whole
  <2>8. 1..(v3' - 1) \subseteq 1..(v3 - 1) \cup Lease!Passed(w)
    <3> SUFFICES ASSUME NEW b \in 1..(to - 1), b \notin 1..(v3 - 1) PROVE b \in Lease!Passed(w)
      BY <2>1
    <3>1. b \in Int /\ 1 <= b /\ b <= to - 1 /\ v3 \in Int /\ v2[w].from \in Int /\ v2[w].from <= v3
      BY <1>0, <1>3, <1>4
    <3>2. v2[w].from <= b
      BY <3>1
    <3> QED BY <1>5, <3>1, <3>2
  <2>9. Lease!NothingSkipped'
    <3>1. 1..(v3 - 1) \subseteq v4.transfers \cap v4.events /\ Lease!Passed(w) \subseteq v4.transfers \cap v4.events
      BY <1>1, <1>3 DEF Lease!IInv, Lease!NothingSkipped, Lease!ChunkOf
    <3>2. Lease!Whole => 1..(v3 - 1) \subseteq v4.purchases /\ Lease!Passed(w) \subseteq v4.purchases
      BY <1>1, <1>3 DEF Lease!IInv, Lease!NothingSkipped, Lease!ChunkOf, Lease!Whole
    <3>3. 1..(v3' - 1) \subseteq v4'.transfers \cap v4'.events
      BY <1>1, <2>8, <3>1
    <3>4. Lease!Whole' => 1..(v3' - 1) \subseteq v4'.purchases
      BY <1>1, <2>7, <2>8, <3>2
    <3> QED BY <3>3, <3>4 DEF Lease!NothingSkipped, Lease!Whole
  <2>10. Lease!CreditedOnce'
    BY <1>1, <2>4, <2>6 DEF Lease!IInv, Lease!CreditedOnce
  <2>11. Lease!ChunkOf(w)'
    <3> SUFFICES ASSUME s = "fetch" PROVE Lease!ChunkOf(w)'
      BY <2>2, <2>3 DEF Lease!ChunkOf, Lease!Scans
    <3>1. v2'[w].from = to /\ v2'[w].at = to /\ v2'[w].step = "fetch" /\ to <= Height
      BY <2>2, <2>3
    <3>2. Lease!ChunkEnd(w)' >= to /\ to >= 1
      BY <1>0, <1>4, <3>1 DEF Lease!ChunkEnd, Lease!Least
    <3>3. Lease!Passed(w)' = {}
      <4>1. Lease!Passed(w)' = to..(to - 1)
        BY <3>1 DEF Lease!Passed
      <4> QED BY <1>4, <4>1
    <3> QED BY <1>4, <2>1, <3>1, <3>2, <3>3 DEF Lease!ChunkOf, Lease!At
  <2>12. Lease!ChunkStored'
    <3>1. v3' \in Nat /\ v3' >= v3
      BY <1>4, <2>1
    <3> QED BY <1>1, <2>3, <2>7, <2>11, <3>1, LeaseChunks
  <2>13. Lease!RebuildFirst'
    BY <1>1, <1>2 DEF Lease!RebuildFirst
  <2>14. Lease!OwnerRebuilds'
    BY <1>1, <2>2, <2>3, <2>4 DEF Lease!OwnerRebuilds, Lease!At
  <2> QED BY <2>3, <2>5, <2>9, <2>10, <2>12, <2>13, <2>14 DEF Lease!IInv
<1> QED BY <1>6, <1>7

LEMMA LeaseKept ==
  ASSUME Lease!LeaseAssumption, Lease!IInv, [Lease!Next]_(Lease!vars) PROVE Lease!IInv'
<1>1. CASE UNCHANGED Lease!vars
  BY <1>1 DEF Lease!vars, Lease!IInv, Lease!TypeOK, Lease!LeaseReported, Lease!Running, Lease!NothingSkipped, Lease!Rebuilding,
              Lease!CreditedOnce, Lease!ChunkStored, Lease!ChunkOf, Lease!ChunkEnd, Lease!Passed, Lease!Whole, Lease!At,
              Lease!RebuildFirst, Lease!OwnerRebuilds
<1>2. CASE Lease!Next
  BY <1>2, LeaseTicks, LeaseBegins, LeaseHeartbeats, LeaseEnds, LeaseDies, LeaseRebuilds, LeaseAdmits, LeaseFetches,
     LeaseScans, LeaseReports, LeaseAdvances DEF Lease!Next
<1> QED BY <1>1, <1>2

\* Of two workers in their cycles only the owner can have a fresh heartbeat.
LEMMA LeaseExclusive ==
  ASSUME Lease!LeaseAssumption, Lease!IInv PROVE Lease!Exclusive
<1>1. Lease!OneFresh
  <2> SUFFICES ASSUME NEW v \in Instances, NEW w \in Instances, v # w, Lease!Running(v), Lease!Running(w),
                      ~(v2[v].since > Ttl), ~(v2[w].since > Ttl)
               PROVE  FALSE
    BY DEF Lease!OneFresh
  <2>1. v2[v].since <= Ttl /\ v2[w].since <= Ttl
    BY LeaseTypes
  <2> QED BY <2>1 DEF Lease!IInv, Lease!LeaseReported
<1> QED BY <1>1 DEF Lease!IInv, Lease!Exclusive

-----------------------------------------------------------------------------
(***************************************************************************)
(* The pacer.  What waits at the gate is as far from the last call as the  *)
(* spacing asks, and the ordinary lane is overtaken no longer than the     *)
(* priority lane has its turns.                                            *)
(***************************************************************************)
LEMMA PacerStep ==
  part = "pacer" /\ [NextOne]_allVars => part' = "pacer" /\ [Pacer!Next]_(Pacer!vars)
BY DEF NextOne, Steps, allVars, vVars, Pacer!vars

\* The constants are natural numbers, and so is what is made of them.
LEMMA PacerNumbers ==
  Pacer!PacerAssumption =>
    /\ MinInterval \in Nat /\ Cooldown \in Nat /\ MaxDelay \in Nat /\ Penalty \in Nat /\ MaxQueued \in Nat
    /\ FairnessWindow \in Nat /\ FairnessWindow > 0 /\ Cooldown <= MaxDelay /\ MinInterval <= Penalty
    /\ Pacer!Long \in Nat /\ Pacer!Spacing \in Nat /\ Pacer!Spacing <= Pacer!Long /\ Cooldown <= Pacer!Long
    /\ Pacer!Spacing <= MaxDelay /\ Pacer!Spacing <= MinInterval
BY DEF Pacer!PacerAssumption, Pacer!Long, Pacer!Spacing, Pacer!Lesser

LEMMA PacerFresh ==
  ASSUME Pacer!PacerAssumption,
         v1' = [l \in Pacer!Lanes |-> 0], v2' = Pacer!Idle, v3' = 0, v4' = 0, v5' = 0,
         v6' = [success |-> Pacer!Long, limited |-> Pacer!Long], v7' = 0
  PROVE  Pacer!IInv'
<1> USE PacerNumbers
<1>1. Pacer!TypeOK'
  <2>1. v2' \in [step : {"idle", "reporting", "sleeping", "calling"}, lane : Pacer!Lanes \cup {"none"}, left : 0..MaxDelay]
    BY DEF Pacer!Idle
  <2>2. v6' \in [success : 0..Pacer!Long, limited : 0..Pacer!Long]
    OBVIOUS
  <2>3. v1' \in [Pacer!Lanes -> 0..MaxQueued]
    OBVIOUS
  <2> QED BY <2>1, <2>2, <2>3 DEF Pacer!TypeOK
<1>2. v2'.step = "idle" /\ v7' <= v3'
  BY DEF Pacer!Idle
<1>3. Pacer!KeepsDistance(v4)'
  BY DEF Pacer!KeepsDistance
<1> QED BY <1>1, <1>2, <1>3 DEF Pacer!IInv

LEMMA PacerStarts == Pacer!PacerAssumption /\ Pacer!Init => Pacer!IInv
<1> SUFFICES ASSUME Pacer!PacerAssumption, Pacer!Init PROVE Pacer!IInv
  OBVIOUS
<1> USE PacerNumbers
<1>1. Pacer!TypeOK
  <2>1. v2 \in [step : {"idle", "reporting", "sleeping", "calling"}, lane : Pacer!Lanes \cup {"none"}, left : 0..MaxDelay]
    BY DEF Pacer!Init, Pacer!Idle
  <2>2. v6 \in [success : 0..Pacer!Long, limited : 0..Pacer!Long]
    BY DEF Pacer!Init
  <2> QED BY <2>1, <2>2 DEF Pacer!Init, Pacer!TypeOK
<1>2. v2.step = "idle" /\ v7 <= v3
  BY DEF Pacer!Init, Pacer!Idle
<1>3. Pacer!KeepsDistance(v4)
  BY DEF Pacer!Init, Pacer!KeepsDistance
<1> QED BY <1>1, <1>2, <1>3 DEF Pacer!IInv

\* Taking the next call keeps the lanes fair, and the call waits until the gate opens.
LEMMA PacerTakes ==
  ASSUME Pacer!PacerAssumption, Pacer!IInv, NEW w \in [Pacer!Lanes -> 0..MaxQueued], NEW opens \in 0..MaxDelay,
         Pacer!Dequeued(w, opens)
  PROVE  /\ v1' \in [Pacer!Lanes -> 0..MaxQueued] /\ v3' \in 0..FairnessWindow /\ v7' \in Nat /\ v7' <= v3'
         /\ v2' \in [step : {"idle", "reporting", "sleeping", "calling"}, lane : Pacer!Lanes \cup {"none"}, left : 0..MaxDelay]
         /\ v2'.step # "idle" => v2'.left = opens
         /\ v2'.step = "calling" => v2'.left = 0
<1> USE PacerNumbers
<1>0. v3 \in 0..FairnessWindow /\ v7 \in Nat /\ v7 <= v3
  BY DEF Pacer!IInv, Pacer!TypeOK
<1>1. CASE \A l \in Pacer!Lanes : w[l] = 0
  <2>1. v1' = w /\ v2' = Pacer!Idle /\ v3' = 0 /\ v7' = 0
    BY <1>1 DEF Pacer!Dequeued
  <2> QED BY <2>1 DEF Pacer!Idle
<1>2. CASE ~(\A l \in Pacer!Lanes : w[l] = 0)
  <2> DEFINE lane == IF Pacer!PriorityNext(w, v3) THEN "priority" ELSE "normal"
  <2>1. /\ v1' = [w EXCEPT ![lane] = @ - 1]
        /\ v2' = [step |-> IF opens > 0 THEN "reporting" ELSE "calling", lane |-> lane, left |-> opens]
        /\ v3' = IF lane = "priority" THEN Pacer!Lesser(FairnessWindow, v3 + 1) ELSE 0
        /\ v7' = IF lane = "priority" /\ w["normal"] > 0 THEN v7 + 1 ELSE 0
    BY <1>2 DEF Pacer!Dequeued
  <2>2. lane \in Pacer!Lanes /\ w["priority"] \in Nat /\ w["normal"] \in Nat
    BY DEF Pacer!Lanes
  <2>3. w[lane] # 0
    BY <1>2, <2>2 DEF Pacer!PriorityNext, Pacer!Lanes
  <2>4. v1' \in [Pacer!Lanes -> 0..MaxQueued]
    BY <2>1, <2>2, <2>3
  <2>5. v2' \in [step : {"idle", "reporting", "sleeping", "calling"}, lane : Pacer!Lanes \cup {"none"}, left : 0..MaxDelay]
    BY <2>1, <2>2
  <2>6. v2'.left = opens /\ (v2'.step = "calling" => opens = 0)
    BY <2>1
  <2>7. v3' \in 0..FairnessWindow /\ v7' \in Nat /\ v7' <= v3'
    <3>1. CASE lane = "priority" /\ w["normal"] > 0
      <4>1. v3 < FairnessWindow
        BY <3>1, <2>2 DEF Pacer!PriorityNext
      <4> QED BY <3>1, <4>1, <2>1, <1>0 DEF Pacer!Lesser
    <3>2. CASE ~(lane = "priority" /\ w["normal"] > 0)
      <4>1. v7' = 0 /\ v3' \in {0, Pacer!Lesser(FairnessWindow, v3 + 1)}
        BY <3>2, <2>1
      <4> QED BY <4>1, <1>0 DEF Pacer!Lesser
    <3> QED BY <3>1, <3>2
  <2> QED BY <2>4, <2>5, <2>6, <2>7
<1> QED BY <1>1, <1>2

LEMMA PacerKept == Pacer!PacerAssumption /\ Pacer!IInv /\ Pacer!Next => Pacer!IInv'
<1> SUFFICES ASSUME Pacer!PacerAssumption, Pacer!IInv, Pacer!Next PROVE Pacer!IInv'
  OBVIOUS
<1> USE PacerNumbers
<1> DEFINE Pump == [step : {"idle", "reporting", "sleeping", "calling"}, lane : Pacer!Lanes \cup {"none"}, left : 0..MaxDelay]
           Answers == [success : 0..Pacer!Long, limited : 0..Pacer!Long]
<1>t. /\ v1 \in [Pacer!Lanes -> 0..MaxQueued] /\ v2 \in Pump /\ v3 \in 0..FairnessWindow
      /\ v4 \in 0..MaxDelay /\ v5 \in Nat /\ v6 \in Answers /\ v7 \in Nat
  BY DEF Pacer!IInv, Pacer!TypeOK
<1>i. /\ v7 <= v3 /\ v4 + v6.success >= Pacer!Spacing /\ v4 + v6.limited >= Cooldown
      /\ v2.step # "idle" => v2.left + v6.success >= Pacer!Spacing /\ v2.left + v6.limited >= Cooldown
      /\ v2.step = "calling" => v2.left = 0
  BY DEF Pacer!IInv, Pacer!KeepsDistance
<1>e. v6.success \in Nat /\ v6.limited \in Nat /\ v2.left \in Nat
  BY <1>t
\* A call is taken once the gate is where its answer has put it.
<1>d. ASSUME NEW w \in [Pacer!Lanes -> 0..MaxQueued], Pacer!Dequeued(w, v4'),
             v4' \in 0..MaxDelay, v5' \in Nat, v6' \in Answers,
             v4' + v6'.success >= Pacer!Spacing, v4' + v6'.limited >= Cooldown
      PROVE  Pacer!IInv'
  <2>1. /\ v1' \in [Pacer!Lanes -> 0..MaxQueued] /\ v3' \in 0..FairnessWindow /\ v7' \in Nat /\ v7' <= v3'
        /\ v2' \in Pump
        /\ v2'.step # "idle" => v2'.left = v4'
        /\ v2'.step = "calling" => v2'.left = 0
    BY <1>d, PacerTakes
  <2>2. Pacer!TypeOK'
    BY <1>d, <2>1 DEF Pacer!TypeOK
  <2> QED BY <1>d, <2>1, <2>2 DEF Pacer!IInv, Pacer!KeepsDistance
<1>1. ASSUME NEW lane \in Pacer!Lanes, Pacer!Schedule(lane) PROVE Pacer!IInv'
  <2> DEFINE w == [v1 EXCEPT ![lane] = @ + 1]
  <2>1. v1[lane] < MaxQueued /\ UNCHANGED <<v4, v5, v6>>
    BY <1>1 DEF Pacer!Schedule
  <2>2. w \in [Pacer!Lanes -> 0..MaxQueued]
    BY <2>1, <1>t
  <2>3. CASE v2 = Pacer!Idle
    <3>1. Pacer!Dequeued(w, v4')
      BY <1>1, <2>1, <2>3 DEF Pacer!Schedule
    <3> HIDE DEF w
    <3> QED BY <1>d, <1>t, <1>i, <2>1, <2>2, <3>1
  <2>4. CASE v2 # Pacer!Idle
    <3>1. v1' = w /\ UNCHANGED <<v2, v3, v7>>
      BY <1>1, <2>4 DEF Pacer!Schedule
    <3> QED BY <2>1, <2>2, <3>1, <1>t DEF Pacer!IInv, Pacer!TypeOK, Pacer!KeepsDistance
  <2> QED BY <2>3, <2>4
<1>2. CASE Pacer!Reported \/ Pacer!Wake
  <2>1. /\ UNCHANGED <<v1, v3, v4, v5, v6, v7>> /\ v2.step # "idle"
        /\ v2' \in Pump /\ v2'.left = v2.left /\ (v2'.step = "calling" => v2.left = 0)
    BY <1>2, <1>t DEF Pacer!Reported, Pacer!Wake
  <2>2. Pacer!TypeOK'
    BY <2>1, <1>t DEF Pacer!TypeOK
  <2> QED BY <2>1, <2>2, <1>i DEF Pacer!IInv, Pacer!KeepsDistance
<1>3. CASE Pacer!ReportFails
  BY <1>3, PacerFresh DEF Pacer!ReportFails
<1>4. CASE Pacer!Succeed
  <2> DEFINE delay == IF v5 > 0 THEN Pacer!Greater(MinInterval, Pacer!Lesser(MaxDelay, Penalty)) ELSE MinInterval
  <2>1. v4' = Pacer!Bumped(delay) /\ Pacer!Dequeued(v1, v4') /\ v6' = [v6 EXCEPT !.success = 0] /\ v5' = v5
    BY <1>4 DEF Pacer!Succeed
  <2>2. delay \in Nat /\ delay >= MinInterval
    BY DEF Pacer!Greater, Pacer!Lesser
  <2>3. v4' \in 0..MaxDelay /\ v4' >= v4 /\ v4' >= Pacer!Spacing
    <3> HIDE DEF delay
    <3> QED BY <2>1, <2>2, <1>t DEF Pacer!Bumped, Pacer!Greater, Pacer!Lesser, Pacer!Spacing
  <2>4. v6' \in Answers /\ v6'.success = 0 /\ v6'.limited = v6.limited
    BY <2>1, <1>t
  <2>5. v4' + v6'.success >= Pacer!Spacing /\ v4' + v6'.limited >= Cooldown
    BY <2>3, <2>4, <1>i, <1>e, <1>t
  <2> QED BY <1>d, <2>1, <2>3, <2>4, <2>5, <1>t
<1>5. CASE Pacer!Fail
  <2>1. Pacer!Dequeued(v1, v4') /\ UNCHANGED <<v4, v5, v6>>
    BY <1>5 DEF Pacer!Fail
  <2> QED BY <1>d, <2>1, <1>t, <1>i
<1>6. CASE Pacer!Tick
  <2>1. /\ v2.step = "sleeping" => v2.left > 0
        /\ v4' = Pacer!Elapsed(v4) /\ v5' = Pacer!Elapsed(v5)
        /\ v2' = IF v2.step = "sleeping" THEN [v2 EXCEPT !.left = @ - 1] ELSE v2
        /\ UNCHANGED <<v1, v3, v7>>
    BY <1>6 DEF Pacer!Tick
  <2>2. v6' = [success |-> Pacer!Lesser(Pacer!Long, v6.success + 1), limited |-> Pacer!Lesser(Pacer!Long, v6.limited + 1)]
    <3>1. v6' = [k \in DOMAIN v6 |-> Pacer!Lesser(Pacer!Long, v6[k] + 1)]
      BY <1>6 DEF Pacer!Tick
    <3>2. DOMAIN v6 = {"success", "limited"}
      BY <1>t
    <3> QED BY <3>1, <3>2
  <2>3. v6' \in Answers
    BY <2>2, <1>e DEF Pacer!Lesser
  <2>4. /\ v6'.success \in {v6.success + 1, Pacer!Long} /\ v6'.limited \in {v6.limited + 1, Pacer!Long}
    BY <2>2 DEF Pacer!Lesser
  <2>5. v4' \in 0..MaxDelay /\ v4' >= v4 - 1 /\ v5' \in Nat
    BY <2>1, <1>t DEF Pacer!Elapsed, Pacer!Greater
  <2>6. v2' \in Pump /\ v2'.step = v2.step /\ v2'.left >= v2.left - 1 /\ (v2.step # "sleeping" => v2' = v2)
    BY <2>1, <1>t
  <2>7. Pacer!TypeOK'
    BY <2>1, <2>3, <2>5, <2>6, <1>t DEF Pacer!TypeOK
  <2>8. Pacer!KeepsDistance(v4)'
    BY <2>4, <2>5, <1>i, <1>e, <1>t DEF Pacer!KeepsDistance
  <2>9. v2'.step # "idle" => Pacer!KeepsDistance(v2.left)'
    <3>1. v2'.left \in Nat
      BY <2>6
    <3> QED BY <3>1, <2>4, <2>6, <1>i, <1>e DEF Pacer!KeepsDistance
  <2> QED BY <2>1, <2>6, <2>7, <2>8, <2>9, <1>i DEF Pacer!IInv
<1>7. ASSUME NEW retryAfter \in RetryAfters, Pacer!RateLimited(retryAfter) PROVE Pacer!IInv'
  <2>1. /\ v4' = Pacer!Bumped(Pacer!Greater(Cooldown, retryAfter)) /\ Pacer!Dequeued(v1, v4')
        /\ v6' = [v6 EXCEPT !.limited = 0]
        /\ v5' = Pacer!Greater(v5, v4' + Pacer!Greater(MinInterval, Pacer!Lesser(MaxDelay, Penalty)))
    BY <1>7 DEF Pacer!RateLimited
  <2>2. retryAfter \in Nat
    BY DEF Pacer!PacerAssumption
  <2>3. v4' \in 0..MaxDelay /\ v4' >= v4 /\ v4' >= Cooldown
    BY <2>1, <2>2, <1>t DEF Pacer!Bumped, Pacer!Greater, Pacer!Lesser
  <2>4. v5' \in Nat
    BY <2>1, <2>3, <1>t DEF Pacer!Greater, Pacer!Lesser
  <2>5. v6' \in Answers /\ v6'.limited = 0 /\ v6'.success = v6.success
    BY <2>1, <1>t
  <2>6. v4' + v6'.success >= Pacer!Spacing /\ v4' + v6'.limited >= Cooldown
    BY <2>3, <2>5, <1>i, <1>e, <1>t
  <2> QED BY <1>d, <2>1, <2>3, <2>4, <2>5, <2>6, <1>t
<1> QED BY <1>1, <1>2, <1>3, <1>4, <1>5, <1>6, <1>7 DEF Pacer!Next

LEMMA PacerFair == Pacer!PacerAssumption /\ Pacer!IInv => Pacer!Fair
<1> SUFFICES ASSUME Pacer!PacerAssumption, Pacer!IInv PROVE Pacer!Fair
  OBVIOUS
<1>1. v7 <= v3 /\ v3 \in 0..FairnessWindow /\ v7 \in Nat /\ FairnessWindow \in Nat
  BY PacerNumbers DEF Pacer!IInv, Pacer!TypeOK
<1>2. v6.success \in Nat /\ v6.limited \in Nat
  BY PacerNumbers DEF Pacer!IInv, Pacer!TypeOK
<1>3. v2.step = "calling" => v2.left = 0 /\ Pacer!KeepsDistance(v2.left)
  BY DEF Pacer!IInv
<1>4. Pacer!Spaced
  BY <1>2, <1>3 DEF Pacer!Spaced, Pacer!KeepsDistance
<1> QED BY <1>1, <1>4 DEF Pacer!Fair, Pacer!ScanProceeds

-----------------------------------------------------------------------------
\* The invariants of the lease and the pacer hold in every behaviour.
LEMMA WorkerInvariant == SpecOne => []((part = "lease" => Lease!IInv) /\ (part = "pacer" => Pacer!IInv))
<1> DEFINE Inv == (part = "lease" => Lease!IInv) /\ (part = "pacer" => Pacer!IInv)
<1>1. InitOne => Inv
  BY Parameters, LeaseStarts, PacerStarts DEF InitOne, Starts
<1>2. Inv /\ [NextOne]_allVars => Inv'
  <2> SUFFICES ASSUME Inv, [NextOne]_allVars PROVE Inv'
    OBVIOUS
  <2>1. part' = part
    BY DEF NextOne, Steps, allVars
  <2>2. CASE part = "lease"
    <3>1. [Lease!Next]_(Lease!vars) /\ Lease!IInv
      BY <2>2, LeaseStep
    <3>2. Lease!IInv'
      BY <3>1, Parameters, LeaseKept
    <3> QED BY <2>1, <2>2, <3>2
  <2>3. CASE part = "pacer"
    <3>1. [Pacer!Next]_(Pacer!vars) /\ Pacer!IInv
      BY <2>3, PacerStep
    <3>2. CASE Pacer!Next
      BY <2>1, <2>3, <3>1, <3>2, Parameters, PacerKept
    <3>3. CASE UNCHANGED Pacer!vars
      BY <2>1, <2>3, <3>1, <3>3 DEF Pacer!vars, Pacer!IInv, Pacer!TypeOK, Pacer!KeepsDistance
    <3> QED BY <3>1, <3>2, <3>3
  <2> QED BY <2>1, <2>2, <2>3
<1> QED BY <1>1, <1>2, PTL DEF SpecOne

\* Two workers never run side by side while both keep reporting; whatever dies or outlives its
\* lease, nothing is skipped but what a rebuild cut short had cleared, and nothing is credited twice
\* while only the owner of the lease writes; and the calls to the node keep their order and their
\* distance (server/indexer-store.js, indexer-worker.js, indexer-rpc.js), for any number of workers
\* and blocks, any lease time, intervals and queue limits.
THEOREM WorkerAlwaysKept == SpecOne => []WorkerKept
<1> DEFINE Inv == (part = "lease" => Lease!IInv) /\ (part = "pacer" => Pacer!IInv)
<1>1. Inv => WorkerKept
  BY Parameters, LeaseExclusive, PacerFair DEF WorkerKept
<1>2. SpecOne => []Inv
  BY WorkerInvariant
<1> QED BY <1>1, <1>2, PTL

-----------------------------------------------------------------------------
(***************************************************************************)
(* The scan of the Genesis transfers.  The parts of its invariant are      *)
(* stated of one history h, one run r of the scan s, and one queue q, on a *)
(* chain c with f forks: a step changes few of these, and what a part says *)
(* of the others is kept as it is.                                         *)
(***************************************************************************)
\* The parts of the invariant, of one history, one run and one queue on a chain.
LogsCanonical(h, b, c) == \A x \in h.from..b : h.logs[x] = c[x]

HistoryOnChain(h, c, f) ==
  /\ h.from <= h.end /\ h.end <= Len(c) /\ h.hash <= f
  /\ DOMAIN h.logs = h.from..h.end
  /\ Len(h.anchors) <= MaxAnchors

AnchorsRise(h, f) ==
  \A k \in DOMAIN h.anchors :
    /\ h.from <= h.anchors[k].end /\ h.anchors[k].end < h.end /\ h.anchors[k].hash <= f
    /\ \A j \in 1..(k - 1) : h.anchors[j].end < h.anchors[k].end

HistoryTrusted(h, c) ==
  /\ c[h.end] = h.hash => LogsCanonical(h, h.end, c)
  /\ \A k \in DOMAIN h.anchors : c[h.anchors[k].end] = h.anchors[k].hash => LogsCanonical(h, h.anchors[k].end, c)

HistorySound(h, c, f) ==
  h.end > 0 => /\ HistoryOnChain(h, c, f) /\ AnchorsRise(h, f)
               /\ DeepMidScan \/ HistoryTrusted(h, c)

RunFrom(r, s) == IF r.cached.end > 0 THEN r.cached.end + 1 ELSE s.from
RunThrough(r, s) == RunFrom(r, s) + Len(r.fresh) - 1
RunFirst(r, s) == IF r.cached.end > 0 THEN r.cached.from ELSE s.from
RunLog(r, s, x) == IF x < RunFrom(r, s) THEN r.cached.logs[x] ELSE r.fresh[x - RunFrom(r, s) + 1]
RunEnd(r, s) == IF RunThrough(r, s) < s.head - Confirmations THEN RunThrough(r, s) ELSE s.head - Confirmations
RunReads(r, s, c) ==
  \A x \in RunFirst(r, s)..RunThrough(r, s) : x <= s.head - Confirmations => RunLog(r, s, x) = c[x]

RunOn(r, s, c) ==
  /\ r.step = "idle" => r = Scan!Idle
  /\ r.step # "idle" => /\ RunThrough(r, s) <= s.head
                        /\ r.cached.end > 0 => r.cached.from <= s.from /\ r.cached.end <= s.head
  /\ r.step \in {"check", "rewind"} => r.cached.end > 0 /\ r.fresh = <<>>
  /\ r.step = "rewind" => r.index <= Len(r.cached.anchors)
  /\ r.step \in {"check", "rewind", "logs"} => ~r.failed
  /\ r.step \in {"hash", "save"} => /\ RunFrom(r, s) <= RunEnd(r, s)
                                    /\ ~r.failed => RunThrough(r, s) = s.head
  /\ r.step \in {"logs", "hash", "save"} => DeepMidScan \/ RunReads(r, s, c)

RunExtension(r, s, hash) ==
  LET anchors == IF r.cached.end > 0 THEN Append(r.cached.anchors, Scan!Base(r.cached)) ELSE <<>>
  IN [from |-> RunFirst(r, s), end |-> RunEnd(r, s), hash |-> hash,
      anchors |-> IF Len(anchors) > MaxAnchors THEN Scan!Newest(anchors) ELSE anchors,
      logs |-> [x \in RunFirst(r, s)..RunEnd(r, s) |-> RunLog(r, s, x)]]

AskWithin(ask, n) ==
  ask.at \in Instances /\ ask.from <= ask.latest /\ ask.latest <= ask.head /\ ask.head <= n
QueueOn(i, q, asked, n) ==
  \A k \in DOMAIN q :
    /\ q[k].from <= q[k].head /\ q[k].head <= n
    /\ \A c \in q[k].callers : asked[c].step = "waiting" /\ asked[c].at = i /\ q[k].from <= asked[c].from
    /\ \A j \in DOMAIN q : j # k => q[k].callers \cap q[j].callers = {}

\* The invariant, of these parts.
LEMMA TrustedMeans ==
  ASSUME NEW h
  PROVE  Scan!Sound(h) <=> HistorySound(h, v1, v2)
<1>1. Scan!Base(h).end = h.end /\ Scan!Base(h).hash = h.hash
  BY DEF Scan!Base
<1>2. Scan!Kept(h) => (Scan!Trustworthy(h) <=> HistoryTrusted(h, v1))
  <2>1. Scan!ToSet(h.anchors) = {h.anchors[k] : k \in DOMAIN h.anchors}
    BY DEF Scan!ToSet
  <2> QED BY <1>1, <2>1 DEF Scan!Trustworthy, HistoryTrusted, Scan!TrueUpTo, LogsCanonical
<1>3. Scan!Sound(h) <=> (Scan!Kept(h) => /\ HistoryOnChain(h, v1, v2) /\ AnchorsRise(h, v2)
                                        /\ (DeepMidScan \/ Scan!Trustworthy(h)))
  BY Zenon DEF Scan!Sound, HistoryOnChain, AnchorsRise, Scan!HeadBlock
<1> QED BY <1>2, <1>3 DEF HistorySound, Scan!Kept

LEMMA RunMeans ==
  ASSUME NEW i
  PROVE  Scan!RunSound(i) <=> RunOn(v7[i], Scan!Scan(i), v1) /\ (v7[i].step # "idle" => v6[i] # <<>>)
<1>1. /\ Scan!Through(i) = RunThrough(v7[i], Scan!Scan(i)) /\ Scan!FirstBlock(i) = RunFirst(v7[i], Scan!Scan(i))
      /\ Scan!ScanFrom(i) = RunFrom(v7[i], Scan!Scan(i)) /\ Scan!ExtendTo(i) = RunEnd(v7[i], Scan!Scan(i))
  BY DEF Scan!Through, Scan!FirstBlock, Scan!ScanFrom, Scan!ExtendTo, Scan!SafeEnd, RunThrough, RunFirst, RunFrom, RunEnd, Scan!Cached, Scan!Kept
<1>2. \A b : \A x \in Scan!FirstBlock(i)..b : Scan!LogsThrough(i, b)[x] = RunLog(v7[i], Scan!Scan(i), x)
  BY <1>1 DEF Scan!LogsThrough, RunLog, Scan!Cached
<1>3. Scan!ReadTruly(i) <=> RunReads(v7[i], Scan!Scan(i), v1)
  BY <1>1, <1>2 DEF Scan!ReadTruly, RunReads, Scan!SafeEnd
<1> QED
  BY <1>1, <1>3 DEF Scan!RunSound, RunOn, Scan!Cached, Scan!Kept, Scan!Usable, Scan!PastChecks
-----------------------------------------------------------------------------
\* A chain that goes on as d after c keeps whatever was read where the two agree.
GoesOn(c, d, f) ==
  /\ Len(c) <= Len(d)
  /\ \A b \in 1..Len(c), v \in 0..f : d[b] = v => \A x \in 1..b : d[x] = c[x]

LEMMA SoundKept ==
  ASSUME Scan!ScanAssumption, NEW h \in Scan!History, NEW c, NEW d, NEW f \in 0..MaxForks, NEW g \in 0..MaxForks,
         Len(c) \in Nat, Len(d) \in Nat, f <= g, GoesOn(c, d, f), HistorySound(h, c, f)
  PROVE  HistorySound(h, d, g)
<1> SUFFICES ASSUME h.end > 0 PROVE HistorySound(h, d, g)
  BY DEF HistorySound
<1>1. h.from \in 1..MaxHead /\ h.end \in 0..MaxHead /\ h.hash \in 0..MaxForks /\ h.anchors \in Seq(Scan!Position)
  BY DEF Scan!History, Scan!Blocks
<1>2. HistoryOnChain(h, c, f) /\ AnchorsRise(h, f) /\ (DeepMidScan \/ HistoryTrusted(h, c))
  BY DEF HistorySound
<1>4. MaxHead \in Nat /\ MaxForks \in Nat
  BY DEF Scan!ScanAssumption
<1>3. \A k \in DOMAIN h.anchors : h.anchors[k].end \in Int /\ h.anchors[k].hash \in 0..MaxForks
  <2>1. \A k \in DOMAIN h.anchors : h.anchors[k] \in Scan!Position
    BY <1>1
  <2> QED BY <1>4, <2>1 DEF Scan!Position
<1>5. HistoryOnChain(h, d, g)
  BY <1>1, <1>2, <1>4 DEF HistoryOnChain, GoesOn
<1>6. AnchorsRise(h, g)
  BY SMTT(40), <1>1, <1>2, <1>3, <1>4 DEF AnchorsRise
<1>7. ASSUME NEW e \in 1..h.end, h.from <= e, NEW v \in 0..f, d[e] = v, c[e] = v => LogsCanonical(h, e, c)
      PROVE  LogsCanonical(h, e, d)
  <2>1. e \in 1..Len(c)
    BY <1>1, <1>2, <1>4 DEF HistoryOnChain
  <2>2. \A x \in 1..e : d[x] = c[x]
    BY <1>7, <2>1 DEF GoesOn
  <2>3. LogsCanonical(h, e, c)
    BY <1>1, <1>7, <2>2
  <2> QED BY <1>1, <2>2, <2>3 DEF LogsCanonical
<1>8. HistoryTrusted(h, c) => HistoryTrusted(h, d)
  <2> SUFFICES ASSUME HistoryTrusted(h, c) PROVE HistoryTrusted(h, d)
    OBVIOUS
  <2>1. d[h.end] = h.hash => LogsCanonical(h, h.end, d)
    <3>1. h.end \in 1..h.end /\ h.from <= h.end /\ h.hash \in 0..f
      BY <1>1, <1>2, <1>4 DEF HistoryOnChain
    <3> QED BY <1>7, <3>1 DEF HistoryTrusted
  <2>2. ASSUME NEW k \in DOMAIN h.anchors, d[h.anchors[k].end] = h.anchors[k].hash
        PROVE  LogsCanonical(h, h.anchors[k].end, d)
    <3>1. h.anchors[k].end \in 1..h.end /\ h.from <= h.anchors[k].end /\ h.anchors[k].hash \in 0..f
      BY SMTT(40), <1>1, <1>2, <1>3, <1>4, <2>2 DEF AnchorsRise
    <3> QED BY <1>7, <2>2, <3>1 DEF HistoryTrusted
  <2> QED BY <2>1, <2>2 DEF HistoryTrusted
<1> QED BY <1>2, <1>5, <1>6, <1>8 DEF HistorySound

LEMMA LogsIn ==
  ASSUME NEW S \in SUBSET Scan!Blocks, NEW l \in [S -> 1..MaxForks]
  PROVE  l \in Scan!Logs
BY DEF Scan!Logs

\* Cut back to an anchor that is canonical, a history is sound and wholly canonical.
LEMMA RewoundSound ==
  ASSUME Scan!ScanAssumption, NEW h \in Scan!History, NEW c, NEW f \in 0..MaxForks, Len(c) \in Nat, h.end > 0,
         HistorySound(h, c, f), NEW k \in DOMAIN h.anchors
  PROVE  LET cut == Scan!Rewound(h, k)
         IN  /\ cut \in Scan!History /\ HistorySound(cut, c, f)
             /\ cut.end > 0 /\ cut.from = h.from /\ cut.end < h.end
             /\ c[h.anchors[k].end] = h.anchors[k].hash => DeepMidScan \/ LogsCanonical(cut, cut.end, c)
<1> DEFINE cut == Scan!Rewound(h, k)
<1>1. /\ cut.from = h.from /\ cut.end = h.anchors[k].end /\ cut.hash = h.anchors[k].hash
      /\ cut.anchors = SubSeq(h.anchors, 1, k - 1)
      /\ cut.logs = [x \in h.from..h.anchors[k].end |-> h.logs[x]]
      /\ cut = [from |-> cut.from, end |-> cut.end, hash |-> cut.hash, anchors |-> cut.anchors, logs |-> cut.logs]
  BY DEF Scan!Rewound
<1> HIDE DEF cut
<1>2. h.from \in 1..MaxHead /\ h.end \in 0..MaxHead /\ h.hash \in 0..MaxForks /\ h.anchors \in Seq(Scan!Position)
  BY DEF Scan!History, Scan!Blocks
<1>3. HistoryOnChain(h, c, f) /\ AnchorsRise(h, f) /\ (DeepMidScan \/ HistoryTrusted(h, c))
  BY DEF HistorySound
<1>5. MaxHead \in Nat /\ MaxForks \in Nat /\ MaxAnchors \in Nat
  BY DEF Scan!ScanAssumption
<1>4. \A j \in DOMAIN h.anchors : h.anchors[j] \in Scan!Position /\ h.anchors[j].end \in Int /\ h.anchors[j].hash \in 0..MaxForks
  <2>1. \A j \in DOMAIN h.anchors : h.anchors[j] \in Scan!Position
    BY <1>2
  <2> QED BY <1>5, <2>1 DEF Scan!Position
<1>6. k \in 1..Len(h.anchors) /\ Len(h.anchors) \in Nat /\ DOMAIN h.anchors = 1..Len(h.anchors)
  BY <1>2
<1>7. /\ cut.anchors \in Seq(Scan!Position) /\ Len(cut.anchors) = k - 1 /\ DOMAIN cut.anchors = 1..(k - 1)
      /\ \A j \in 1..(k - 1) : cut.anchors[j] = h.anchors[j]
  <2>1. PICK s \in Seq(Scan!Position) : s = h.anchors
    BY <1>2
  <2>2. 1 \in Int /\ k - 1 \in Int /\ k - 1 <= Len(s) /\ k - 1 \in Nat
    BY <1>6, <2>1
  <2>3. SubSeq(s, 1, k - 1) \in Seq(Scan!Position) /\ Len(SubSeq(s, 1, k - 1)) = k - 1
    BY ONLY <2>1, <2>2
  <2>4. \A j \in 1..(k - 1) : SubSeq(s, 1, k - 1)[j] = s[j]
    BY ONLY <2>1, <2>2
  <2>5. DOMAIN SubSeq(s, 1, k - 1) = 1..(k - 1)
    BY <2>3
  <2> QED BY <1>1, <2>1, <2>3, <2>4, <2>5
<1>8. h.from <= cut.end /\ cut.end < h.end /\ cut.end > 0 /\ cut.end \in 0..MaxHead /\ cut.hash \in 0..f
  BY SMTT(40), <1>1, <1>2, <1>3, <1>4, <1>5 DEF AnchorsRise
<1>9. \A x \in cut.from..cut.end : x \in DOMAIN h.logs /\ h.logs[x] \in 1..MaxForks /\ cut.logs[x] = h.logs[x]
  <2>1. \A x \in DOMAIN h.logs : h.logs[x] \in 1..MaxForks
    BY DEF Scan!History, Scan!Logs
  <2>2. DOMAIN h.logs = h.from..h.end
    BY <1>3 DEF HistoryOnChain
  <2>3. \A x \in cut.from..cut.end : x \in h.from..h.end /\ x \in h.from..h.anchors[k].end
    BY <1>1, <1>2, <1>4, <1>6, <1>8
  <2> QED BY <1>1, <2>1, <2>2, <2>3
<1>10. cut \in Scan!History
  <2>1. cut.logs \in [cut.from..cut.end -> 1..MaxForks]
    BY <1>1, <1>9
  <2>2. cut.from \in 0..MaxHead
    BY <1>1, <1>2
  <2>3. cut.logs \in Scan!Logs
    <3>1. cut.from..cut.end \in SUBSET Scan!Blocks
      BY SMTT(40), <1>1, <1>2, <1>5, <1>8 DEF Scan!Blocks
    <3> QED BY <2>1, <3>1, LogsIn
  <2>4. cut.hash \in 0..MaxForks
    BY <1>8, <1>5
  <2>5. cut.from \in Scan!Blocks
    BY <1>1, <1>2 DEF Scan!Blocks
  <2> QED BY <1>1, <1>7, <1>8, <2>3, <2>4, <2>5 DEF Scan!History
<1>11. HistoryOnChain(cut, c, f)
  <2>1. cut.end <= Len(c) /\ Len(cut.anchors) <= MaxAnchors
    BY <1>2, <1>3, <1>5, <1>6, <1>7, <1>8 DEF HistoryOnChain
  <2>2. DOMAIN cut.logs = cut.from..cut.end
    BY <1>1
  <2>3. cut.from <= cut.end /\ cut.hash <= f
    BY <1>1, <1>8
  <2> QED BY <2>1, <2>2, <2>3 DEF HistoryOnChain
<1>12. AnchorsRise(cut, f)
  <2>1. ASSUME NEW m \in 1..(k - 1)
        PROVE  /\ cut.from <= cut.anchors[m].end /\ cut.anchors[m].end < cut.end /\ cut.anchors[m].hash <= f
               /\ \A j \in 1..(m - 1) : cut.anchors[j].end < cut.anchors[m].end
    <3>1. m \in DOMAIN h.anchors /\ m < k /\ cut.anchors[m] = h.anchors[m] /\ m \in 1..(k - 1)
      BY <1>6, <1>7
    <3>2. \A j \in 1..(m - 1) : cut.anchors[j] = h.anchors[j]
      BY <1>6, <1>7
    <3> QED BY <1>1, <1>3, <3>1, <3>2 DEF AnchorsRise
  <2> QED BY <1>7, <2>1 DEF AnchorsRise
<1>13. \A e \in Int : e <= cut.end /\ LogsCanonical(h, e, c) => LogsCanonical(cut, e, c)
  BY <1>1, <1>2, <1>8, <1>9 DEF LogsCanonical
<1>14. HistoryTrusted(h, c) => HistoryTrusted(cut, c)
  <2> SUFFICES ASSUME HistoryTrusted(h, c) PROVE HistoryTrusted(cut, c)
    OBVIOUS
  <2>1. c[cut.end] = cut.hash => LogsCanonical(cut, cut.end, c)
    BY <1>1, <1>2, <1>8, <1>13 DEF HistoryTrusted
  <2>2. ASSUME NEW m \in DOMAIN cut.anchors, c[cut.anchors[m].end] = cut.anchors[m].hash
        PROVE  LogsCanonical(cut, cut.anchors[m].end, c)
    <3>1. m \in DOMAIN h.anchors /\ cut.anchors[m] = h.anchors[m] /\ m \in 1..(k - 1)
      BY <1>6, <1>7, <2>2
    <3>2. h.anchors[m].end \in Int /\ h.anchors[m].end <= cut.end
      BY <1>1, <1>3, <1>4, <3>1 DEF AnchorsRise
    <3> QED BY <1>13, <2>2, <3>1, <3>2 DEF HistoryTrusted
  <2> QED BY <2>1, <2>2 DEF HistoryTrusted
<1>15. c[h.anchors[k].end] = h.anchors[k].hash => DeepMidScan \/ LogsCanonical(cut, cut.end, c)
  BY <1>1, <1>2, <1>3, <1>8, <1>13 DEF HistoryTrusted
<1>16. HistorySound(cut, c, f)
  BY <1>3, <1>11, <1>12, <1>14 DEF HistorySound
<1> QED BY <1>1, <1>8, <1>10, <1>15, <1>16 DEF cut
\* An extended history is sound, and wholly canonical below the block it ends with.
LEMMA ExtensionSound ==
  ASSUME Scan!ScanAssumption, NEW r \in Scan!Run, NEW s \in Scan!Request, NEW c \in Seq(1..MaxForks), NEW f \in 0..MaxForks,
         Len(c) \in 0..MaxHead, \A b \in 1..Len(c) : c[b] <= f, s.head <= Len(c),
         HistorySound(r.cached, c, f), RunOn(r, s, c), r.step = "hash"
  PROVE  LET e == RunExtension(r, s, c[RunEnd(r, s)])
         IN  e \in Scan!History /\ HistorySound(e, c, f)
<1> DEFINE old == r.cached
           first == RunFirst(r, s)
           from == RunFrom(r, s)
           end == RunEnd(r, s)
           e == RunExtension(r, s, c[RunEnd(r, s)])
<1>1. MaxHead \in Nat /\ MaxForks \in Nat /\ MaxAnchors \in Nat /\ Confirmations \in Nat
  BY DEF Scan!ScanAssumption
<1>2. /\ old \in Scan!History /\ r.fresh \in Seq(1..MaxForks)
      /\ s.from \in Scan!Blocks /\ s.head \in Scan!Blocks
  BY DEF Scan!Run, Scan!Request
<1>3. /\ old.from \in 1..MaxHead /\ old.end \in 0..MaxHead /\ old.hash \in 0..MaxForks
      /\ old.anchors \in Seq(Scan!Position) /\ old.logs \in Scan!Logs /\ s.from \in 1..MaxHead /\ s.head \in 1..MaxHead
  BY <1>2 DEF Scan!History, Scan!Blocks
<1>4. /\ RunThrough(r, s) <= s.head /\ from <= end
      /\ old.end > 0 => old.from <= s.from /\ old.end <= s.head
      /\ DeepMidScan \/ RunReads(r, s, c)
  BY DEF RunOn
<1>5. from \in Nat /\ first \in Nat /\ 1 <= first /\ first <= from
  <2>1. old.end > 0 => old.from <= old.end
    BY DEF HistorySound, HistoryOnChain
  <2> QED BY <1>3, <2>1 DEF RunFrom, RunFirst
<1>6. Len(r.fresh) \in Nat /\ RunThrough(r, s) \in Int /\ RunThrough(r, s) = from + Len(r.fresh) - 1
  BY <1>2, <1>5 DEF RunThrough
<1>7. end \in Int /\ end <= RunThrough(r, s) /\ end <= s.head - Confirmations
  <2>1. PICK a : a = RunThrough(r, s)
    OBVIOUS
  <2>2. PICK b : b = s.head - Confirmations
    OBVIOUS
  <2>3. end = IF a < b THEN a ELSE b
    BY ONLY <2>1, <2>2 DEF RunEnd
  <2>4. a \in Int
    BY ONLY <1>6, <2>1
  <2>5. b \in Int
    BY ONLY <1>1, <1>3, <2>2
  <2> HIDE DEF end
  <2>6. end \in Int /\ end <= a /\ end <= b
    BY ONLY <2>3, <2>4, <2>5
  <2> QED BY ONLY <2>1, <2>2, <2>6
<1>8. end \in 1..Len(c) /\ end \in 1..MaxHead /\ first \in 1..MaxHead /\ first <= end
  <2> HIDE DEF first, from, end
  <2>1. first \in Nat /\ from \in Nat /\ end \in Int /\ 1 <= first /\ first <= from /\ from <= end
    BY <1>4, <1>5, <1>7
  <2>2. s.head \in Int /\ end <= s.head - Confirmations /\ s.head <= Len(c) /\ Len(c) \in 0..MaxHead
    BY <1>3, <1>7
  <2> QED BY ONLY <1>1, <2>1, <2>2
<1>9. e.from = first /\ e.end = end /\ e.hash = c[end] /\ e.logs = [x \in first..end |-> RunLog(r, s, x)]
  BY DEF RunExtension
<1> DEFINE all == IF old.end > 0 THEN Append(old.anchors, Scan!Base(old)) ELSE <<>>
<1>10. e.anchors = IF Len(all) > MaxAnchors THEN Scan!Newest(all) ELSE all
  BY DEF RunExtension
<1>11. e = [from |-> e.from, end |-> e.end, hash |-> e.hash, anchors |-> e.anchors, logs |-> e.logs]
  BY DEF RunExtension
<1> HIDE DEF e, all, end, from, first
<1>12. \A x \in first..end : RunLog(r, s, x) \in 1..MaxForks
  <2> SUFFICES ASSUME NEW x \in first..end PROVE RunLog(r, s, x) \in 1..MaxForks
    OBVIOUS
  <2>1. CASE x < from
    <3>1. old.end > 0 /\ x \in old.from..old.end
      BY <1>3, <1>5, <1>8, <2>1 DEF RunFrom, RunFirst, from, first
    <3>2. DOMAIN old.logs = old.from..old.end
      BY <3>1 DEF HistorySound, HistoryOnChain
    <3>3. \A y \in DOMAIN old.logs : old.logs[y] \in 1..MaxForks
      BY <1>3 DEF Scan!Logs
    <3> QED BY <2>1, <3>1, <3>2, <3>3 DEF RunLog, from
  <2>2. CASE ~(x < from)
    <3>1. x - from + 1 \in 1..Len(r.fresh)
      BY <1>5, <1>6, <1>7, <1>8, <2>2
    <3>2. \A y \in 1..Len(r.fresh) : r.fresh[y] \in 1..MaxForks
      BY <1>2, ElementOfSeq
    <3> QED BY <2>2, <3>1, <3>2 DEF RunLog, from
  <2> QED BY <2>1, <2>2
<1>13. /\ all \in Seq(Scan!Position) /\ Len(all) \in Nat /\ DOMAIN all = 1..Len(all)
       /\ \A k \in DOMAIN all : /\ first <= all[k].end /\ all[k].end < end /\ all[k].hash <= f
                                /\ \A j \in 1..(k - 1) : all[j].end < all[k].end
  <2>1. CASE old.end > 0
    <3>1. AnchorsRise(old, f) /\ old.hash <= f /\ first = old.from /\ old.end < end /\ old.from <= old.end
      BY <1>3, <1>4, <1>8, <2>1 DEF HistorySound, HistoryOnChain, RunFirst, RunFrom, first, from
    <3>2. Scan!Base(old) \in Scan!Position /\ Scan!Base(old).end = old.end /\ Scan!Base(old).hash = old.hash
      BY <1>3, <1>1 DEF Scan!Base, Scan!Position
    <3>3. all = Append(old.anchors, Scan!Base(old))
      BY <2>1 DEF all
    <3>4. /\ all \in Seq(Scan!Position) /\ Len(all) = Len(old.anchors) + 1 /\ Len(old.anchors) \in Nat
          /\ DOMAIN old.anchors = 1..Len(old.anchors) /\ DOMAIN all = 1..(Len(old.anchors) + 1)
      BY <1>3, <3>2, <3>3
    <3>5. /\ \A k \in 1..Len(old.anchors) : all[k] = old.anchors[k]
          /\ all[Len(old.anchors) + 1] = Scan!Base(old)
      BY <1>3, <3>2, <3>3
    <3>6. \A k \in DOMAIN old.anchors : old.anchors[k].end \in Int
      <4>1. \A k \in DOMAIN old.anchors : old.anchors[k] \in Scan!Position
        BY <1>3
      <4> QED BY <1>1, <4>1 DEF Scan!Position
    <3>7. ASSUME NEW k \in 1..Len(old.anchors)
          PROVE  /\ first <= all[k].end /\ all[k].end < end /\ all[k].hash <= f
                 /\ \A j \in 1..(k - 1) : all[j].end < all[k].end
      <4>1. /\ old.from <= old.anchors[k].end /\ old.anchors[k].end < old.end /\ old.anchors[k].hash <= f
            /\ \A j \in 1..(k - 1) : old.anchors[j].end < old.anchors[k].end
        BY <3>1, <3>4 DEF AnchorsRise
      <4>2. \A j \in 1..(k - 1) : all[j] = old.anchors[j]
        BY <3>4, <3>5
      <4>3. first <= all[k].end /\ all[k].hash <= f /\ all[k].end = old.anchors[k].end
        BY <3>1, <3>5, <4>1
      <4>4. all[k].end < end
        <5>1. all[k].end \in Int /\ all[k].end < old.end /\ old.end < end /\ old.end \in Int /\ end \in Int
          <6>1. k \in DOMAIN old.anchors
            BY <3>4
          <6>2. old.anchors[k].end \in Int
            BY <3>6, <6>1
          <6>3. old.end \in Int /\ end \in Int
            BY <1>3, <1>7
          <6> QED BY <3>1, <4>1, <4>3, <6>2, <6>3
        <5> QED BY ONLY <5>1
      <4>5. \A j \in 1..(k - 1) : all[j].end < all[k].end
        BY <4>1, <4>2, <4>3
      <4> QED BY <4>3, <4>4, <4>5
    <3>8. \A j \in 1..Len(old.anchors) : all[j].end < Scan!Base(old).end
      BY <3>1, <3>2, <3>4, <3>5 DEF AnchorsRise
    <3>9. first <= Scan!Base(old).end /\ Scan!Base(old).end < end /\ Scan!Base(old).hash <= f
      BY <3>1, <3>2
    <3>10. DOMAIN all = 1..Len(all) /\ Len(all) \in Nat
      BY <3>4
    <3> QED BY SMTT(40), <3>4, <3>5, <3>7, <3>8, <3>9, <3>10
  <2>2. CASE ~(old.end > 0)
    BY <2>2 DEF all
  <2> QED BY <2>1, <2>2
<1>14. /\ e.anchors \in Seq(Scan!Position) /\ Len(e.anchors) <= MaxAnchors
       /\ \A k \in DOMAIN e.anchors :
            /\ first <= e.anchors[k].end /\ e.anchors[k].end < end /\ e.anchors[k].hash <= f
            /\ \A j \in 1..(k - 1) : e.anchors[j].end < e.anchors[k].end
  <2>1. CASE Len(all) > MaxAnchors
    <3>1. PICK m \in Nat : m = Len(all) - MaxAnchors
      BY <1>1, <1>13, <2>1
    <3>2. e.anchors = SubSeq(all, m + 1, Len(all))
      BY <1>10, <2>1, <3>1 DEF Scan!Newest
    <3>3. PICK a \in Seq(Scan!Position) : a = all
      BY <1>13
    <3>4. m + 1 >= 1 /\ Len(a) \in Nat /\ m <= Len(a) /\ Len(a) - m = MaxAnchors
      BY <1>1, <1>13, <3>1, <3>3
    <3>5. SubSeq(a, m + 1, Len(a)) \in Seq(Scan!Position) /\ Len(SubSeq(a, m + 1, Len(a))) = MaxAnchors
      BY ONLY <1>1, <3>1, <3>3, <3>4
    <3>6. \A k \in 1..MaxAnchors : SubSeq(a, m + 1, Len(a))[k] = a[k + m]
      BY ONLY <1>1, <3>1, <3>3, <3>4
    <3>7. DOMAIN e.anchors = 1..MaxAnchors /\ \A k \in 1..MaxAnchors : e.anchors[k] = all[k + m]
      BY <3>2, <3>3, <3>5, <3>6
    <3>8. ASSUME NEW k \in 1..MaxAnchors
          PROVE  /\ k + m \in DOMAIN all
                 /\ \A j \in 1..(k - 1) : j \in 1..MaxAnchors /\ j + m \in 1..((k + m) - 1)
      BY <1>1, <1>13, <3>1, <3>3, <3>4
    <3>9. e.anchors \in Seq(Scan!Position) /\ Len(e.anchors) <= MaxAnchors
      BY <1>1, <3>2, <3>3, <3>5
    <3>10. ASSUME NEW k \in 1..MaxAnchors
           PROVE  /\ first <= e.anchors[k].end /\ e.anchors[k].end < end /\ e.anchors[k].hash <= f
                  /\ \A j \in 1..(k - 1) : e.anchors[j].end < e.anchors[k].end
      <4>1. e.anchors[k] = all[k + m] /\ k + m \in DOMAIN all
        BY <3>7, <3>8
      <4>2. ASSUME NEW j \in 1..(k - 1) PROVE e.anchors[j].end < e.anchors[k].end
        <5>1. j + m \in 1..((k + m) - 1) /\ e.anchors[j] = all[j + m]
          BY <3>7, <3>8
        <5> QED BY <1>13, <4>1, <5>1
      <4> QED BY <1>13, <4>1, <4>2
    <3> QED BY <3>7, <3>9, <3>10
  <2>2. CASE ~(Len(all) > MaxAnchors)
    <3>1. e.anchors = all
      BY <1>10, <2>2
    <3> QED BY <1>1, <1>13, <2>2, <3>1
  <2> QED BY <2>1, <2>2
<1>15. c[end] \in 0..MaxForks /\ c[end] <= f
  BY <1>1, <1>8
<1>16. e.logs \in Scan!Logs
  <2>1. first..end \in SUBSET Scan!Blocks
    BY <1>1, <1>8 DEF Scan!Blocks
  <2>2. e.logs \in [first..end -> 1..MaxForks]
    BY <1>9, <1>12
  <2> QED BY <2>1, <2>2, LogsIn
<1>17. e \in Scan!History
  <2>1. e.from \in Scan!Blocks /\ e.end \in 0..MaxHead /\ e.hash \in 0..MaxForks
    BY <1>1, <1>8, <1>9, <1>15 DEF Scan!Blocks
  <2> QED BY <1>11, <1>14, <1>16, <2>1 DEF Scan!History
<1>18. HistoryOnChain(e, c, f) /\ AnchorsRise(e, f)
  <2>1. HistoryOnChain(e, c, f)
    BY <1>8, <1>9, <1>14, <1>15 DEF HistoryOnChain
  <2>2. AnchorsRise(e, f)
    BY <1>9, <1>14 DEF AnchorsRise
  <2> QED BY <2>1, <2>2
<1>19. RunReads(r, s, c) => HistoryTrusted(e, c)
  <2> SUFFICES ASSUME RunReads(r, s, c) PROVE HistoryTrusted(e, c)
    OBVIOUS
  <2>1. \A x \in first..end : e.logs[x] = c[x]
    <3>1. \A x \in first..end : x \in RunFirst(r, s)..RunThrough(r, s) /\ x <= s.head - Confirmations
      <4>1. /\ first \in Int /\ end \in Int /\ end <= RunThrough(r, s) /\ end <= s.head - Confirmations
            /\ RunThrough(r, s) \in Int /\ s.head - Confirmations \in Int
        BY <1>1, <1>3, <1>6, <1>7, <1>8
      <4>2. \A x \in first..end : x \in first..RunThrough(r, s) /\ x <= s.head - Confirmations
        BY ONLY <4>1
      <4> QED BY <4>2 DEF first
    <3> QED BY <1>9, <3>1 DEF RunReads
  <2>2. \A b \in Int : b <= end => LogsCanonical(e, b, c)
    BY <1>5, <1>8, <1>9, <2>1 DEF LogsCanonical
  <2>3. \A k \in DOMAIN e.anchors : e.anchors[k].end \in Int /\ e.anchors[k].end <= end
    <3>1. \A k \in DOMAIN e.anchors : e.anchors[k] \in Scan!Position
      BY <1>14
    <3>2. \A k \in DOMAIN e.anchors : e.anchors[k].end \in Int
      BY <1>1, <3>1 DEF Scan!Position
    <3> QED BY <1>8, <1>14, <3>2
  <2> QED BY <1>8, <1>9, <2>2, <2>3 DEF HistoryTrusted
<1>20. HistorySound(e, c, f)
  BY <1>4, <1>18, <1>19 DEF HistorySound
<1> QED BY <1>17, <1>20 DEF e
-----------------------------------------------------------------------------
\* A run sees of its scan only where it starts and where it ends.
LEMMA SameScan ==
  ASSUME NEW r, NEW s, NEW t, NEW c, s.from = t.from, s.head = t.head
  PROVE  RunOn(r, s, c) <=> RunOn(r, t, c)
<1>1. RunFrom(r, s) = RunFrom(r, t) /\ RunFirst(r, s) = RunFirst(r, t)
  BY DEF RunFrom, RunFirst
<1>2. RunThrough(r, s) = RunThrough(r, t)
  BY <1>1 DEF RunThrough
<1>3. RunEnd(r, s) = RunEnd(r, t)
  BY <1>2 DEF RunEnd
<1>4. \A x : RunLog(r, s, x) = RunLog(r, t, x)
  BY <1>1 DEF RunLog
<1>5. RunReads(r, s, c) <=> RunReads(r, t, c)
  BY <1>1, <1>2, <1>4 DEF RunReads
<1> QED BY <1>1, <1>2, <1>3, <1>5 DEF RunOn

\* A run begins to fetch with nothing, or with a history that is canonical and within its range.
LEMMA RunFetches ==
  ASSUME Scan!ScanAssumption, NEW r \in Scan!Run, NEW s \in Scan!Request, NEW c, s.from <= s.head,
         r.step = "logs", r.fresh = <<>>, ~r.failed,
         r.cached.end > 0 => /\ r.cached.from <= s.from /\ r.cached.end <= s.head
                             /\ DeepMidScan \/ LogsCanonical(r.cached, r.cached.end, c)
  PROVE  RunOn(r, s, c)
<1>1. MaxHead \in Nat /\ Confirmations \in Nat
  BY DEF Scan!ScanAssumption
<1>2. s.from \in 1..MaxHead /\ s.head \in 1..MaxHead /\ r.cached \in Scan!History
  BY DEF Scan!Request, Scan!Run, Scan!Blocks
<1>3. r.cached.from \in 1..MaxHead /\ r.cached.end \in 0..MaxHead
  BY <1>2 DEF Scan!History, Scan!Blocks
<1>4. Len(r.fresh) = 0
  OBVIOUS
<1>5. RunThrough(r, s) = RunFrom(r, s) - 1 /\ RunThrough(r, s) <= s.head
  BY <1>2, <1>3, <1>4 DEF RunThrough, RunFrom
<1>6. DeepMidScan \/ RunReads(r, s, c)
  <2>1. CASE r.cached.end > 0
    <3>1. RunThrough(r, s) = r.cached.end /\ RunFirst(r, s) = r.cached.from /\ RunFrom(r, s) = r.cached.end + 1
      BY <1>3, <1>5, <2>1 DEF RunFrom, RunFirst
    <3>2. \A x \in r.cached.from..r.cached.end : RunLog(r, s, x) = r.cached.logs[x]
      BY <1>3, <3>1 DEF RunLog
    <3> QED BY <2>1, <3>1, <3>2 DEF RunReads, LogsCanonical
  <2>2. CASE ~(r.cached.end > 0)
    <3>1. RunFirst(r, s) = s.from /\ RunThrough(r, s) = s.from - 1
      BY <1>5, <2>2 DEF RunFrom, RunFirst
    <3> QED BY <1>2, <3>1 DEF RunReads
  <2> QED BY <2>1, <2>2
<1> QED BY <1>5, <1>6 DEF RunOn

\* A chunk is read as the chain is.
LEMMA ChunkRead ==
  ASSUME Scan!ScanAssumption, NEW r \in Scan!Run, NEW s \in Scan!Request, NEW c \in Seq(1..MaxForks), NEW last \in Int,
         RunOn(r, s, c), r.step = "logs", RunThrough(r, s) < last, last <= s.head, s.head <= Len(c)
  PROVE  LET more == [r EXCEPT !.fresh = @ \o SubSeq(c, RunThrough(r, s) + 1, last)]
         IN  more \in Scan!Run /\ RunOn(more, s, c)
<1> DEFINE more == [r EXCEPT !.fresh = @ \o SubSeq(c, RunThrough(r, s) + 1, last)]
<1>1. MaxHead \in Nat /\ Confirmations \in Nat
  BY DEF Scan!ScanAssumption
<1>2. s.from \in 1..MaxHead /\ s.head \in 1..MaxHead /\ r.cached \in Scan!History /\ r.fresh \in Seq(1..MaxForks)
  BY DEF Scan!Request, Scan!Run, Scan!Blocks
<1>3. r.cached.from \in 1..MaxHead /\ r.cached.end \in 0..MaxHead
  BY <1>2 DEF Scan!History, Scan!Blocks
<1>4. PICK from \in Nat : from = RunFrom(r, s) /\ from > 0
  BY <1>2, <1>3 DEF RunFrom
<1>5. PICK old \in Seq(1..MaxForks) : old = r.fresh
  BY <1>2
<1>6. PICK thru \in Nat : thru = RunThrough(r, s) /\ thru = from + Len(old) - 1
  BY <1>4, <1>5 DEF RunThrough
<1>7. PICK new : new = SubSeq(c, thru + 1, last)
  OBVIOUS
<1>8. Len(c) \in Nat /\ Len(old) \in Nat /\ thru + 1 \in 1..Len(c) /\ last \in 1..Len(c) /\ thru + 1 <= last
  BY <1>2, <1>5, <1>6
<1>9. new \in Seq(1..MaxForks) /\ Len(new) = last - thru
  <2>1. thru + 1 \in Int /\ last \in Int /\ thru + 1 <= last /\ last - (thru + 1) + 1 = last - thru
    BY ONLY <1>6, <1>8
  <2>2. \A z \in (thru + 1)..last : z \in 1..Len(c)
    BY ONLY <1>6, <1>8
  <2>3. \A z \in 1..Len(c) : c[z] \in 1..MaxForks
    BY ElementOfSeq
  <2>4. \A z \in (thru + 1)..last : c[z] \in 1..MaxForks
    BY <2>2, <2>3
  <2>5. SubSeq(c, thru + 1, last) \in Seq(1..MaxForks) /\ Len(SubSeq(c, thru + 1, last)) = last - (thru + 1) + 1
    BY ONLY <2>1, <2>4, SubSeqProperties
  <2> QED BY <1>7, <2>1, <2>5
<1>10. \A y \in 1..(last - thru) : new[y] = c[thru + y]
  <2> SUFFICES ASSUME NEW y \in 1..(last - thru) PROVE new[y] = c[thru + y]
    OBVIOUS
  <2>1. y \in Int /\ y \in 1..(last - (thru + 1) + 1) /\ (thru + 1) + y - 1 = thru + y
    BY ONLY <1>6, <1>8, y \in 1..(last - thru)
  <2>2. thru + 1 \in Int /\ last \in Int
    BY ONLY <1>6, <1>8
  <2>3. \A z \in (thru + 1)..last : z \in 1..Len(c)
    BY ONLY <1>6, <1>8
  <2>4. \A z \in (thru + 1)..last : c[z] \in 1..MaxForks
    BY <2>3, ElementOfSeq
  <2>5. SubSeq(c, thru + 1, last)[y] = c[(thru + 1) + y - 1]
    BY ONLY <2>1, <2>2, <2>4, SubSeqProperties
  <2> QED BY <1>7, <2>1, <2>5
<1>11. old \o new \in Seq(1..MaxForks) /\ Len(old \o new) = Len(old) + Len(new)
  BY <1>9
<1>12. /\ \A y \in 1..Len(old) : (old \o new)[y] = old[y]
       /\ \A y \in 1..Len(new) : (old \o new)[Len(old) + y] = new[y]
  BY <1>8, <1>9
<1>13. /\ more.fresh = old \o new /\ more.cached = r.cached /\ more.step = r.step
       /\ more.index = r.index /\ more.failed = r.failed /\ more \in Scan!Run
  BY <1>5, <1>6, <1>7, <1>11 DEF Scan!Run
<1> HIDE DEF more
<1>14. RunFrom(more, s) = from /\ RunFirst(more, s) = RunFirst(r, s)
  BY <1>4, <1>13 DEF RunFrom, RunFirst
<1>15. RunThrough(more, s) = last
  BY <1>6, <1>8, <1>9, <1>11, <1>13, <1>14 DEF RunThrough
<1>16. RunReads(r, s, c) => RunReads(more, s, c)
  <2> SUFFICES ASSUME RunReads(r, s, c), NEW x \in RunFirst(r, s)..last, x <= s.head - Confirmations
               PROVE  RunLog(more, s, x) = c[x]
    BY <1>14, <1>15 DEF RunReads
  <2>1. RunFirst(r, s) \in Int /\ x \in Int
    BY <1>2, <1>3 DEF RunFirst
  <2>2. CASE x < from
    <3>1. RunLog(more, s, x) = RunLog(r, s, x)
      BY <1>4, <1>13, <1>14, <2>2 DEF RunLog
    <3>2. x \in RunFirst(r, s)..RunThrough(r, s)
      BY <1>4, <1>6, <1>8, <2>1, <2>2
    <3> QED BY <3>1, <3>2 DEF RunReads
  <2>3. CASE from <= x /\ x <= thru
    <3>1. PICK y \in 1..Len(old) : y = x - from + 1
      BY <1>6, <1>8, <2>1, <2>3
    <3>2. RunLog(more, s, x) = old[y] /\ RunLog(r, s, x) = old[y]
      BY <1>4, <1>5, <1>12, <1>13, <1>14, <2>1, <2>3, <3>1 DEF RunLog
    <3>3. x \in RunFirst(r, s)..RunThrough(r, s)
      BY <1>6, <2>1, <2>3
    <3> QED BY <3>2, <3>3 DEF RunReads
  <2>4. CASE thru < x
    <3>1. x - thru \in 1..Len(new) /\ x - from + 1 = Len(old) + (x - thru) /\ thru + (x - thru) = x
      <4>1. x \in Int /\ x <= last /\ thru < x
        BY <2>1, <2>4
      <4>2. from \in Nat /\ thru \in Nat /\ Len(old) \in Nat /\ last \in Int /\ thru = from + Len(old) - 1
            /\ Len(new) = last - thru
        BY <1>6, <1>8, <1>9
      <4> QED BY ONLY <4>1, <4>2
    <3>2. PICK y \in 1..Len(new) : y = x - thru
      BY <3>1
    <3>3. (old \o new)[Len(old) + y] = new[y] /\ ~(x < from)
      BY <1>4, <1>6, <1>8, <1>12, <2>1, <2>4
    <3>4. RunLog(more, s, x) = new[y]
      BY <1>13, <1>14, <3>1, <3>2, <3>3 DEF RunLog
    <3>5. new[y] = c[x]
      BY <1>9, <1>10, <3>1, <3>2
    <3> QED BY <3>4, <3>5
  <2> QED BY <1>4, <1>6, <2>1, <2>2, <2>3, <2>4
<1>17. RunOn(more, s, c)
  BY <1>13, <1>15, <1>16 DEF RunOn
<1> QED BY <1>13, <1>17 DEF more

\* A run keeps what it knows while the chain below the confirmation depth stands.
LEMMA RunKept ==
  ASSUME Scan!ScanAssumption, NEW r \in Scan!Run, NEW s \in Scan!Request, NEW c, NEW d, Len(c) \in Nat,
         RunOn(r, s, c), s.head <= Len(c),
         r.step \in {"logs", "hash", "save"} =>
           DeepMidScan \/ \A b \in 1..(Len(c) - Confirmations) : d[b] = c[b]
  PROVE  RunOn(r, s, d)
<1>1. MaxHead \in Nat /\ Confirmations \in Nat
  BY DEF Scan!ScanAssumption
<1>2. s.from \in 1..MaxHead /\ s.head \in 1..MaxHead /\ r.cached \in Scan!History
  BY DEF Scan!Request, Scan!Run, Scan!Blocks
<1>3. r.cached.from \in 1..MaxHead
  BY <1>2 DEF Scan!History, Scan!Blocks
<1>4. RunFirst(r, s) \in Nat /\ RunFirst(r, s) > 0
  BY <1>2, <1>3 DEF RunFirst
<1>5. (\A b \in 1..(Len(c) - Confirmations) : d[b] = c[b]) => (RunReads(r, s, c) => RunReads(r, s, d))
  <2> SUFFICES ASSUME \A b \in 1..(Len(c) - Confirmations) : d[b] = c[b], RunReads(r, s, c),
                      NEW x \in RunFirst(r, s)..RunThrough(r, s), x <= s.head - Confirmations
               PROVE  RunLog(r, s, x) = d[x]
    BY DEF RunReads
  <2>1. x \in 1..(Len(c) - Confirmations)
    BY <1>1, <1>2, <1>4
  <2> QED BY <2>1 DEF RunReads
<1> QED BY <1>5 DEF RunOn
-----------------------------------------------------------------------------
\* Requests and the scans they wait for.
RequestsOn(queues, asked, n) ==
  /\ \A c \in Callers : asked[c].step \in {"waiting", "behind"} => AskWithin(asked[c], n)
  /\ \A i \in Instances : QueueOn(i, queues[i], asked, n)

LEMMA RequestsStay ==
  ASSUME Scan!ScanAssumption, NEW queues \in [Instances -> Seq(Scan!Request)], NEW asked \in [Callers -> Scan!Caller],
         NEW n \in Nat, NEW m \in Nat, n <= m, RequestsOn(queues, asked, n)
  PROVE  RequestsOn(queues, asked, m)
<1>1. MaxHead \in Nat
  BY DEF Scan!ScanAssumption
<1>2. \A c \in Callers : asked[c].head \in 0..MaxHead
  BY DEF Scan!Caller
<1>3. \A c \in Callers : AskWithin(asked[c], n) => AskWithin(asked[c], m)
  BY <1>1, <1>2 DEF AskWithin
<1>4. ASSUME NEW i \in Instances PROVE QueueOn(i, queues[i], asked, m)
  <2>1. QueueOn(i, queues[i], asked, n)
    BY DEF RequestsOn
  <2>2. \A k \in DOMAIN queues[i] : queues[i][k].head \in Int
    <3>1. queues[i] \in Seq(Scan!Request)
      OBVIOUS
    <3>2. \A k \in DOMAIN queues[i] : queues[i][k] \in Scan!Request
      BY <3>1
    <3> QED BY <1>1, <3>2 DEF Scan!Request, Scan!Blocks
  <2> QED BY <2>1, <2>2 DEF QueueOn
<1> QED BY <1>3, <1>4 DEF RequestsOn

\* A request that waits for nothing joins a scan or begins one; the scan that runs starts and ends as before.
LEMMA SharedKeeps ==
  ASSUME Scan!ScanAssumption, NEW i \in Instances, NEW q \in Seq(Scan!Request), NEW asked \in [Callers -> Scan!Caller],
         NEW n \in Nat, QueueOn(i, q, asked, n),
         NEW c \in Callers, asked[c].step # "waiting", NEW ask \in Scan!Caller, ask.step = "waiting", ask.at = i,
         NEW head \in Scan!Blocks, ask.from <= head, head <= n,
         NEW later, later[c] = ask, \A o \in Callers : o # c => later[o] = asked[o]
  PROVE  /\ Scan!Shared(q, c, ask.from, head) \in Seq(Scan!Request) /\ Scan!Shared(q, c, ask.from, head) # <<>>
         /\ QueueOn(i, Scan!Shared(q, c, ask.from, head), later, n)
         /\ q # <<>> => /\ Head(Scan!Shared(q, c, ask.from, head)).from = Head(q).from
                        /\ Head(Scan!Shared(q, c, ask.from, head)).head = Head(q).head
<1> DEFINE more == Scan!Shared(q, c, ask.from, head)
<1>1. MaxHead \in Nat /\ ask.from \in 1..MaxHead /\ ask.from \in Scan!Blocks /\ head \in 1..MaxHead
  BY DEF Scan!ScanAssumption, Scan!Caller, Scan!Blocks
<1>2. Len(q) \in Nat /\ DOMAIN q = 1..Len(q) /\ \A k \in 1..Len(q) : q[k] \in Scan!Request
  OBVIOUS
<1>3. \A k \in 1..Len(q) : /\ q[k].from \in 1..MaxHead /\ q[k].head \in 1..MaxHead /\ q[k].callers \subseteq Callers
                           /\ q[k] = [from |-> q[k].from, head |-> q[k].head, callers |-> q[k].callers]
  BY <1>2 DEF Scan!Request, Scan!Blocks
<1>4. later[c] = ask /\ \A o \in Callers : o # c => later[o] = asked[o]
  OBVIOUS
<1>5. \A k \in 1..Len(q) : c \notin q[k].callers
  BY <1>2 DEF QueueOn
<1>6. \A k \in 1..Len(q) : \A o \in q[k].callers : later[o].step = "waiting" /\ later[o].at = i /\ q[k].from <= later[o].from
  BY <1>2, <1>3, <1>4, <1>5 DEF QueueOn
<1>7. CASE Scan!Joins(q, ask.from)
  <2>1. q # <<>> /\ Len(q) > 0 /\ q[Len(q)].from <= ask.from /\ Len(q) \in 1..Len(q)
    BY <1>2, <1>7 DEF Scan!Joins, Scan!Last
  <2>2. PICK one \in Scan!Request : one = [q[Len(q)] EXCEPT !.callers = @ \cup {c}]
    BY <1>2, <2>1 DEF Scan!Request
  <2>3. one.from = q[Len(q)].from /\ one.head = q[Len(q)].head /\ one.callers = q[Len(q)].callers \cup {c}
    BY <1>2, <1>3, <2>1, <2>2 DEF Scan!Request
  <2>4. more = [q EXCEPT ![Len(q)] = one]
    BY <1>7, <2>2 DEF Scan!Shared
  <2>5. /\ more \in Seq(Scan!Request) /\ DOMAIN more = 1..Len(q) /\ Len(more) = Len(q)
        /\ more[Len(q)] = one /\ \A k \in 1..Len(q) : k # Len(q) => more[k] = q[k]
    BY <1>2, <2>1, <2>2, <2>4
  <2>6. \A k \in 1..Len(q) : more[k].from = q[k].from /\ more[k].head = q[k].head
    BY <2>3, <2>5
  <2>7. more # <<>> /\ Head(more) = more[1] /\ Head(q) = q[1] /\ 1 \in 1..Len(q)
    <3>1. PICK qq \in Seq(Scan!Request), mm \in Seq(Scan!Request) : qq = q /\ mm = more
      BY <2>5
    <3>2. Len(qq) \in Nat /\ Len(qq) > 0 /\ Len(mm) > 0
      BY <1>2, <2>1, <2>5, <3>1
    <3>3. mm # <<>> /\ Head(mm) = mm[1] /\ Head(qq) = qq[1] /\ 1 \in 1..Len(qq)
      BY ONLY <3>1, <3>2
    <3> QED BY <3>1, <3>3
  <2> HIDE DEF more
  <2>8. QueueOn(i, more, later, n)
    <3> SUFFICES ASSUME NEW k \in 1..Len(q)
                 PROVE  /\ more[k].from <= more[k].head /\ more[k].head <= n
                        /\ \A o \in more[k].callers : later[o].step = "waiting" /\ later[o].at = i /\ more[k].from <= later[o].from
                        /\ \A j \in 1..Len(q) : j # k => more[k].callers \cap more[j].callers = {}
      BY <2>5 DEF QueueOn
    <3>1. more[k].from <= more[k].head /\ more[k].head <= n
      BY <1>2, <2>6 DEF QueueOn
    <3>2. \A o \in more[k].callers : later[o].step = "waiting" /\ later[o].at = i /\ more[k].from <= later[o].from
      <4>1. CASE k = Len(q)
        <5>1. \A o \in q[k].callers : later[o].step = "waiting" /\ later[o].at = i /\ one.from <= later[o].from
          BY <1>6, <2>3, <4>1
        <5>2. later[c].step = "waiting" /\ later[c].at = i /\ one.from <= later[c].from
          BY <1>4, <2>1, <2>3
        <5>3. more[k].callers = q[k].callers \cup {c} /\ more[k].from = one.from
          BY <2>3, <2>5, <4>1
        <5> QED BY <5>1, <5>2, <5>3
      <4>2. CASE k # Len(q)
        BY <1>6, <2>5, <4>2
      <4> QED BY <4>1, <4>2
    <3>3. \A j \in 1..Len(q) : j # k => more[k].callers \cap more[j].callers = {}
      <4>1. \A a, b \in 1..Len(q) : a # b => q[a].callers \cap q[b].callers = {}
        BY <1>2 DEF QueueOn
      <4>2. \A a \in 1..Len(q) : more[a].callers \subseteq q[a].callers \cup {c}
        BY <2>3, <2>5
      <4>3. \A a \in 1..Len(q) : c \in more[a].callers => a = Len(q)
        BY <1>5, <2>3, <2>5
      <4> QED BY <4>1, <4>2, <4>3
    <3> QED BY <3>1, <3>2, <3>3
  <2> QED BY <2>5, <2>6, <2>7, <2>8 DEF more
<1>8. CASE ~Scan!Joins(q, ask.from)
  <2>1. PICK one \in Scan!Request : one = [from |-> ask.from, head |-> head, callers |-> {c}]
    BY <1>1 DEF Scan!Request
  <2>2. one.from = ask.from /\ one.head = head /\ one.callers = {c}
    BY <2>1
  <2>3. more = Append(q, one)
    BY <1>8, <2>1 DEF Scan!Shared
  <2>4. /\ more \in Seq(Scan!Request) /\ Len(more) = Len(q) + 1 /\ DOMAIN more = 1..(Len(q) + 1)
        /\ more[Len(q) + 1] = one /\ \A k \in 1..Len(q) : more[k] = q[k]
    BY <1>2, <2>3
  <2>5. more # <<>> /\ (q # <<>> => Head(more) = Head(q))
    BY <1>2, <2>3, <2>4
  <2> HIDE DEF more
  <2>6. QueueOn(i, more, later, n)
    <3> SUFFICES ASSUME NEW k \in 1..(Len(q) + 1)
                 PROVE  /\ more[k].from <= more[k].head /\ more[k].head <= n
                        /\ \A o \in more[k].callers : later[o].step = "waiting" /\ later[o].at = i /\ more[k].from <= later[o].from
                        /\ \A j \in 1..(Len(q) + 1) : j # k => more[k].callers \cap more[j].callers = {}
      BY <2>4 DEF QueueOn
    <3>0. k \in 1..Len(q) \/ k = Len(q) + 1
      BY <1>2
    <3>1. more[k].from <= more[k].head /\ more[k].head <= n
      BY <1>2, <2>2, <2>4, <3>0 DEF QueueOn
    <3>2. \A o \in more[k].callers : later[o].step = "waiting" /\ later[o].at = i /\ more[k].from <= later[o].from
      BY <1>1, <1>4, <1>6, <2>2, <2>4, <3>0
    <3>3. \A j \in 1..(Len(q) + 1) : j # k => more[k].callers \cap more[j].callers = {}
      <4>1. \A a, b \in 1..Len(q) : a # b => q[a].callers \cap q[b].callers = {}
        BY <1>2 DEF QueueOn
      <4>2. \A j \in 1..(Len(q) + 1) : j \in 1..Len(q) \/ j = Len(q) + 1
        BY <1>2
      <4> QED BY <1>5, <2>2, <2>4, <3>0, <4>1, <4>2
    <3> QED BY <3>1, <3>2, <3>3
  <2> QED BY <2>4, <2>5, <2>6 DEF more
<1> QED BY <1>7, <1>8

\* What other requests do, a queue does not notice.
LEMMA QueueUntouched ==
  ASSUME NEW i, NEW q, NEW asked, NEW later, NEW n, QueueOn(i, q, asked, n),
         \A k \in DOMAIN q : \A c \in q[k].callers : later[c] = asked[c]
  PROVE  QueueOn(i, q, later, n)
BY DEF QueueOn

\* The first scan of a queue settles: the others go on.
LEMMA TailKeeps ==
  ASSUME NEW i, NEW q \in Seq(Scan!Request), q # <<>>, NEW asked, NEW later, NEW n, QueueOn(i, q, asked, n),
         \A c \in Callers : c \notin Head(q).callers => later[c] = asked[c]
  PROVE  Tail(q) \in Seq(Scan!Request) /\ QueueOn(i, Tail(q), later, n)
<1>1. /\ Len(q) \in Nat /\ Len(q) > 0 /\ DOMAIN q = 1..Len(q) /\ Head(q) = q[1]
      /\ Tail(q) \in Seq(Scan!Request) /\ Len(Tail(q)) = Len(q) - 1 /\ DOMAIN Tail(q) = 1..(Len(q) - 1)
      /\ \A k \in 1..(Len(q) - 1) : Tail(q)[k] = q[k + 1]
  OBVIOUS
<1>2. \A k \in 1..(Len(q) - 1) : k + 1 \in DOMAIN q /\ 1 \in DOMAIN q /\ k + 1 # 1
  BY <1>1
<1>3. PICK rest : rest = Tail(q) /\ DOMAIN rest = 1..(Len(q) - 1) /\ \A k \in DOMAIN rest : rest[k] = q[k + 1]
  BY <1>1
<1>4. QueueOn(i, rest, later, n)
  <2> SUFFICES ASSUME NEW k \in DOMAIN rest
               PROVE  /\ rest[k].from <= rest[k].head /\ rest[k].head <= n
                      /\ \A c \in rest[k].callers : later[c].step = "waiting" /\ later[c].at = i /\ rest[k].from <= later[c].from
                      /\ \A j \in DOMAIN rest : j # k => rest[k].callers \cap rest[j].callers = {}
    BY DEF QueueOn
  <2>1. rest[k] = q[k + 1] /\ k + 1 \in DOMAIN q /\ 1 \in DOMAIN q /\ k + 1 # 1
    BY <1>2, <1>3
  <2>2. rest[k].callers \cap Head(q).callers = {}
    BY <1>1, <2>1 DEF QueueOn
  <2>3. rest[k].callers \subseteq Callers
    <3>1. q[k + 1] \in Scan!Request
      BY <2>1
    <3> QED BY <2>1, <3>1 DEF Scan!Request
  <2>4. \A c \in rest[k].callers : later[c] = asked[c]
    BY <2>2, <2>3
  <2>5. \A j \in DOMAIN rest : j # k => rest[j] = q[j + 1] /\ j + 1 \in DOMAIN q /\ j + 1 # k + 1
    BY <1>2, <1>3
  <2> QED BY <2>1, <2>4, <2>5 DEF QueueOn
<1> QED BY <1>1, <1>3, <1>4
-----------------------------------------------------------------------------
\* The invariant in its parts, of values alone.
ScanParts ==
  /\ HistorySound(v3, v1, v2)
  /\ \A i \in Instances : HistorySound(v4[i], v1, v2) /\ HistorySound(v7[i].cached, v1, v2)
  /\ RequestsOn(v6, v8, Len(v1))
  /\ \A b \in 1..Len(v1) : v1[b] <= v2
  /\ \A i \in Instances : RunOn(v7[i], Head(v6[i]), v1) /\ (v7[i].step # "idle" => v6[i] # <<>>)

LEMMA ScanInParts == Scan!IInv <=> Scan!TypeOK /\ ScanParts
<1>1. Scan!HistoriesSound <=> /\ HistorySound(v3, v1, v2)
                              /\ \A i \in Instances : HistorySound(v4[i], v1, v2) /\ HistorySound(v7[i].cached, v1, v2)
  BY TrustedMeans DEF Scan!HistoriesSound, Scan!Cached
<1>2. (\A i \in Instances : Scan!RunSound(i)) <=>
      \A i \in Instances : RunOn(v7[i], Head(v6[i]), v1) /\ (v7[i].step # "idle" => v6[i] # <<>>)
  BY RunMeans DEF Scan!Scan
<1>3. Scan!RequestsSound <=> RequestsOn(v6, v8, Len(v1))
  <2>1. \A c \in Callers : Scan!Within(c) <=> AskWithin(v8[c], Len(v1))
    BY DEF Scan!Within, AskWithin, Scan!HeadBlock
  <2>2. \A i \in Instances : Scan!QueueSound(i) <=> QueueOn(i, v6[i], v8, Len(v1))
    BY DEF Scan!QueueSound, QueueOn, Scan!HeadBlock
  <2> QED BY <2>1, <2>2 DEF Scan!RequestsSound, RequestsOn
<1> QED BY <1>1, <1>2, <1>3 DEF Scan!IInv, ScanParts, Scan!HeadBlock

\* What a type says of the parts of a state.
LEMMA ScanTyped ==
  ASSUME Scan!ScanAssumption, Scan!TypeOK
  PROVE  /\ MaxHead \in Nat /\ MaxForks \in Nat /\ Confirmations \in Nat /\ FirstHead \in Nat \ {0}
         /\ v1 \in Seq(1..MaxForks) /\ Len(v1) \in FirstHead..MaxHead /\ Len(v1) \in 1..MaxHead
         /\ v2 \in 1..MaxForks /\ v2 \in 0..MaxForks
         /\ v3 \in Scan!History /\ v4 \in [Instances -> Scan!History] /\ v5 \in [Instances -> Scan!Position]
         /\ v6 \in [Instances -> Seq(Scan!Request)] /\ v7 \in [Instances -> Scan!Run]
         /\ v8 \in [Callers -> Scan!Caller]
         /\ v9 \in 0..MaxAsks /\ v10 \in 0..MaxFaults
         /\ \A i \in Instances : /\ v6[i] \in Seq(Scan!Request) /\ v7[i] \in Scan!Run /\ v4[i] \in Scan!History
                                 /\ v7[i].cached \in Scan!History
         /\ \A i \in Instances : v6[i] # <<>> => Head(v6[i]) \in Scan!Request
BY SMTT(40) DEF Scan!ScanAssumption, Scan!TypeOK, Scan!HeadBlock, Scan!Run

\* The queue's first scan is one the parts speak of.
LEMMA FirstScan ==
  ASSUME Scan!ScanAssumption, Scan!TypeOK, ScanParts, NEW i \in Instances, v6[i] # <<>>
  PROVE  /\ Head(v6[i]) \in Scan!Request /\ Head(v6[i]).from <= Head(v6[i]).head
         /\ Head(v6[i]).head <= Len(v1) /\ Head(v6[i]).from \in 1..MaxHead /\ Head(v6[i]).head \in 1..MaxHead
         /\ \A c \in Head(v6[i]).callers : /\ c \in Callers /\ v8[c].step = "waiting" /\ v8[c].at = i
                                           /\ Head(v6[i]).from <= v8[c].from
<1>1. v6[i] \in Seq(Scan!Request) /\ 1 \in DOMAIN v6[i] /\ Head(v6[i]) = v6[i][1] /\ Head(v6[i]) \in Scan!Request
  BY DEF Scan!TypeOK
<1>2. QueueOn(i, v6[i], v8, Len(v1))
  BY DEF ScanParts, RequestsOn
<1> QED BY <1>1, <1>2 DEF QueueOn, Scan!Request, Scan!Blocks

-----------------------------------------------------------------------------
\* The chain grows or is reorganised.
LEMMA WorldMoves ==
  ASSUME Scan!ScanAssumption, Scan!TypeOK, ScanParts, Scan!Extend \/ \E depth \in Scan!Blocks : Scan!Reorg(depth)
  PROVE  /\ v1' \in Seq(1..MaxForks) /\ Len(v1') \in FirstHead..MaxHead /\ v2' \in 1..MaxForks
         /\ v2 <= v2' /\ GoesOn(v1, v1', v2)
         /\ \A b \in 1..Len(v1') : v1'[b] <= v2'
         /\ \A i \in Instances : v7[i].step \in {"logs", "hash", "save"} =>
              DeepMidScan \/ \A b \in 1..(Len(v1) - Confirmations) : v1'[b] = v1[b]
<1>1. /\ MaxHead \in Nat /\ MaxForks \in Nat /\ Confirmations \in Nat /\ v1 \in Seq(1..MaxForks)
      /\ Len(v1) \in FirstHead..MaxHead /\ FirstHead \in Nat /\ v2 \in 1..MaxForks
      /\ DOMAIN v1 = 1..Len(v1) /\ \A b \in 1..Len(v1) : v1[b] \in 1..MaxForks /\ v1[b] <= v2
  BY ScanTyped, ElementOfSeq DEF ScanParts
<1>2. CASE Scan!Extend
  <2>1. v1' = Append(v1, v2) /\ v2' = v2 /\ Len(v1) < MaxHead
    BY <1>2 DEF Scan!Extend, Scan!HeadBlock
  <2>2. /\ v1' \in Seq(1..MaxForks) /\ Len(v1') = Len(v1) + 1
        /\ v1'[Len(v1) + 1] = v2 /\ \A b \in 1..Len(v1) : v1'[b] = v1[b]
    BY <1>1, <2>1
  <2>3. Len(v1') \in FirstHead..MaxHead
    BY <1>1, <2>1, <2>2
  <2>4. \A b \in 1..Len(v1') : v1'[b] <= v2'
    BY <1>1, <2>1, <2>2
  <2>5. GoesOn(v1, v1', v2)
    BY <1>1, <2>2 DEF GoesOn
  <2>6. \A b \in 1..(Len(v1) - Confirmations) : v1'[b] = v1[b]
    BY <1>1, <2>2
  <2> QED BY <1>1, <2>1, <2>2, <2>3, <2>4, <2>5, <2>6
<1>3. ASSUME NEW depth \in Scan!Blocks, Scan!Reorg(depth)
      PROVE  /\ v1' \in Seq(1..MaxForks) /\ Len(v1') \in FirstHead..MaxHead /\ v2' \in 1..MaxForks
             /\ v2 <= v2' /\ GoesOn(v1, v1', v2)
             /\ \A b \in 1..Len(v1') : v1'[b] <= v2'
             /\ \A i \in Instances : v7[i].step \in {"logs", "hash", "save"} =>
                  DeepMidScan \/ \A b \in 1..(Len(v1) - Confirmations) : v1'[b] = v1[b]
  <2>1. /\ v1' = [b \in 1..Len(v1) |-> IF b > Len(v1) - depth THEN v2 + 1 ELSE v1[b]]
        /\ v2' = v2 + 1 /\ v2 < MaxForks
        /\ depth <= Confirmations \/ DeepMidScan \/ \A i \in Instances : ~Scan!PastChecks(i)
    BY <1>3 DEF Scan!Reorg, Scan!HeadBlock
  <2>2. depth \in Nat /\ v2 + 1 \in 1..MaxForks
    BY <1>1, <2>1 DEF Scan!Blocks
  <2>3. \A b \in 1..Len(v1) : (IF b > Len(v1) - depth THEN v2 + 1 ELSE v1[b]) \in 1..MaxForks
    BY <1>1, <2>2
  <2>4. PICK n \in Nat : n = Len(v1)
    BY ScanTyped
  <2>5. PICK new \in [1..n -> 1..MaxForks] : new = v1'
    BY <2>1, <2>3, <2>4
  <2>6. new \in Seq(1..MaxForks) /\ Len(new) = n
    <3>1. \A b \in 1..n : new[b] \in 1..MaxForks
      BY <2>5
    <3>2. new = [b \in 1..n |-> new[b]] /\ DOMAIN new = 1..n
      BY <2>5
    <3>3. [b \in 1..n |-> new[b]] \in Seq(1..MaxForks)
      BY <3>1
    <3> QED BY <3>2, <3>3, LenProperties
  <2>7. \A b \in 1..Len(v1) : v1'[b] = IF b > Len(v1) - depth THEN v2 + 1 ELSE v1[b]
    BY <2>1
  <2>8. GoesOn(v1, v1', v2)
    <3>1. ASSUME NEW b \in 1..Len(v1), NEW v \in 0..v2, v1'[b] = v, NEW x \in 1..b
          PROVE  v1'[x] = v1[x]
      <4>1. b \in Int /\ x \in Int /\ x <= b /\ x \in 1..Len(v1) /\ v # v2 + 1
        BY <1>1
      <4>2. ~(b > Len(v1) - depth)
        BY <2>7, <3>1, <4>1
      <4>3. ~(x > Len(v1) - depth)
        BY <1>1, <2>2, <4>1, <4>2
      <4> QED BY <2>7, <4>1, <4>3
    <3> QED BY <1>1, <2>4, <2>5, <2>6, <3>1 DEF GoesOn
  <2>9. \A b \in 1..Len(v1') : v1'[b] <= v2'
    BY <1>1, <2>1, <2>2, <2>4, <2>5, <2>6, <2>7
  <2>10. depth <= Confirmations => \A b \in 1..(Len(v1) - Confirmations) : v1'[b] = v1[b]
    BY <1>1, <2>2, <2>7
  <2> QED BY <1>1, <2>1, <2>2, <2>4, <2>5, <2>6, <2>8, <2>9, <2>10 DEF Scan!PastChecks
<1> QED BY <1>2, <1>3

LEMMA WorldKeeps ==
  ASSUME Scan!ScanAssumption, Scan!TypeOK, ScanParts, Scan!Extend \/ \E depth \in Scan!Blocks : Scan!Reorg(depth)
  PROVE  Scan!TypeOK' /\ ScanParts' /\ v8' = v8
<1>0. UNCHANGED <<v3, v4, v5, v6, v7, v8, v9, v10>>
  BY DEF Scan!Extend, Scan!Reorg, Scan!callers
<1>1. /\ v1' \in Seq(1..MaxForks) /\ Len(v1') \in FirstHead..MaxHead /\ v2' \in 1..MaxForks
      /\ v2 <= v2' /\ GoesOn(v1, v1', v2)
      /\ \A b \in 1..Len(v1') : v1'[b] <= v2'
      /\ \A i \in Instances : v7[i].step \in {"logs", "hash", "save"} =>
           DeepMidScan \/ \A b \in 1..(Len(v1) - Confirmations) : v1'[b] = v1[b]
  BY WorldMoves
<1>2. Scan!TypeOK'
  BY <1>0, <1>1 DEF Scan!TypeOK, Scan!HeadBlock
<1>3. Len(v1) \in Nat /\ Len(v1') \in Nat /\ Len(v1) <= Len(v1') /\ v2 \in 0..MaxForks /\ v2' \in 0..MaxForks
  BY <1>1, ScanTyped DEF GoesOn
<1>4. \A h \in Scan!History : HistorySound(h, v1, v2) => HistorySound(h, v1', v2')
  BY <1>1, <1>3, SoundKept
<1>5. HistorySound(v3, v1', v2') /\ \A i \in Instances : HistorySound(v4[i], v1', v2') /\ HistorySound(v7[i].cached, v1', v2')
  BY <1>4, ScanTyped DEF ScanParts
<1>6. RequestsOn(v6, v8, Len(v1'))
  BY <1>3, RequestsStay, ScanTyped DEF ScanParts
<1>7. ASSUME NEW i \in Instances PROVE RunOn(v7[i], Head(v6[i]), v1')
  <2>1. CASE v7[i].step = "idle"
    <3>1. v7[i] = Scan!Idle
      BY <2>1 DEF ScanParts, RunOn
    <3> QED BY <3>1 DEF RunOn, Scan!Idle
  <2>2. CASE v7[i].step # "idle"
    <3>1. v6[i] # <<>> /\ RunOn(v7[i], Head(v6[i]), v1) /\ v7[i] \in Scan!Run
      BY <2>2, ScanTyped DEF ScanParts
    <3>2. Head(v6[i]) \in Scan!Request /\ Head(v6[i]).head <= Len(v1)
      BY <3>1, FirstScan
    <3>3. v7[i].step \in {"logs", "hash", "save"} =>
            DeepMidScan \/ \A b \in 1..(Len(v1) - Confirmations) : v1'[b] = v1[b]
      BY <1>1
    <3> QED BY <1>3, <3>1, <3>2, <3>3, RunKept
  <2> QED BY <2>1, <2>2
<1>8. ScanParts'
  BY <1>0, <1>1, <1>5, <1>6, <1>7 DEF ScanParts
<1> QED BY <1>0, <1>2, <1>8
-----------------------------------------------------------------------------
\* Requests that ask, or ask again.
LEMMA AskKeeps ==
  ASSUME Scan!ScanAssumption, Scan!TypeOK, ScanParts, NEW c \in Callers, NEW i \in Instances,
         NEW ask \in Scan!Caller, ask.step = "waiting", ask.at = i, AskWithin(ask, Len(v1)),
         NEW head \in Scan!Blocks, head = ask.head, v8[c].step # "waiting",
         v8' = [v8 EXCEPT ![c] = ask],
         v6' = [v6 EXCEPT ![i] = Scan!Shared(@, c, ask.from, head)],
         v9' \in 0..MaxAsks, UNCHANGED <<Scan!world, v3, v4, v5, v7, v10>>
  PROVE  Scan!TypeOK' /\ ScanParts'
<1>0. UNCHANGED <<v1, v2, v3, v4, v5, v7, v10>>
  BY DEF Scan!world
<1>1. Len(v1) \in Nat /\ MaxHead \in Nat /\ \A x \in Callers : v8[x] \in Scan!Caller
  BY ScanTyped
<1>2. head \in 1..MaxHead /\ ask.from \in 1..MaxHead /\ ask.latest \in 0..MaxHead /\ ask.from <= head /\ head <= Len(v1)
  BY <1>1 DEF Scan!Blocks, Scan!Caller, AskWithin
<1>3. PICK more : more = Scan!Shared(v6[i], c, ask.from, head)
  OBVIOUS
<1>4. PICK later : later = [v8 EXCEPT ![c] = ask]
  OBVIOUS
<1>5. \A j \in Instances : v6[j] \in Seq(Scan!Request) /\ QueueOn(j, v6[j], v8, Len(v1))
  BY ScanTyped DEF ScanParts, RequestsOn
<1>6. /\ more \in Seq(Scan!Request) /\ more # <<>> /\ QueueOn(i, more, later, Len(v1))
      /\ v6[i] # <<>> => Head(more).from = Head(v6[i]).from /\ Head(more).head = Head(v6[i]).head
  <2>1. PICK q \in Seq(Scan!Request), asked \in [Callers -> Scan!Caller], n \in Nat : q = v6[i] /\ asked = v8 /\ n = Len(v1)
    BY <1>1, <1>5, ScanTyped
  <2>2. QueueOn(i, q, asked, n) /\ asked[c].step # "waiting" /\ ask.from <= head /\ head <= n
    BY <1>2, <1>5, <2>1
  <2>3. /\ more = Scan!Shared(q, c, ask.from, head) /\ later[c] = ask
        /\ \A o \in Callers : o # c => later[o] = asked[o]
    BY <1>3, <1>4, <2>1
  <2>4. /\ Scan!Shared(q, c, ask.from, head) \in Seq(Scan!Request) /\ Scan!Shared(q, c, ask.from, head) # <<>>
        /\ QueueOn(i, Scan!Shared(q, c, ask.from, head), later, n)
        /\ q # <<>> => /\ Head(Scan!Shared(q, c, ask.from, head)).from = Head(q).from
                       /\ Head(Scan!Shared(q, c, ask.from, head)).head = Head(q).head
    BY SMTT(40), <2>2, <2>3, SharedKeeps
  <2> QED BY <2>1, <2>3, <2>4
<1>7. /\ v8' = later /\ v6' = [v6 EXCEPT ![i] = more] /\ later \in [Callers -> Scan!Caller]
      /\ later[c] = ask /\ \A x \in Callers : x # c => later[x] = v8[x]
  BY <1>3, <1>4, ScanTyped
<1>8. v6'[i] = more /\ \A j \in Instances : j # i => v6'[j] = v6[j]
  BY <1>7, ScanTyped
<1>9. v6' \in [Instances -> Seq(Scan!Request)]
  BY <1>6, <1>7, ScanTyped
<1>10. Scan!TypeOK'
  BY <1>0, <1>7, <1>9 DEF Scan!TypeOK, Scan!HeadBlock
<1>11. RequestsOn(v6', v8', Len(v1))
  <2>1. \A x \in Callers : later[x].step \in {"waiting", "behind"} => AskWithin(later[x], Len(v1))
    BY <1>7 DEF ScanParts, RequestsOn
  <2>2. ASSUME NEW j \in Instances, j # i PROVE QueueOn(j, v6[j], later, Len(v1))
    <3>1. \A k \in DOMAIN v6[j] : \A x \in v6[j][k].callers : x # c /\ x \in Callers
      <4>1. \A k \in DOMAIN v6[j] : v6[j][k] \in Scan!Request
        BY <1>5
      <4>2. \A k \in DOMAIN v6[j] : v6[j][k].callers \subseteq Callers
        BY <4>1 DEF Scan!Request
      <4> QED BY <1>5, <4>2 DEF QueueOn
    <3>2. \A k \in DOMAIN v6[j] : \A x \in v6[j][k].callers : later[x] = v8[x]
      BY <1>7, <3>1
    <3> QED BY <1>5, <3>2, QueueUntouched
  <2>3. \A j \in Instances : QueueOn(j, v6'[j], later, Len(v1))
    BY <1>6, <1>8, <2>2
  <2> QED BY ZenonT(60), <1>7, <2>1, <2>3 DEF RequestsOn
<1>12. ASSUME NEW j \in Instances
       PROVE  RunOn(v7[j], Head(v6'[j]), v1) /\ (v7[j].step # "idle" => v6'[j] # <<>>)
  <2>1. CASE j # i
    BY <1>8, <2>1 DEF ScanParts
  <2>2. CASE j = i /\ v6[i] # <<>>
    BY <1>6, <1>8, <2>2, SameScan DEF ScanParts
  <2>3. CASE j = i /\ v6[i] = <<>>
    <3>1. v7[i].step = "idle" /\ v7[i] = Scan!Idle
      BY <2>3 DEF ScanParts, RunOn
    <3> QED BY <2>3, <3>1 DEF RunOn, Scan!Idle
  <2> QED BY <2>1, <2>2, <2>3
<1>13. ScanParts'
  BY <1>0, <1>11, <1>12 DEF ScanParts
<1> QED BY <1>10, <1>13

LEMMA RequestsKeep ==
  ASSUME Scan!ScanAssumption, Scan!TypeOK, ScanParts,
         \/ \E c \in Callers, i \in Instances : \E from, latest \in Issuances, head \in Scan!Blocks : Scan!Ask(c, i, from, latest, head)
         \/ \E c \in Callers : Scan!AskAgain(c)
  PROVE  Scan!TypeOK' /\ ScanParts' /\ \A c \in Callers : v8'[c].step = "answered" => v8'[c] = v8[c]
<1>0. /\ MaxHead \in Nat /\ v8 \in [Callers -> Scan!Caller] /\ Len(v1) \in 1..MaxHead
      /\ MaxAsks \in Nat /\ v9 \in 0..MaxAsks /\ Issuances \subseteq Nat \ {0}
  BY ScanTyped DEF Scan!ScanAssumption
<1>1. ASSUME NEW c \in Callers, NEW i \in Instances, NEW from \in Issuances, NEW latest \in Issuances, NEW head \in Scan!Blocks,
             Scan!Ask(c, i, from, latest, head)
      PROVE  Scan!TypeOK' /\ ScanParts' /\ \A x \in Callers : v8'[x].step = "answered" => v8'[x] = v8[x]
  <2>1. PICK ask : ask = [Scan!Asleep EXCEPT !.step = "waiting", !.at = i, !.from = from, !.latest = latest, !.head = head]
    OBVIOUS
  <2>2. /\ v8[c].step \in {"idle", "answered"} /\ v9 < MaxAsks /\ head <= Len(v1)
        /\ from <= latest /\ latest <= head
        /\ v8' = [v8 EXCEPT ![c] = ask] /\ v6' = [v6 EXCEPT ![i] = Scan!Shared(@, c, from, head)]
        /\ v9' = v9 + 1 /\ UNCHANGED <<Scan!world, v3, v4, v5, v7, v10>>
    <3>1. /\ v8[c].step \in {"idle", "answered"} /\ v9 < MaxAsks /\ head \in (Scan!HeadBlock - HeadLag)..Scan!HeadBlock
          /\ from <= latest /\ latest <= head
          /\ v9' = v9 + 1 /\ UNCHANGED <<Scan!world, v3, v4, v5, v7, v10>>
      BY <1>1 DEF Scan!Ask
    <3>2. v8' = [v8 EXCEPT ![c] = ask] /\ v6' = [v6 EXCEPT ![i] = Scan!Shared(@, c, from, head)]
      BY <1>1, <2>1 DEF Scan!Ask
    <3>3. head <= Len(v1)
      <4>1. HeadLag \in Nat
        BY DEF Scan!ScanAssumption
      <4> QED BY <1>0, <3>1, <4>1 DEF Scan!HeadBlock
    <3> QED BY <3>1, <3>2, <3>3
  <2>3. from \in 1..MaxHead /\ latest \in 1..MaxHead /\ head \in 1..MaxHead
    BY <1>0, <2>2 DEF Scan!Blocks
  <2>4. /\ ask.step = "waiting" /\ ask.at = i /\ ask.from = from /\ ask.latest = latest /\ ask.head = head
        /\ ask = [step |-> "waiting", at |-> i, from |-> from, latest |-> latest, head |-> head,
                  retried |-> FALSE, through |-> 0, logs |-> <<>>]
    BY <2>1 DEF Scan!Asleep
  <2>5. <<>> \in Scan!Logs
    <3>1. {} \in SUBSET Scan!Blocks /\ <<>> \in [{} -> 1..MaxForks]
      OBVIOUS
    <3> QED BY <3>1, LogsIn
  <2>6. ask \in Scan!Caller
    BY <1>0, <2>3, <2>4, <2>5 DEF Scan!Caller, Scan!Blocks
  <2>7. AskWithin(ask, Len(v1))
    BY <2>2, <2>4 DEF AskWithin
  <2>8. v9' \in 0..MaxAsks /\ v8[c].step # "waiting"
    BY <1>0, <2>2
  <2>9. v6' = [v6 EXCEPT ![i] = Scan!Shared(@, c, ask.from, head)]
    BY <2>2, <2>4
  <2>10. Scan!TypeOK' /\ ScanParts'
    BY ONLY ZenonT(60), <2>2, <2>4, <2>6, <2>7, <2>8, <2>9, AskKeeps, Scan!ScanAssumption, Scan!TypeOK, ScanParts,
            c \in Callers, i \in Instances, head \in Scan!Blocks
  <2> QED BY <1>0, <2>2, <2>4, <2>10
<1>2. ASSUME NEW c \in Callers, Scan!AskAgain(c)
      PROVE  Scan!TypeOK' /\ ScanParts' /\ \A x \in Callers : v8'[x].step = "answered" => v8'[x] = v8[x]
  <2>1. PICK ask : ask = [v8[c] EXCEPT !.step = "waiting", !.retried = TRUE]
    OBVIOUS
  <2>2. PICK i : i = v8[c].at
    OBVIOUS
  <2>3. /\ v8[c].step = "behind" /\ v8[c] \in Scan!Caller /\ AskWithin(v8[c], Len(v1))
        /\ v8' = [v8 EXCEPT ![c] = ask]
        /\ v6' = [v6 EXCEPT ![i] = Scan!Shared(@, c, v8[c].from, v8[c].head)]
        /\ v9' = v9 /\ UNCHANGED <<Scan!world, v3, v4, v5, v7, v10>>
    BY <1>0, <1>2, <2>1, <2>2 DEF Scan!AskAgain, ScanParts, RequestsOn
  <2>4. /\ ask \in Scan!Caller /\ ask.step = "waiting" /\ ask.at = i /\ ask.from = v8[c].from
        /\ ask.latest = v8[c].latest /\ ask.head = v8[c].head
    BY <2>1, <2>2, <2>3 DEF Scan!Caller
  <2>5. AskWithin(ask, Len(v1)) /\ i \in Instances
    BY <2>2, <2>3, <2>4 DEF AskWithin
  <2>6. ask.head \in Scan!Blocks
    BY <1>0, <2>4, <2>5 DEF Scan!Caller, Scan!Blocks, AskWithin
  <2>7. PICK head \in Scan!Blocks : head = ask.head
    BY <2>6
  <2>8. v6' = [v6 EXCEPT ![i] = Scan!Shared(@, c, ask.from, head)] /\ v8[c].step # "waiting"
    BY <2>3, <2>4, <2>7
  <2>9. v9' \in 0..MaxAsks
    BY <1>0, <2>3
  <2>10. Scan!TypeOK' /\ ScanParts'
    BY <2>3, <2>4, <2>5, <2>7, <2>8, <2>9, AskKeeps
  <2> QED BY <1>0, <2>3, <2>4, <2>10
<1> QED BY <1>1, <1>2
-----------------------------------------------------------------------------
\* A step of the scan that goes on.
LEMMA RunGoesOn ==
  ASSUME Scan!ScanAssumption, Scan!TypeOK, ScanParts, NEW i \in Instances, NEW r \in Scan!Run, NEW h \in Scan!History,
         v7' = [v7 EXCEPT ![i] = r], v4' = [v4 EXCEPT ![i] = h],
         UNCHANGED <<v1, v2, v6, v8, v9>>,
         v3' \in Scan!History, v5' \in [Instances -> Scan!Position], v10' \in 0..MaxFaults,
         HistorySound(h, v1, v2), HistorySound(r.cached, v1, v2), HistorySound(v3', v1, v2),
         RunOn(r, Head(v6[i]), v1), v6[i] # <<>>
  PROVE  Scan!TypeOK' /\ ScanParts'
<1>1. /\ v7' \in [Instances -> Scan!Run] /\ v7'[i] = r /\ \A j \in Instances : j # i => v7'[j] = v7[j]
      /\ v4' \in [Instances -> Scan!History] /\ v4'[i] = h /\ \A j \in Instances : j # i => v4'[j] = v4[j]
  BY ScanTyped
<1>2. Scan!TypeOK'
  BY <1>1 DEF Scan!TypeOK, Scan!HeadBlock
<1>3. \A j \in Instances : HistorySound(v4'[j], v1, v2) /\ HistorySound(v7'[j].cached, v1, v2)
  BY <1>1 DEF ScanParts
<1>4. \A j \in Instances : RunOn(v7'[j], Head(v6[j]), v1) /\ (v7'[j].step # "idle" => v6[j] # <<>>)
  BY <1>1 DEF ScanParts
<1>5. ScanParts'
  BY <1>3, <1>4 DEF ScanParts
<1> QED BY <1>2, <1>5

\* A scan that ends, for its requests.
LEMMA ScanEnds ==
  ASSUME Scan!ScanAssumption, Scan!TypeOK, ScanParts, NEW i \in Instances, v6[i] # <<>>,
         v7' = [v7 EXCEPT ![i] = Scan!Idle], v6' = [v6 EXCEPT ![i] = Tail(@)],
         UNCHANGED <<v1, v2, v4, v9>>,
         v3' \in Scan!History, v5' \in [Instances -> Scan!Position], v10' \in 0..MaxFaults,
         HistorySound(v3', v1, v2), v8' \in [Callers -> Scan!Caller],
         \A c \in Callers :
           IF c \in Head(v6[i]).callers
           THEN v8'[c].step \in {"waiting", "behind"} => AskWithin(v8'[c], Len(v1))
           ELSE v8'[c] = v8[c]
  PROVE  Scan!TypeOK' /\ ScanParts'
<1>1. /\ v7'[i] = Scan!Idle /\ \A j \in Instances : j # i => v7'[j] = v7[j]
      /\ v6'[i] = Tail(v6[i]) /\ \A j \in Instances : j # i => v6'[j] = v6[j]
  BY ScanTyped
<1>2. \A j \in Instances : v6[j] \in Seq(Scan!Request) /\ QueueOn(j, v6[j], v8, Len(v1))
  BY ScanTyped DEF ScanParts, RequestsOn
<1>3. Scan!Idle \in Scan!Run /\ HistorySound(Scan!Idle.cached, v1, v2)
  <2>1. <<>> \in Scan!Logs
    <3>1. {} \in SUBSET Scan!Blocks /\ <<>> \in [{} -> 1..MaxForks]
      OBVIOUS
    <3> QED BY <3>1, LogsIn
  <2>2. 1 \in Scan!Blocks /\ 0 \in 0..MaxHead /\ 0 \in 0..MaxForks
    BY ScanTyped DEF Scan!Blocks
  <2>3. Scan!None \in Scan!History
    BY <2>1, <2>2 DEF Scan!None, Scan!History
  <2>4. Scan!Idle.cached = Scan!None /\ Scan!None.end = 0
    BY DEF Scan!Idle, Scan!None
  <2> QED BY <2>3, <2>4 DEF Scan!Idle, Scan!Run, HistorySound
<1>4. v7' \in [Instances -> Scan!Run]
  BY <1>3, ScanTyped
<1>5. /\ Tail(v6[i]) \in Seq(Scan!Request) /\ QueueOn(i, Tail(v6[i]), v8', Len(v1))
  <2>1. PICK q \in Seq(Scan!Request) : q = v6[i]
    BY <1>2
  <2>2. PICK later : later = v8'
    OBVIOUS
  <2>3. PICK asked : asked = v8
    OBVIOUS
  <2>4. q # <<>> /\ QueueOn(i, q, asked, Len(v1))
    BY <1>2, <2>1, <2>3
  <2>5. \A c \in Callers : c \notin Head(q).callers => later[c] = asked[c]
    BY <2>1, <2>2, <2>3
  <2>6. Tail(q) \in Seq(Scan!Request) /\ QueueOn(i, Tail(q), later, Len(v1))
    BY <2>4, <2>5, TailKeeps
  <2> QED BY <2>1, <2>2, <2>6
<1>6. v6' \in [Instances -> Seq(Scan!Request)]
  BY <1>5, ScanTyped
<1>7. Scan!TypeOK'
  BY <1>4, <1>6 DEF Scan!TypeOK, Scan!HeadBlock
<1>8. ASSUME NEW j \in Instances, j # i PROVE QueueOn(j, v6[j], v8', Len(v1))
  <2>1. \A k \in DOMAIN v6[j] : \A c \in v6[j][k].callers : c \in Callers /\ v8[c].at = j
    <3>1. \A k \in DOMAIN v6[j] : v6[j][k] \in Scan!Request
      BY <1>2
    <3>2. \A k \in DOMAIN v6[j] : v6[j][k].callers \subseteq Callers
      BY <3>1 DEF Scan!Request
    <3> QED BY <1>2, <3>2 DEF QueueOn
  <2>2. \A c \in Head(v6[i]).callers : v8[c].at = i
    BY FirstScan
  <2>3. \A k \in DOMAIN v6[j] : \A c \in v6[j][k].callers : v8'[c] = v8[c]
    BY <1>8, <2>1, <2>2
  <2> QED BY <1>2, <2>3, QueueUntouched
<1>9. RequestsOn(v6', v8', Len(v1))
  <2>1. \A c \in Callers : v8'[c].step \in {"waiting", "behind"} => AskWithin(v8'[c], Len(v1))
    BY DEF ScanParts, RequestsOn
  <2>2. \A j \in Instances : QueueOn(j, v6'[j], v8', Len(v1))
    BY <1>1, <1>5, <1>8
  <2> QED BY <2>1, <2>2 DEF RequestsOn
<1>10. ASSUME NEW j \in Instances
       PROVE  RunOn(v7'[j], Head(v6'[j]), v1) /\ (v7'[j].step # "idle" => v6'[j] # <<>>)
  <2>1. CASE j # i
    BY <1>1, <2>1 DEF ScanParts
  <2>2. CASE j = i
    BY <1>1, <2>2 DEF RunOn, Scan!Idle
  <2> QED BY <2>1, <2>2
<1>11. \A j \in Instances : HistorySound(v4[j], v1, v2) /\ HistorySound(v7'[j].cached, v1, v2)
  BY <1>1, <1>3 DEF ScanParts
<1>12. ScanParts'
  BY <1>9, <1>10, <1>11 DEF ScanParts
<1> QED BY <1>7, <1>12

\* What an answered request got.
CompleteAnswer(got) ==
  /\ got.latest <= got.through
  /\ DOMAIN got.logs = got.from..got.through
  /\ DeepMidScan \/ \A b \in got.from..(got.through - Confirmations) : got.logs[b] = v1[b]

\* The answer of a scan that has read up to its end.
LEMMA ToldTruly ==
  ASSUME Scan!ScanAssumption, Scan!TypeOK, ScanParts, NEW i \in Instances, Scan!PastChecks(i), Scan!Through(i) = Scan!Scan(i).head,
         NEW c \in Scan!Scan(i).callers
  PROVE  /\ Scan!Told(i, c) \in Scan!Caller
         /\ Scan!Told(i, c).step \in {"waiting", "behind"} => AskWithin(Scan!Told(i, c), Len(v1))
         /\ Scan!Told(i, c).step = "answered" => CompleteAnswer(Scan!Told(i, c))
<1>1. /\ MaxHead \in Nat /\ Confirmations \in Nat /\ v8[c] \in Scan!Caller /\ v7[i] \in Scan!Run /\ v6[i] # <<>>
      /\ RunOn(v7[i], Scan!Scan(i), v1)
  <2>1. v6[i] # <<>> /\ RunOn(v7[i], Scan!Scan(i), v1)
    BY DEF ScanParts, Scan!PastChecks, Scan!Scan
  <2>2. c \in Callers
    BY <2>1, FirstScan DEF Scan!Scan
  <2> QED BY <2>1, <2>2, ScanTyped
<1>2. /\ c \in Callers /\ v8[c].step = "waiting" /\ v8[c].at = i /\ Scan!Scan(i).from <= v8[c].from
      /\ Scan!Scan(i).from \in 1..MaxHead /\ Scan!Scan(i).head \in 1..MaxHead
  BY <1>1, FirstScan DEF Scan!Scan
<1>3. AskWithin(v8[c], Len(v1))
  BY <1>2 DEF ScanParts, RequestsOn
<1>4. PICK s \in Scan!Request : s = Scan!Scan(i)
  BY <1>1, FirstScan DEF Scan!Scan
<1>5. PICK r \in Scan!Run : r = v7[i]
  BY <1>1
<1>6. r.cached \in Scan!History /\ r.cached.from \in 1..MaxHead /\ r.cached.end \in 0..MaxHead /\ r.fresh \in Seq(1..MaxForks)
  BY DEF Scan!Run, Scan!History, Scan!Blocks
<1>7. /\ Scan!FirstBlock(i) = RunFirst(r, s) /\ Scan!ScanFrom(i) = RunFrom(r, s) /\ RunThrough(r, s) = s.head
      /\ Scan!Through(i) = RunThrough(r, s)
  BY <1>4, <1>5 DEF Scan!FirstBlock, Scan!ScanFrom, Scan!Through, RunFirst, RunFrom, RunThrough, Scan!Cached, Scan!Kept
<1>8. /\ RunOn(r, s, v1) /\ HistorySound(r.cached, v1, v2) /\ r.step \in {"logs", "hash", "save"}
  BY <1>1, <1>4, <1>5 DEF ScanParts, Scan!PastChecks
<1>9. r.cached.end > 0 => r.cached.from <= s.from
  BY <1>8 DEF RunOn
<1>10. RunFirst(r, s) \in Nat /\ RunFirst(r, s) <= v8[c].from /\ v8[c].from \in 1..MaxHead /\ v8[c].latest \in 0..MaxHead
  BY <1>1, <1>2, <1>4, <1>6, <1>9 DEF RunFirst, Scan!Caller, Scan!Blocks
<1>11. PICK all : all = Scan!LogsThrough(i, Scan!Scan(i).head)
  OBVIOUS
<1>12. DOMAIN all = RunFirst(r, s)..s.head /\ \A x \in RunFirst(r, s)..s.head : all[x] = RunLog(r, s, x)
  BY <1>4, <1>5, <1>7, <1>11 DEF Scan!LogsThrough, RunLog, Scan!Cached
<1>13. \A x \in RunFirst(r, s)..s.head : RunLog(r, s, x) \in 1..MaxForks
  <2> SUFFICES ASSUME NEW x \in RunFirst(r, s)..s.head PROVE RunLog(r, s, x) \in 1..MaxForks
    OBVIOUS
  <2>1. CASE x < RunFrom(r, s)
    <3>1. r.cached.end > 0 /\ x \in r.cached.from..r.cached.end
      BY <1>2, <1>4, <1>6, <1>10, <2>1 DEF RunFrom, RunFirst
    <3>2. DOMAIN r.cached.logs = r.cached.from..r.cached.end
      BY <1>8, <3>1 DEF HistorySound, HistoryOnChain
    <3>3. \A y \in DOMAIN r.cached.logs : r.cached.logs[y] \in 1..MaxForks
      BY <1>6 DEF Scan!History, Scan!Logs
    <3> QED BY <2>1, <3>1, <3>2, <3>3 DEF RunLog
  <2>2. CASE ~(x < RunFrom(r, s))
    <3>1. RunFrom(r, s) \in Int
      BY <1>2, <1>4, <1>6 DEF RunFrom
    <3>2. Len(r.fresh) \in Nat /\ s.head = RunFrom(r, s) + Len(r.fresh) - 1
      BY <1>6, <1>7 DEF RunThrough
    <3>3. x - RunFrom(r, s) + 1 \in 1..Len(r.fresh)
      BY <1>10, <2>2, <3>1, <3>2
    <3>4. \A y \in 1..Len(r.fresh) : r.fresh[y] \in 1..MaxForks
      BY <1>6, ElementOfSeq
    <3> QED BY <2>2, <3>3, <3>4 DEF RunLog
  <2> QED BY <2>1, <2>2
<1>14. PICK logs : logs = Scan!Onwards(all, v8[c].from)
  OBVIOUS
<1>15. DOMAIN logs = v8[c].from..s.head /\ \A x \in v8[c].from..s.head : logs[x] = RunLog(r, s, x)
  <2>1. DOMAIN logs = {y \in DOMAIN all : y >= v8[c].from} /\ \A x \in DOMAIN logs : logs[x] = all[x]
    BY <1>14 DEF Scan!Onwards
  <2>2. s.head \in Int
    BY <1>2, <1>4
  <2>3. {y \in RunFirst(r, s)..s.head : y >= v8[c].from} = v8[c].from..s.head
    BY <1>10, <2>2
  <2>4. \A x \in v8[c].from..s.head : x \in RunFirst(r, s)..s.head
    BY <1>10, <2>2
  <2> QED BY <1>12, <2>1, <2>3, <2>4
<1>16. \A x \in v8[c].from..s.head : x \in RunFirst(r, s)..s.head /\ x \in Scan!Blocks
  <2>1. s.head \in 1..MaxHead
    BY <1>2, <1>4
  <2> QED BY <1>1, <1>10, <2>1 DEF Scan!Blocks
<1>17. logs \in Scan!Logs
  <2>1. logs \in [v8[c].from..s.head -> 1..MaxForks]
    <3>1. \A x \in v8[c].from..s.head : logs[x] \in 1..MaxForks
      BY <1>13, <1>15, <1>16
    <3>2. logs = [x \in DOMAIN logs |-> logs[x]]
      BY <1>14 DEF Scan!Onwards
    <3> QED BY <1>15, <3>1, <3>2
  <2>2. v8[c].from..s.head \in SUBSET Scan!Blocks
    BY <1>16
  <2> QED BY <2>1, <2>2, LogsIn
<1>18. CASE Scan!Suffices(c, Scan!Scan(i).head)
  <2>1. Scan!Told(i, c) = [Scan!Asleep EXCEPT !.step = "answered", !.from = v8[c].from, !.latest = v8[c].latest,
                                              !.through = s.head, !.logs = logs]
    BY <1>4, <1>11, <1>14, <1>18 DEF Scan!Told
  <2>2. PICK got : got = Scan!Told(i, c)
    OBVIOUS
  <2>3. /\ got = [step |-> "answered", at |-> NoInstance, from |-> v8[c].from, latest |-> v8[c].latest, head |-> 0,
                  retried |-> FALSE, through |-> s.head, logs |-> logs]
        /\ got.step = "answered" /\ got.from = v8[c].from /\ got.latest = v8[c].latest
        /\ got.through = s.head /\ got.logs = logs
    BY <2>1, <2>2 DEF Scan!Asleep
  <2>4. got \in Scan!Caller
    <3>1. v8[c].from \in Scan!Blocks /\ v8[c].latest \in 0..MaxHead /\ s.head \in 0..MaxHead /\ 0 \in 0..MaxHead
      BY <1>1, <1>2, <1>4, <1>10 DEF Scan!Blocks
    <3> QED BY <1>17, <2>3, <3>1 DEF Scan!Caller
  <2>5. got.latest <= got.through
    BY <1>4, <1>18, <2>3 DEF Scan!Suffices
  <2>6. DeepMidScan \/ \A b \in got.from..(got.through - Confirmations) : got.logs[b] = v1[b]
    <3>1. DeepMidScan \/ RunReads(r, s, v1)
      BY <1>8 DEF RunOn
    <3>2. \A b \in v8[c].from..(s.head - Confirmations) :
             /\ b \in RunFirst(r, s)..RunThrough(r, s) /\ b <= s.head - Confirmations /\ b \in v8[c].from..s.head
      <4>1. s.head \in Int
        BY <1>2, <1>4
      <4> QED BY <1>1, <1>7, <1>10, <4>1
    <3>3. RunReads(r, s, v1) => \A b \in v8[c].from..(s.head - Confirmations) : logs[b] = v1[b]
      BY <1>15, <3>2 DEF RunReads
    <3> QED BY <2>3, <3>1, <3>3
  <2>7. DOMAIN got.logs = got.from..got.through
    BY <1>15, <2>3
  <2> QED BY <2>2, <2>3, <2>4, <2>5, <2>6, <2>7 DEF CompleteAnswer
<1>19. CASE ~Scan!Suffices(c, Scan!Scan(i).head) /\ ~v8[c].retried
  <2>1. Scan!Told(i, c) = [v8[c] EXCEPT !.step = "behind"]
    BY <1>19 DEF Scan!Told
  <2>2. PICK got : got = Scan!Told(i, c)
    OBVIOUS
  <2>3. /\ got \in Scan!Caller /\ got.step = "behind" /\ got.at = v8[c].at /\ got.from = v8[c].from
        /\ got.latest = v8[c].latest /\ got.head = v8[c].head
    BY <1>1, <2>1, <2>2 DEF Scan!Caller
  <2> QED BY <1>3, <2>2, <2>3 DEF AskWithin
<1>20. CASE ~Scan!Suffices(c, Scan!Scan(i).head) /\ v8[c].retried
  <2>1. Scan!Told(i, c) = Scan!Asleep
    BY <1>20 DEF Scan!Told
  <2>2. Scan!Asleep \in Scan!Caller
    <3>1. <<>> \in Scan!Logs
      <4>1. {} \in SUBSET Scan!Blocks /\ <<>> \in [{} -> 1..MaxForks]
        OBVIOUS
      <4> QED BY <4>1, LogsIn
    <3>2. 1 \in Scan!Blocks /\ 0 \in 0..MaxHead
      BY ScanTyped DEF Scan!Blocks
    <3> QED BY <3>1, <3>2 DEF Scan!Asleep, Scan!Caller
  <2> QED BY <2>1, <2>2 DEF Scan!Asleep
<1> QED
  <2>1. v8[c].retried \in BOOLEAN
    BY <1>1 DEF Scan!Caller
  <2> QED BY <1>18, <1>19, <1>20, <2>1
-----------------------------------------------------------------------------
AnswersComplete == \A c \in Callers : Scan!Answers(c) => CompleteAnswer(v8'[c])

LEMMA AsleepIn == ASSUME Scan!ScanAssumption, Scan!TypeOK PROVE Scan!Asleep \in Scan!Caller
<1>1. <<>> \in Scan!Logs
  <2>1. {} \in SUBSET Scan!Blocks /\ <<>> \in [{} -> 1..MaxForks]
    OBVIOUS
  <2> QED BY <2>1, LogsIn
<1>2. 1 \in Scan!Blocks /\ 0 \in 0..MaxHead
  BY ScanTyped DEF Scan!Blocks
<1> QED BY <1>1, <1>2 DEF Scan!Asleep, Scan!Caller

LEMMA ScanResolves ==
  ASSUME Scan!ScanAssumption, Scan!TypeOK, ScanParts, NEW i \in Instances, Scan!PastChecks(i), Scan!Through(i) = Scan!Scan(i).head,
         Scan!Resolve(i), UNCHANGED <<v1, v2, v4>>,
         v3' \in Scan!History, v5' \in [Instances -> Scan!Position], v10' \in 0..MaxFaults,
         HistorySound(v3', v1, v2)
  PROVE  Scan!TypeOK' /\ ScanParts' /\ AnswersComplete
<1>1. v6[i] # <<>> /\ Scan!Scan(i) = Head(v6[i])
  BY DEF ScanParts, Scan!PastChecks, Scan!Scan
<1>2. /\ v8' = [c \in Callers |-> IF c \in Scan!Scan(i).callers THEN Scan!Told(i, c) ELSE v8[c]]
      /\ v6' = [v6 EXCEPT ![i] = Tail(@)] /\ v7' = [v7 EXCEPT ![i] = Scan!Idle] /\ UNCHANGED v9
  <2>1. \A c \in Callers : [x \in Callers |-> Scan!Told(i, x)][c] = Scan!Told(i, c)
    OBVIOUS
  <2> QED BY <2>1 DEF Scan!Resolve, Scan!Settle
<1>3. \A c \in Scan!Scan(i).callers : /\ Scan!Told(i, c) \in Scan!Caller
                                      /\ Scan!Told(i, c).step \in {"waiting", "behind"} => AskWithin(Scan!Told(i, c), Len(v1))
                                      /\ Scan!Told(i, c).step = "answered" => CompleteAnswer(Scan!Told(i, c))
  BY ToldTruly
<1>4. \A c \in Callers : v8'[c] = IF c \in Scan!Scan(i).callers THEN Scan!Told(i, c) ELSE v8[c]
  BY <1>2
<1>5. v8' \in [Callers -> Scan!Caller]
  <2>1. \A c \in Callers : (IF c \in Scan!Scan(i).callers THEN Scan!Told(i, c) ELSE v8[c]) \in Scan!Caller
    BY <1>3, ScanTyped
  <2> QED BY <1>2, <2>1
<1>6. \A c \in Callers :
           IF c \in Head(v6[i]).callers
           THEN v8'[c].step \in {"waiting", "behind"} => AskWithin(v8'[c], Len(v1))
           ELSE v8'[c] = v8[c]
  BY <1>1, <1>3, <1>4
<1>7. Scan!TypeOK' /\ ScanParts'
  BY <1>1, <1>2, <1>5, <1>6, ScanEnds
<1>8. AnswersComplete
  BY <1>3, <1>4 DEF AnswersComplete, Scan!Answers
<1> QED BY <1>7, <1>8

LEMMA ScanRejects ==
  ASSUME Scan!ScanAssumption, Scan!TypeOK, ScanParts, NEW i \in Instances, v6[i] # <<>>,
         Scan!Reject(i), UNCHANGED <<v1, v2, v4>>,
         v3' \in Scan!History, v5' \in [Instances -> Scan!Position], v10' \in 0..MaxFaults,
         HistorySound(v3', v1, v2)
  PROVE  Scan!TypeOK' /\ ScanParts' /\ AnswersComplete
<1>1. /\ v8' = [c \in Callers |-> IF c \in Head(v6[i]).callers THEN Scan!Asleep ELSE v8[c]]
      /\ v6' = [v6 EXCEPT ![i] = Tail(@)] /\ v7' = [v7 EXCEPT ![i] = Scan!Idle] /\ UNCHANGED v9
  <2>1. \A c \in Callers : [x \in Callers |-> Scan!Asleep][c] = Scan!Asleep
    OBVIOUS
  <2> QED BY <2>1 DEF Scan!Reject, Scan!Settle, Scan!Scan
<1>2. Scan!Asleep \in Scan!Caller /\ Scan!Asleep.step = "idle"
  BY AsleepIn DEF Scan!Asleep
<1>3. v8' \in [Callers -> Scan!Caller]
  BY <1>1, <1>2, ScanTyped
<1>4. \A c \in Callers : v8'[c] = IF c \in Head(v6[i]).callers THEN Scan!Asleep ELSE v8[c]
  BY <1>1
<1>5. \A c \in Callers :
           IF c \in Head(v6[i]).callers
           THEN v8'[c].step \in {"waiting", "behind"} => AskWithin(v8'[c], Len(v1))
           ELSE v8'[c] = v8[c]
  BY <1>2, <1>4
<1>6. Scan!TypeOK' /\ ScanParts'
  BY <1>1, <1>3, <1>5, ScanEnds
<1>7. AnswersComplete
  BY <1>2, <1>4 DEF AnswersComplete, Scan!Answers
<1> QED BY <1>6, <1>7

LEMMA SameCallers == v8' = v8 => AnswersComplete
BY DEF AnswersComplete, Scan!Answers

LEMMA BaseIn == ASSUME Scan!ScanAssumption, NEW h \in Scan!History PROVE Scan!Base(h) \in Scan!Position
<1>1. MaxHead \in Nat
  BY DEF Scan!ScanAssumption
<1> QED BY <1>1 DEF Scan!History, Scan!Base, Scan!Position

LEMMA NoneIn == ASSUME Scan!ScanAssumption, Scan!TypeOK, NEW c, NEW f PROVE Scan!None \in Scan!History /\ HistorySound(Scan!None, c, f) /\ Scan!None.end = 0
<1>1. <<>> \in Scan!Logs
  <2>1. {} \in SUBSET Scan!Blocks /\ <<>> \in [{} -> 1..MaxForks]
    OBVIOUS
  <2> QED BY <2>1, LogsIn
<1>2. 1 \in Scan!Blocks /\ 0 \in 0..MaxHead /\ 0 \in 0..MaxForks
  BY ScanTyped DEF Scan!Blocks
<1> QED BY <1>1, <1>2 DEF Scan!None, Scan!History, HistorySound

\* A scan begins.
LEMMA SyncKeeps ==
  ASSUME Scan!ScanAssumption, Scan!TypeOK, ScanParts, NEW i \in Instances, Scan!Sync(i)
  PROVE  Scan!TypeOK' /\ ScanParts' /\ AnswersComplete
<1>1. /\ v7[i].step = "idle" /\ v6[i] # <<>> /\ v7[i] = Scan!Idle
      /\ UNCHANGED <<v1, v2, v3, v6, v8, v9>>
  BY DEF Scan!Sync, Scan!world, Scan!callers, ScanParts, RunOn
<1>2. /\ v4 \in [Instances -> Scan!History] /\ v3 \in Scan!History /\ v5 \in [Instances -> Scan!Position]
      /\ v7 \in [Instances -> Scan!Run] /\ v10 \in 0..MaxFaults /\ MaxFaults \in Nat
  BY ScanTyped DEF Scan!ScanAssumption
<1>3. PICK h \in Scan!History : /\ h = v4'[i] /\ h \in {v4[i], v3} /\ v4' = [v4 EXCEPT ![i] = h]
                                /\ Scan!Started(i, h) /\ v5' \in [Instances -> Scan!Position] /\ v10' \in 0..MaxFaults
  <2>1. CASE v5[i] # Scan!Unknown /\ Scan!Started(i, v4[i]) /\ UNCHANGED <<v4, v5, v10>>
    <3>1. v4' = [v4 EXCEPT ![i] = v4[i]] /\ v4'[i] = v4[i] /\ v4[i] \in Scan!History
      BY <1>2, <2>1
    <3> QED BY <1>2, <2>1, <3>1
  <2>2. CASE /\ v5' = [v5 EXCEPT ![i] = Scan!Base(v3)]
             /\ v4' = [v4 EXCEPT ![i] = IF v3.end > @.end THEN v3 ELSE @]
             /\ Scan!Started(i, v4'[i])
             /\ UNCHANGED v10
    <3>1. PICK h : h = IF v3.end > v4[i].end THEN v3 ELSE v4[i]
      OBVIOUS
    <3>2. v4' = [v4 EXCEPT ![i] = h] /\ v4'[i] = h /\ h \in Scan!History /\ h \in {v4[i], v3}
      BY <1>2, <2>2, <3>1
    <3>3. Scan!Base(v3) \in Scan!Position
      BY <1>2, BaseIn
    <3> QED BY <1>2, <2>2, <3>2, <3>3
  <2>3. CASE v5[i] = Scan!Unknown /\ Scan!Fault /\ Scan!Started(i, v4[i]) /\ UNCHANGED <<v4, v5>>
    <3>1. v4' = [v4 EXCEPT ![i] = v4[i]] /\ v4'[i] = v4[i] /\ v4[i] \in Scan!History
      BY <1>2, <2>3
    <3>2. v10' \in 0..MaxFaults
      BY <1>2, <2>3 DEF Scan!Fault
    <3> QED BY <1>2, <2>3, <3>1, <3>2
  <2> QED BY <2>1, <2>2, <2>3 DEF Scan!Sync
<1>4. HistorySound(h, v1, v2)
  BY <1>3 DEF ScanParts
<1>5. PICK s \in Scan!Request : /\ s = Head(v6[i]) /\ s = Scan!Scan(i) /\ s.from <= s.head /\ s.head <= Len(v1)
                                /\ s.from \in 1..MaxHead /\ s.head \in 1..MaxHead
  BY <1>1, FirstScan DEF Scan!Scan
<1>6. PICK r : r = [v7[i] EXCEPT !.step = IF Scan!Usable(i, h) THEN "check" ELSE "logs",
                                 !.cached = IF Scan!Usable(i, h) THEN h ELSE Scan!None,
                                 !.regress = Scan!Kept(h) /\ ~Scan!Usable(i, h)]
  OBVIOUS
<1>7. v7' = [v7 EXCEPT ![i] = r]
  BY <1>3, <1>6 DEF Scan!Started
<1>8. Scan!None \in Scan!History /\ HistorySound(Scan!None, v1, v2) /\ Scan!None.end = 0
  BY NoneIn
<1>9. /\ r.step = (IF Scan!Usable(i, h) THEN "check" ELSE "logs") /\ r.cached = (IF Scan!Usable(i, h) THEN h ELSE Scan!None)
      /\ r.index = 0 /\ r.fresh = <<>> /\ r.failed = FALSE
  BY <1>1, <1>6 DEF Scan!Idle
<1>10. r \in Scan!Run
  <2>1. r.regress = (Scan!Kept(h) /\ ~Scan!Usable(i, h))
    BY <1>1, <1>6 DEF Scan!Idle
  <2>2. r.regress \in BOOLEAN
    BY <2>1, Zenon
  <2>3. r = [step |-> r.step, cached |-> r.cached, regress |-> r.regress, index |-> r.index, fresh |-> r.fresh, failed |-> r.failed]
    BY <1>1, <1>6 DEF Scan!Idle
  <2>4. r.step \in {"check", "logs"} /\ r.cached \in Scan!History
    <3>1. CASE Scan!Usable(i, h)
      BY <1>9, <3>1
    <3>2. CASE ~Scan!Usable(i, h)
      BY <1>8, <1>9, <3>2
    <3> QED BY <3>1, <3>2
  <2>6. r.index \in Nat
    BY <1>9
  <2>7. r.failed \in BOOLEAN
    <3>1. r.failed = FALSE
      BY <1>9
    <3> QED BY <3>1, Zenon
  <2>5. r.fresh \in Seq(1..MaxForks)
    BY <1>9
  <2> QED BY <2>2, <2>3, <2>4, <2>5, <2>6, <2>7 DEF Scan!Run
<1>11. HistorySound(r.cached, v1, v2)
  BY <1>4, <1>8, <1>9
<1>12. RunOn(r, s, v1)
  <2>1. CASE Scan!Usable(i, h)
    <3>1. h.end > 0 /\ h.from <= s.from /\ h.end <= s.head
      BY <1>5, <2>1 DEF Scan!Usable, Scan!Kept
    <3>2. r.step = "check" /\ r.cached = h
      BY <1>9, <2>1
    <3>3. h.end \in Int
      BY ScanTyped DEF Scan!History
    <3>4. RunThrough(r, s) = h.end
      <4>1. Len(r.fresh) = 0
        BY <1>9
      <4> QED BY <3>1, <3>2, <3>3, <4>1 DEF RunThrough, RunFrom
    <3> QED BY <1>9, <3>1, <3>2, <3>4 DEF RunOn
  <2>2. CASE ~Scan!Usable(i, h)
    <3>1. r.step = "logs" /\ r.cached = Scan!None
      BY <1>9, <2>2
    <3> QED BY <1>5, <1>8, <1>9, <1>10, <3>1, RunFetches
  <2> QED BY <2>1, <2>2
<1>13. Scan!TypeOK' /\ ScanParts'
  <2>1. v3' \in Scan!History /\ HistorySound(v3', v1, v2)
    BY <1>1, <1>2 DEF ScanParts
  <2>2. RunOn(r, Head(v6[i]), v1)
    BY <1>5, <1>12
  <2> QED BY <1>1, <1>3, <1>4, <1>7, <1>10, <1>11, <2>1, <2>2, RunGoesOn
<1> QED BY <1>1, <1>13, SameCallers
\* What is known of the scan that runs.
LEMMA ScanRunning ==
  ASSUME Scan!ScanAssumption, Scan!TypeOK, ScanParts, NEW i \in Instances, v7[i].step # "idle"
  PROVE  /\ v6[i] # <<>> /\ Scan!Scan(i) = Head(v6[i]) /\ Scan!Scan(i) \in Scan!Request
         /\ Scan!Scan(i).from <= Scan!Scan(i).head /\ Scan!Scan(i).head <= Len(v1)
         /\ Scan!Scan(i).from \in 1..MaxHead /\ Scan!Scan(i).head \in 1..MaxHead
         /\ v7[i] \in Scan!Run /\ v7[i].cached \in Scan!History /\ v4[i] \in Scan!History /\ v3 \in Scan!History
         /\ v5 \in [Instances -> Scan!Position]
         /\ RunOn(v7[i], Scan!Scan(i), v1) /\ HistorySound(v7[i].cached, v1, v2)
         /\ HistorySound(v4[i], v1, v2) /\ HistorySound(v3, v1, v2)
         /\ v10 \in 0..MaxFaults /\ MaxFaults \in Nat
         /\ Scan!Through(i) = RunThrough(v7[i], Scan!Scan(i)) /\ Scan!ScanFrom(i) = RunFrom(v7[i], Scan!Scan(i))
         /\ Scan!ExtendTo(i) = RunEnd(v7[i], Scan!Scan(i)) /\ Scan!FirstBlock(i) = RunFirst(v7[i], Scan!Scan(i))
<1>1. v6[i] # <<>>
  BY DEF ScanParts
<1>2. /\ Scan!Through(i) = RunThrough(v7[i], Scan!Scan(i)) /\ Scan!ScanFrom(i) = RunFrom(v7[i], Scan!Scan(i))
      /\ Scan!ExtendTo(i) = RunEnd(v7[i], Scan!Scan(i)) /\ Scan!FirstBlock(i) = RunFirst(v7[i], Scan!Scan(i))
  BY DEF Scan!Through, Scan!FirstBlock, Scan!ScanFrom, Scan!ExtendTo, Scan!SafeEnd, RunThrough, RunFirst, RunFrom, RunEnd, Scan!Cached, Scan!Kept
<1>3. MaxFaults \in Nat
  BY DEF Scan!ScanAssumption
<1> QED BY <1>1, <1>2, <1>3, ScanTyped, FirstScan DEF ScanParts, Scan!Scan

\* The history in memory stays as it is while a scan goes on.
LEMMA SameMemory == ASSUME Scan!TypeOK, NEW i, UNCHANGED v4 PROVE v4' = [v4 EXCEPT ![i] = v4[i]]
BY DEF Scan!TypeOK

LEMMA CheckKeeps ==
  ASSUME Scan!ScanAssumption, Scan!TypeOK, ScanParts, NEW i \in Instances, Scan!Check(i)
  PROVE  Scan!TypeOK' /\ ScanParts' /\ AnswersComplete
<1>1. v7[i].step = "check" /\ UNCHANGED <<v1, v2, v3, v4, v5, v6, v8, v9, v10>>
  BY DEF Scan!Check, Scan!world, Scan!callers
<1>2. PICK s \in Scan!Request : s = Scan!Scan(i) /\ s = Head(v6[i]) /\ s.from <= s.head
  BY <1>1, ScanRunning
<1>3. PICK old \in Scan!Run : old = v7[i] /\ RunOn(old, s, v1) /\ HistorySound(old.cached, v1, v2)
  BY <1>1, <1>2, ScanRunning
<1>4. /\ old.cached.end > 0 /\ old.fresh = <<>> /\ ~old.failed /\ old.step = "check" /\ old.cached \in Scan!History
      /\ old.cached.from <= s.from /\ old.cached.end <= s.head /\ RunThrough(old, s) <= s.head
  BY <1>1, <1>3, ScanRunning DEF RunOn
<1>5. PICK r \in Scan!Run : /\ v7' = [v7 EXCEPT ![i] = r] /\ r.cached = old.cached /\ RunOn(r, s, v1)
  <2>1. CASE v1[old.cached.end] = old.cached.hash
    <3>1. PICK r : r = [old EXCEPT !.step = "logs"]
      OBVIOUS
    <3>2. v7' = [v7 EXCEPT ![i] = r]
      BY <1>1, <1>3, <2>1, <3>1 DEF Scan!Check, Scan!Goto, Scan!Cached
    <3>3. r \in Scan!Run /\ r.step = "logs" /\ r.cached = old.cached /\ r.fresh = old.fresh /\ r.failed = old.failed
      BY <3>1 DEF Scan!Run
    <3>4. DeepMidScan \/ LogsCanonical(r.cached, r.cached.end, v1)
      BY <1>3, <1>4, <2>1, <3>3 DEF HistorySound, HistoryTrusted
    <3>5. RunOn(r, s, v1)
      BY <1>2, <1>4, <3>3, <3>4, RunFetches
    <3> QED BY <3>2, <3>3, <3>5
  <2>2. CASE v1[old.cached.end] # old.cached.hash
    <3>1. PICK r : r = [old EXCEPT !.step = "rewind", !.regress = TRUE, !.index = Len(old.cached.anchors)]
      OBVIOUS
    <3>2. v7' = [v7 EXCEPT ![i] = r]
      BY <1>1, <1>3, <2>2, <3>1 DEF Scan!Check, Scan!Cached
    <3>3. Len(old.cached.anchors) \in Nat
      BY <1>4 DEF Scan!History
    <3>4. /\ r \in Scan!Run /\ r.step = "rewind" /\ r.cached = old.cached /\ r.fresh = old.fresh /\ r.failed = old.failed
          /\ r.index = Len(old.cached.anchors)
      BY <3>1, <3>3 DEF Scan!Run
    <3>5. RunThrough(r, s) = RunThrough(old, s)
      BY <3>4 DEF RunThrough, RunFrom
    <3>6. RunOn(r, s, v1)
      BY <1>4, <3>3, <3>4, <3>5 DEF RunOn
    <3> QED BY <3>2, <3>4, <3>6
  <2> QED BY <2>1, <2>2
<1>6. Scan!TypeOK' /\ ScanParts'
  <2>1. v4' = [v4 EXCEPT ![i] = v4[i]] /\ v4[i] \in Scan!History /\ HistorySound(v4[i], v1, v2)
    BY <1>1, SameMemory, ScanRunning
  <2>2. v3' \in Scan!History /\ v5' \in [Instances -> Scan!Position] /\ v10' \in 0..MaxFaults /\ HistorySound(v3', v1, v2)
    BY <1>1, ScanRunning
  <2>3. HistorySound(r.cached, v1, v2) /\ RunOn(r, Head(v6[i]), v1) /\ v6[i] # <<>>
    BY <1>1, <1>2, <1>3, <1>5, ScanRunning
  <2> QED BY <1>1, <1>5, <2>1, <2>2, <2>3, RunGoesOn
<1> QED BY <1>1, <1>6, SameCallers

LEMMA RewindKeeps ==
  ASSUME Scan!ScanAssumption, Scan!TypeOK, ScanParts, NEW i \in Instances, Scan!Rewind(i)
  PROVE  Scan!TypeOK' /\ ScanParts' /\ AnswersComplete
<1>1. v7[i].step = "rewind" /\ UNCHANGED <<v1, v2, v3, v5, v6, v8, v9, v10>>
  BY DEF Scan!Rewind, Scan!world, Scan!callers
<1>2. PICK s \in Scan!Request : s = Scan!Scan(i) /\ s = Head(v6[i]) /\ s.from <= s.head
  BY <1>1, ScanRunning
<1>3. PICK old \in Scan!Run : old = v7[i] /\ RunOn(old, s, v1) /\ HistorySound(old.cached, v1, v2)
  BY <1>1, <1>2, ScanRunning
<1>4. /\ old.cached.end > 0 /\ old.fresh = <<>> /\ ~old.failed /\ old.step = "rewind" /\ old.cached \in Scan!History
      /\ old.cached.from <= s.from /\ old.cached.end <= s.head /\ RunThrough(old, s) <= s.head
      /\ old.index <= Len(old.cached.anchors) /\ old.index \in Nat
  BY <1>1, <1>3, ScanRunning DEF RunOn, Scan!Run
<1>5. PICK k \in Nat : k = old.index
  BY <1>4
<1>6. PICK r \in Scan!Run, h \in Scan!History :
        /\ v7' = [v7 EXCEPT ![i] = r] /\ v4' = [v4 EXCEPT ![i] = h]
        /\ RunOn(r, s, v1) /\ HistorySound(r.cached, v1, v2) /\ HistorySound(h, v1, v2)
  <2>1. CASE k > 0 /\ v1[old.cached.anchors[k].end] # old.cached.anchors[k].hash
    <3>1. PICK r : r = [old EXCEPT !.index = k - 1]
      OBVIOUS
    <3>2. v7' = [v7 EXCEPT ![i] = r] /\ UNCHANGED v4
      BY <1>3, <1>5, <2>1, <3>1 DEF Scan!Rewind, Scan!Cached
    <3>3. k - 1 \in Nat
      BY <2>1
    <3>4. /\ r \in Scan!Run /\ r.step = "rewind" /\ r.cached = old.cached /\ r.fresh = old.fresh /\ r.failed = old.failed
          /\ r.index = k - 1
      BY <1>4, <3>1, <3>3 DEF Scan!Run
    <3>5. RunThrough(r, s) = RunThrough(old, s)
      BY <3>4 DEF RunThrough, RunFrom
    <3>6. Len(old.cached.anchors) \in Nat
      BY <1>4 DEF Scan!History
    <3>7. r.index <= Len(r.cached.anchors)
      BY <1>4, <1>5, <3>4, <3>6
    <3>8. RunOn(r, s, v1)
      BY <1>4, <3>4, <3>5, <3>7 DEF RunOn
    <3>9. v4' = [v4 EXCEPT ![i] = v4[i]] /\ v4[i] \in Scan!History /\ HistorySound(v4[i], v1, v2)
      BY <1>1, <3>2, SameMemory, ScanRunning
    <3> QED BY <1>3, <3>2, <3>4, <3>8, <3>9
  <2>2. CASE ~(k > 0 /\ v1[old.cached.anchors[k].end] # old.cached.anchors[k].hash)
    <3>1. PICK h : h = IF k = 0 THEN Scan!None ELSE Scan!Rewound(old.cached, k)
      OBVIOUS
    <3>2. PICK r : r = [old EXCEPT !.step = "logs", !.cached = h]
      OBVIOUS
    <3>3. v7' = [v7 EXCEPT ![i] = r] /\ v4' = [v4 EXCEPT ![i] = h]
      BY <1>3, <1>5, <2>2, <3>1, <3>2 DEF Scan!Rewind, Scan!Cached, Scan!Fetch
    <3>4. /\ h \in Scan!History /\ HistorySound(h, v1, v2)
          /\ h.end > 0 => /\ h.from <= s.from /\ h.end <= s.head
                          /\ DeepMidScan \/ LogsCanonical(h, h.end, v1)
      <4>1. CASE k = 0
        <5>1. h = Scan!None
          BY <3>1, <4>1
        <5> QED BY <5>1, NoneIn
      <4>2. CASE k # 0
        <5>1. k \in DOMAIN old.cached.anchors
          <6>1. old.cached.anchors \in Seq(Scan!Position)
            BY <1>4 DEF Scan!History
          <6> QED BY <1>4, <1>5, <4>2, <6>1
        <5>2. h = Scan!Rewound(old.cached, k) /\ v1[old.cached.anchors[k].end] = old.cached.anchors[k].hash
          BY <2>2, <3>1, <4>2
        <5>3. PICK c : c = v1
          OBVIOUS
        <5>4. PICK f \in 0..MaxForks : f = v2
          BY ScanTyped
        <5>5. Len(c) \in Nat /\ HistorySound(old.cached, c, f)
          BY <1>3, <5>3, <5>4, ScanTyped
        <5>6. PICK was \in Scan!History : was = old.cached
          BY <1>4
        <5>7. /\ Scan!Rewound(was, k) \in Scan!History /\ HistorySound(Scan!Rewound(was, k), c, f)
              /\ Scan!Rewound(was, k).end > 0 /\ Scan!Rewound(was, k).from = was.from /\ Scan!Rewound(was, k).end < was.end
              /\ c[was.anchors[k].end] = was.anchors[k].hash => DeepMidScan \/ LogsCanonical(Scan!Rewound(was, k), Scan!Rewound(was, k).end, c)
          <6>1. was.end > 0 /\ HistorySound(was, c, f) /\ k \in DOMAIN was.anchors
            BY <1>4, <5>1, <5>5, <5>6
          <6> QED BY <5>5, <6>1, RewoundSound
        <5>8. h.from <= s.from /\ h.end <= s.head
          <6>1. was.end \in Int /\ h.end \in Int /\ s.head \in Int
            <7>1. MaxHead \in Nat
              BY ScanTyped
            <7>2. h \in Scan!History /\ \A x \in Scan!History : x.end \in Int
              BY <5>2, <5>6, <5>7, <7>1 DEF Scan!History
            <7>3. s.head \in Int
              BY <7>1 DEF Scan!Request, Scan!Blocks
            <7> QED BY <7>2, <7>3
          <6> QED BY <1>4, <5>2, <5>6, <5>7, <6>1
        <5> QED BY <5>2, <5>3, <5>4, <5>6, <5>7, <5>8
      <4> QED BY <4>1, <4>2
    <3>5. /\ r \in Scan!Run /\ r.step = "logs" /\ r.cached = h /\ r.fresh = <<>> /\ ~r.failed
      BY <1>4, <3>2, <3>4 DEF Scan!Run
    <3>6. RunOn(r, s, v1)
      BY <1>2, <3>4, <3>5, RunFetches
    <3> QED BY <3>3, <3>4, <3>5, <3>6
  <2> QED BY <2>1, <2>2
<1>7. Scan!TypeOK' /\ ScanParts'
  <2>1. v3' \in Scan!History /\ v5' \in [Instances -> Scan!Position] /\ v10' \in 0..MaxFaults /\ HistorySound(v3', v1, v2)
    BY <1>1, ScanRunning
  <2>2. RunOn(r, Head(v6[i]), v1) /\ v6[i] # <<>>
    BY <1>1, <1>2, <1>6, ScanRunning
  <2> QED BY <1>1, <1>6, <2>1, <2>2, RunGoesOn
<1> QED BY <1>1, <1>7, SameCallers
LEMMA ChunkKeeps ==
  ASSUME Scan!ScanAssumption, Scan!TypeOK, ScanParts, NEW i \in Instances, Scan!FetchChunk(i)
  PROVE  Scan!TypeOK' /\ ScanParts' /\ AnswersComplete
<1>1. /\ v7[i].step = "logs" /\ Scan!Through(i) < Scan!Scan(i).head
      /\ UNCHANGED <<v1, v2, v3, v4, v5, v6, v8, v9, v10>>
  BY DEF Scan!FetchChunk, Scan!world, Scan!callers
<1>2. PICK s \in Scan!Request : s = Scan!Scan(i) /\ s = Head(v6[i]) /\ s.head <= Len(v1) /\ s.head \in Int
  BY <1>1, ScanRunning
<1>3. PICK old \in Scan!Run : old = v7[i] /\ RunOn(old, s, v1) /\ HistorySound(old.cached, v1, v2)
  BY <1>1, <1>2, ScanRunning
<1>4. PICK c \in Seq(1..MaxForks) : c = v1
  BY ScanTyped
<1>5. PICK last : last = IF Scan!Through(i) + ChunkBlocks > Scan!Scan(i).head THEN Scan!Scan(i).head ELSE Scan!Through(i) + ChunkBlocks
  OBVIOUS
<1>6. Scan!Through(i) = RunThrough(old, s) /\ RunThrough(old, s) \in Int
  <2>1. Scan!Through(i) = RunThrough(old, s)
    BY <1>1, <1>2, <1>3, ScanRunning
  <2>2. old.cached \in Scan!History /\ old.fresh \in Seq(1..MaxForks) /\ s.from \in 1..MaxHead
    BY DEF Scan!Run, Scan!Request, Scan!Blocks
  <2>3. old.cached.end \in Int
    BY SMTT(40), <2>2, ScanTyped DEF Scan!History
  <2>4. RunFrom(old, s) \in Int
    BY <2>2, <2>3 DEF RunFrom
  <2> QED BY <2>1, <2>2, <2>4 DEF RunThrough
<1>7. last \in Int /\ RunThrough(old, s) < last /\ last <= s.head
  <2>1. ChunkBlocks \in Nat /\ ChunkBlocks > 0
    BY DEF Scan!ScanAssumption
  <2>2. PICK t \in Int : t = RunThrough(old, s) /\ t < s.head /\ last = IF t + ChunkBlocks > s.head THEN s.head ELSE t + ChunkBlocks
    BY <1>1, <1>2, <1>5, <1>6
  <2> QED BY <1>2, <2>1, <2>2
<1>8. PICK r : r = [old EXCEPT !.fresh = @ \o SubSeq(c, RunThrough(old, s) + 1, last)]
  OBVIOUS
<1>9. v7' = [v7 EXCEPT ![i] = r]
  BY <1>1, <1>3, <1>4, <1>5, <1>6, <1>8 DEF Scan!FetchChunk
<1>10. r \in Scan!Run /\ RunOn(r, s, c)
  <2>1. RunOn(old, s, c) /\ old.step = "logs" /\ s.head <= Len(c)
    BY <1>1, <1>2, <1>3, <1>4
  <2> QED BY <1>7, <1>8, <2>1, ChunkRead
<1>11. r.cached = old.cached
  BY <1>8 DEF Scan!Run
<1>12. Scan!TypeOK' /\ ScanParts'
  <2>1. v4' = [v4 EXCEPT ![i] = v4[i]] /\ v4[i] \in Scan!History /\ HistorySound(v4[i], v1, v2)
    BY <1>1, SameMemory, ScanRunning
  <2>2. v3' \in Scan!History /\ v5' \in [Instances -> Scan!Position] /\ v10' \in 0..MaxFaults /\ HistorySound(v3', v1, v2)
    BY <1>1, ScanRunning
  <2>3. HistorySound(r.cached, v1, v2) /\ RunOn(r, Head(v6[i]), v1) /\ v6[i] # <<>>
    BY <1>1, <1>2, <1>3, <1>4, <1>10, <1>11, ScanRunning
  <2> QED BY <1>1, <1>9, <1>10, <2>1, <2>2, <2>3, RunGoesOn
<1> QED BY <1>1, <1>12, SameCallers

\* All the chunks are there, or one of them fails: a history worth keeping goes on to its hash.
LEMMA ToHash ==
  ASSUME Scan!ScanAssumption, Scan!TypeOK, ScanParts, NEW i \in Instances, v7[i].step = "logs",
         UNCHANGED <<v1, v2, v3, v4, v5, v6, v8, v9>>, v10' \in 0..MaxFaults,
         NEW failed \in BOOLEAN, v7' = [v7 EXCEPT ![i].step = "hash", ![i].failed = failed],
         Scan!ScanFrom(i) <= Scan!ExtendTo(i), ~failed => Scan!Through(i) = Scan!Scan(i).head
  PROVE  Scan!TypeOK' /\ ScanParts' /\ AnswersComplete
<1>1. v7[i].step # "idle"
  OBVIOUS
<1>2. PICK s \in Scan!Request : s = Scan!Scan(i) /\ s = Head(v6[i])
  BY <1>1, ScanRunning
<1>3. PICK old \in Scan!Run : old = v7[i] /\ RunOn(old, s, v1) /\ HistorySound(old.cached, v1, v2) /\ old.step = "logs"
  BY <1>1, <1>2, ScanRunning
<1>4. PICK r : r = [old EXCEPT !.step = "hash", !.failed = failed]
  OBVIOUS
<1>5. v7' = [v7 EXCEPT ![i] = r]
  BY <1>3, <1>4
<1>6. r \in Scan!Run /\ r.step = "hash" /\ r.failed = failed /\ r.cached = old.cached /\ r.fresh = old.fresh
  BY <1>4 DEF Scan!Run
<1>7. /\ RunFrom(r, s) = RunFrom(old, s) /\ RunThrough(r, s) = RunThrough(old, s) /\ RunEnd(r, s) = RunEnd(old, s)
      /\ RunFirst(r, s) = RunFirst(old, s) /\ \A x : RunLog(r, s, x) = RunLog(old, s, x)
  BY <1>6 DEF RunFrom, RunThrough, RunEnd, RunFirst, RunLog
<1>8. RunFrom(r, s) <= RunEnd(r, s) /\ (~failed => RunThrough(r, s) = s.head)
  BY <1>1, <1>2, <1>3, <1>7, ScanRunning
<1>9. RunOn(r, s, v1)
  <2>1. RunReads(old, s, v1) => RunReads(r, s, v1)
    BY <1>7 DEF RunReads
  <2> QED BY <1>3, <1>6, <1>7, <1>8, <2>1 DEF RunOn
<1>10. Scan!TypeOK' /\ ScanParts'
  <2>1. v4' = [v4 EXCEPT ![i] = v4[i]] /\ v4[i] \in Scan!History /\ HistorySound(v4[i], v1, v2)
    BY <1>1, SameMemory, ScanRunning
  <2>2. v3' \in Scan!History /\ v5' \in [Instances -> Scan!Position] /\ HistorySound(v3', v1, v2)
    BY <1>1, ScanRunning
  <2>3. HistorySound(r.cached, v1, v2) /\ RunOn(r, Head(v6[i]), v1) /\ v6[i] # <<>>
    BY <1>1, <1>2, <1>3, <1>6, <1>9, ScanRunning
  <2> QED BY <1>5, <1>6, <2>1, <2>2, <2>3, RunGoesOn
<1> QED BY <1>10, SameCallers

LEMMA FetchedKeeps ==
  ASSUME Scan!ScanAssumption, Scan!TypeOK, ScanParts, NEW i \in Instances, Scan!Fetched(i)
  PROVE  Scan!TypeOK' /\ ScanParts' /\ AnswersComplete
<1>1. /\ v7[i].step = "logs" /\ Scan!Through(i) = Scan!Scan(i).head /\ v7[i].step # "idle"
      /\ UNCHANGED <<v1, v2, v3, v4, v5, v10>>
  BY DEF Scan!Fetched, Scan!world
<1>2. v3' \in Scan!History /\ v5' \in [Instances -> Scan!Position] /\ v10' \in 0..MaxFaults /\ HistorySound(v3', v1, v2)
  BY <1>1, ScanRunning
<1>3. CASE Scan!SafeEnd(i) >= Scan!ScanFrom(i)
  <2>1. v7' = [v7 EXCEPT ![i].step = "hash"] /\ UNCHANGED <<v6, v8, v9>>
    BY <1>3 DEF Scan!Fetched, Scan!Goto, Scan!callers
  <2>2. v7[i].failed = FALSE
    <3>1. ~v7[i].failed /\ v7[i] \in Scan!Run
      BY <1>1, ScanRunning DEF RunOn
    <3>2. v7[i].failed \in BOOLEAN
      BY <3>1 DEF Scan!Run
    <3> QED BY <3>1, <3>2
  <2>3. v7' = [v7 EXCEPT ![i].step = "hash", ![i].failed = FALSE]
    <3>1. PICK old \in Scan!Run : old = v7[i] /\ old.failed = FALSE
      BY <1>1, <2>2, ScanRunning
    <3>2. [old EXCEPT !.step = "hash"] = [old EXCEPT !.step = "hash", !.failed = FALSE]
      BY <3>1 DEF Scan!Run
    <3> QED BY <2>1, <3>1, <3>2
  <2>4. Scan!ScanFrom(i) <= Scan!ExtendTo(i)
    <3>1. Scan!SafeEnd(i) \in Int /\ Scan!Scan(i).head \in Int /\ Scan!SafeEnd(i) <= Scan!Scan(i).head
      <4>1. Confirmations \in Nat /\ Scan!Scan(i).head \in Int
        BY <1>1, ScanRunning, ScanTyped
      <4> QED BY <4>1 DEF Scan!SafeEnd
    <3>2. Scan!ExtendTo(i) = Scan!SafeEnd(i)
      BY <1>1, <3>1 DEF Scan!ExtendTo
    <3>3. Scan!ScanFrom(i) \in Int
      <4>1. Scan!Scan(i).from \in Int /\ Scan!Cached(i).end \in Int
        <5>1. Scan!Scan(i) \in Scan!Request /\ v7[i].cached \in Scan!History /\ MaxHead \in Nat
          BY <1>1, ScanRunning, ScanTyped
        <5> QED BY <5>1 DEF Scan!Request, Scan!History, Scan!Blocks, Scan!Cached
      <4> QED BY <4>1 DEF Scan!ScanFrom
    <3> QED BY <1>3, <3>1, <3>2, <3>3
  <2> QED BY <1>1, <1>2, <2>1, <2>3, <2>4, ToHash
<1>4. CASE ~(Scan!SafeEnd(i) >= Scan!ScanFrom(i))
  <2>1. Scan!Resolve(i) /\ Scan!PastChecks(i)
    BY <1>1, <1>4 DEF Scan!Fetched, Scan!PastChecks
  <2> QED BY <1>1, <1>2, <2>1, ScanResolves
<1> QED BY <1>3, <1>4

LEMMA ChunkFailsKeeps ==
  ASSUME Scan!ScanAssumption, Scan!TypeOK, ScanParts, NEW i \in Instances, Scan!ChunkFails(i)
  PROVE  Scan!TypeOK' /\ ScanParts' /\ AnswersComplete
<1>1. /\ v7[i].step = "logs" /\ Scan!Through(i) < Scan!Scan(i).head /\ v7[i].step # "idle"
      /\ UNCHANGED <<v1, v2, v3, v4, v5>> /\ v10 < MaxFaults /\ v10' = v10 + 1
  BY DEF Scan!ChunkFails, Scan!Fault, Scan!world
<1>2. v3' \in Scan!History /\ v5' \in [Instances -> Scan!Position] /\ HistorySound(v3', v1, v2) /\ v6[i] # <<>>
  BY <1>1, ScanRunning
<1>3. v10' \in 0..MaxFaults
  BY <1>1, ScanRunning
<1>4. CASE v7[i].fresh # <<>> /\ Scan!ExtendTo(i) >= Scan!ScanFrom(i)
  <2>1. v7' = [v7 EXCEPT ![i].step = "hash", ![i].failed = TRUE] /\ UNCHANGED <<v6, v8, v9>>
    BY <1>4 DEF Scan!ChunkFails, Scan!callers
  <2>2. Scan!ScanFrom(i) <= Scan!ExtendTo(i)
    BY <1>4
  <2> QED BY <1>1, <1>3, <2>1, <2>2, ToHash
<1>5. CASE ~(v7[i].fresh # <<>> /\ Scan!ExtendTo(i) >= Scan!ScanFrom(i))
  <2>1. Scan!Reject(i)
    BY <1>5 DEF Scan!ChunkFails
  <2> QED BY <1>1, <1>2, <1>3, <2>1, ScanRejects
<1> QED BY <1>4, <1>5

LEMMA HashKeeps ==
  ASSUME Scan!ScanAssumption, Scan!TypeOK, ScanParts, NEW i \in Instances, Scan!ReadEndHash(i)
  PROVE  Scan!TypeOK' /\ ScanParts' /\ AnswersComplete
<1>1. /\ v7[i].step = "hash" /\ v7[i].step # "idle"
      /\ UNCHANGED <<v1, v2, v3, v5, v6, v8, v9, v10>>
  BY DEF Scan!ReadEndHash, Scan!world, Scan!callers
<1>2. PICK s \in Scan!Request : s = Scan!Scan(i) /\ s = Head(v6[i]) /\ s.head <= Len(v1)
  BY <1>1, ScanRunning
<1>3. PICK old \in Scan!Run : old = v7[i] /\ RunOn(old, s, v1) /\ HistorySound(old.cached, v1, v2) /\ old.step = "hash"
  BY <1>1, <1>2, ScanRunning
<1>4. PICK c \in Seq(1..MaxForks), f \in 0..MaxForks : c = v1 /\ f = v2
  BY ScanTyped
<1>5. /\ Scan!ExtendTo(i) = RunEnd(old, s) /\ Scan!FirstBlock(i) = RunFirst(old, s) /\ Scan!ScanFrom(i) = RunFrom(old, s)
  BY <1>1, <1>2, <1>3, ScanRunning
<1>6. PICK h : h = RunExtension(old, s, c[RunEnd(old, s)])
  OBVIOUS
<1>7. Scan!Extension(i, v1[Scan!ExtendTo(i)]) = h
  <2>1. Scan!Cached(i) = old.cached /\ v7[i].fresh = old.fresh
    BY <1>3 DEF Scan!Cached
  <2>2. Scan!LogsThrough(i, Scan!ExtendTo(i)) = [x \in RunFirst(old, s)..RunEnd(old, s) |-> RunLog(old, s, x)]
    BY <1>5, <2>1 DEF Scan!LogsThrough, RunLog
  <2> QED BY <1>4, <1>5, <1>6, <2>1, <2>2 DEF Scan!Extension, RunExtension, Scan!Kept
<1>8. h \in Scan!History /\ HistorySound(h, c, f)
  <2>1. /\ Len(c) \in 0..MaxHead /\ \A b \in 1..Len(c) : c[b] <= f
        /\ s.head <= Len(c) /\ HistorySound(old.cached, c, f) /\ RunOn(old, s, c)
    BY <1>2, <1>3, <1>4, ScanTyped DEF ScanParts
  <2> QED BY <1>3, <1>6, <2>1, ExtensionSound
<1>9. PICK r : r = [old EXCEPT !.step = "save"]
  OBVIOUS
<1>10. v7' = [v7 EXCEPT ![i] = r] /\ v4' = [v4 EXCEPT ![i] = h]
  BY <1>1, <1>3, <1>7, <1>9 DEF Scan!ReadEndHash, Scan!Goto
<1>11. /\ r \in Scan!Run /\ r.step = "save" /\ r.failed = old.failed /\ r.cached = old.cached /\ r.fresh = old.fresh
  BY <1>9 DEF Scan!Run
<1>12. /\ RunFrom(r, s) = RunFrom(old, s) /\ RunThrough(r, s) = RunThrough(old, s) /\ RunEnd(r, s) = RunEnd(old, s)
       /\ RunFirst(r, s) = RunFirst(old, s) /\ \A x : RunLog(r, s, x) = RunLog(old, s, x)
  BY <1>11 DEF RunFrom, RunThrough, RunEnd, RunFirst, RunLog
<1>13. RunOn(r, s, v1)
  <2>1. RunReads(old, s, v1) => RunReads(r, s, v1)
    BY <1>12 DEF RunReads
  <2> QED BY <1>3, <1>11, <1>12, <2>1 DEF RunOn
<1>14. Scan!TypeOK' /\ ScanParts'
  <2>1. v3' \in Scan!History /\ v5' \in [Instances -> Scan!Position] /\ v10' \in 0..MaxFaults /\ HistorySound(v3', v1, v2)
    BY <1>1, ScanRunning
  <2>2. HistorySound(r.cached, v1, v2) /\ RunOn(r, Head(v6[i]), v1) /\ v6[i] # <<>>
    BY <1>1, <1>2, <1>3, <1>11, <1>13, ScanRunning
  <2>3. HistorySound(h, v1, v2)
    BY <1>4, <1>8
  <2> QED BY <1>1, <1>8, <1>10, <1>11, <2>1, <2>2, <2>3, RunGoesOn
<1> QED BY <1>1, <1>14, SameCallers

LEMMA HashFailsKeeps ==
  ASSUME Scan!ScanAssumption, Scan!TypeOK, ScanParts, NEW i \in Instances, Scan!HashFails(i)
  PROVE  Scan!TypeOK' /\ ScanParts' /\ AnswersComplete
<1>1. /\ v7[i].step # "idle" /\ Scan!Reject(i) /\ UNCHANGED <<v1, v2, v3, v4, v5>>
      /\ v10 < MaxFaults /\ v10' = v10 + 1
  BY DEF Scan!HashFails, Scan!Fault, Scan!world
<1>2. v3' \in Scan!History /\ v5' \in [Instances -> Scan!Position] /\ HistorySound(v3', v1, v2) /\ v6[i] # <<>>
  BY <1>1, ScanRunning
<1>3. v10' \in 0..MaxFaults
  BY <1>1, ScanRunning
<1> QED BY <1>1, <1>2, <1>3, ScanRejects

LEMMA PersistKeeps ==
  ASSUME Scan!ScanAssumption, Scan!TypeOK, ScanParts, NEW i \in Instances, Scan!Persist(i)
  PROVE  Scan!TypeOK' /\ ScanParts' /\ AnswersComplete
<1>1. /\ v7[i].step = "save" /\ v7[i].step # "idle" /\ UNCHANGED <<v1, v2, v4>>
  BY DEF Scan!Persist, Scan!world
<1>2. v3' \in {v3, v4[i]}
  BY DEF Scan!Persist
<1>3. v3' \in Scan!History /\ HistorySound(v3', v1, v2) /\ v6[i] # <<>>
  BY <1>1, <1>2, ScanRunning
<1>4. v5' \in [Instances -> Scan!Position] /\ v10' \in 0..MaxFaults
  <2>1. Scan!Base(v4[i]) \in Scan!Position
    <3>1. v4[i] \in Scan!History
      BY <1>1, ScanRunning
    <3> QED BY <3>1, BaseIn
  <2>2. Scan!Unknown \in Scan!Position
    BY ScanTyped DEF Scan!Unknown, Scan!Position
  <2>3. v5' \in {v5, [v5 EXCEPT ![i] = Scan!Base(v4[i])], [v5 EXCEPT ![i] = Scan!Unknown]}
    BY DEF Scan!Persist
  <2>4. v10' \in {v10} \/ (v10 < MaxFaults /\ v10' = v10 + 1)
    BY DEF Scan!Persist, Scan!Fault
  <2>5. v5 \in [Instances -> Scan!Position] /\ v10 \in 0..MaxFaults /\ MaxFaults \in Nat
    BY <1>1, ScanRunning
  <2> QED BY <2>1, <2>2, <2>3, <2>4, <2>5
<1>5. CASE v7[i].failed
  <2>1. Scan!Reject(i)
    BY <1>5 DEF Scan!Persist
  <2> QED BY <1>1, <1>3, <1>4, <2>1, ScanRejects
<1>6. CASE ~v7[i].failed
  <2>1. Scan!Resolve(i) /\ Scan!PastChecks(i)
    BY <1>1, <1>6 DEF Scan!Persist, Scan!PastChecks
  <2>2. Scan!Through(i) = Scan!Scan(i).head
    BY <1>1, <1>6, ScanRunning DEF RunOn
  <2> QED BY <1>1, <1>3, <1>4, <2>1, <2>2, ScanResolves
<1> QED BY <1>5, <1>6

\* A process dies, and with it the requests it served.
LEMMA CrashKeeps ==
  ASSUME Scan!ScanAssumption, Scan!TypeOK, ScanParts, NEW i \in Instances, Scan!Crash(i)
  PROVE  Scan!TypeOK' /\ ScanParts' /\ AnswersComplete
<1>1. /\ UNCHANGED <<v1, v2, v3, v9>> /\ v10 < MaxFaults /\ v10' = v10 + 1
      /\ v4' = [v4 EXCEPT ![i] = Scan!None] /\ v5' = [v5 EXCEPT ![i] = Scan!Unknown]
      /\ v6' = [v6 EXCEPT ![i] = <<>>] /\ v7' = [v7 EXCEPT ![i] = Scan!Idle]
      /\ v8' = [c \in Callers |-> IF v8[c].at = i THEN Scan!Asleep ELSE v8[c]]
  BY DEF Scan!Crash, Scan!Fault, Scan!world
<1>2. Scan!None \in Scan!History /\ HistorySound(Scan!None, v1, v2) /\ Scan!Asleep \in Scan!Caller /\ Scan!Asleep.step = "idle"
  BY NoneIn, AsleepIn DEF Scan!Asleep
<1>3. Scan!Idle \in Scan!Run /\ Scan!Idle.cached = Scan!None
  BY <1>2 DEF Scan!Idle, Scan!Run
<1>4. Scan!Unknown \in Scan!Position /\ MaxFaults \in Nat
  BY ScanTyped DEF Scan!Unknown, Scan!Position, Scan!ScanAssumption
<1>5. Scan!TypeOK'
  <2>1. v4' \in [Instances -> Scan!History] /\ v7' \in [Instances -> Scan!Run] /\ v5' \in [Instances -> Scan!Position]
    BY <1>1, <1>2, <1>3, <1>4, ScanTyped
  <2>2. v6' \in [Instances -> Seq(Scan!Request)]
    <3>1. <<>> \in Seq(Scan!Request)
      OBVIOUS
    <3> QED BY <1>1, <3>1, ScanTyped
  <2>3. v8' \in [Callers -> Scan!Caller]
    BY <1>1, <1>2, ScanTyped
  <2>4. v10' \in 0..MaxFaults
    BY <1>1, <1>4, ScanTyped
  <2> QED BY <1>1, <2>1, <2>2, <2>3, <2>4 DEF Scan!TypeOK, Scan!HeadBlock
<1>6. \A c \in Callers : v8'[c] = IF v8[c].at = i THEN Scan!Asleep ELSE v8[c]
  BY <1>1
<1>7. /\ v4'[i] = Scan!None /\ v7'[i] = Scan!Idle /\ v6'[i] = <<>>
      /\ \A j \in Instances : j # i => v4'[j] = v4[j] /\ v7'[j] = v7[j] /\ v6'[j] = v6[j]
  BY <1>1, ScanTyped
<1>8. RequestsOn(v6', v8', Len(v1))
  <2>1. \A c \in Callers : v8'[c].step \in {"waiting", "behind"} => AskWithin(v8'[c], Len(v1))
    BY <1>2, <1>6 DEF ScanParts, RequestsOn
  <2>2. ASSUME NEW j \in Instances, j # i PROVE QueueOn(j, v6[j], v8', Len(v1))
    <3>1. v6[j] \in Seq(Scan!Request) /\ QueueOn(j, v6[j], v8, Len(v1))
      BY ScanTyped DEF ScanParts, RequestsOn
    <3>2. \A k \in DOMAIN v6[j] : v6[j][k] \in Scan!Request
      BY <3>1
    <3>3. \A k \in DOMAIN v6[j] : \A c \in v6[j][k].callers : c \in Callers /\ v8[c].at = j
      BY <3>1, <3>2 DEF QueueOn, Scan!Request
    <3>4. \A k \in DOMAIN v6[j] : \A c \in v6[j][k].callers : v8'[c] = v8[c]
      BY <1>6, <2>2, <3>3
    <3> QED BY <3>1, <3>4, QueueUntouched
  <2>3. QueueOn(i, <<>>, v8', Len(v1))
    BY DEF QueueOn
  <2>4. \A j \in Instances : QueueOn(j, v6'[j], v8', Len(v1))
    BY <1>7, <2>2, <2>3
  <2> QED BY <2>1, <2>4 DEF RequestsOn
<1>9. ASSUME NEW j \in Instances
      PROVE  RunOn(v7'[j], Head(v6'[j]), v1) /\ (v7'[j].step # "idle" => v6'[j] # <<>>)
  <2>1. CASE j # i
    BY <1>7, <2>1 DEF ScanParts
  <2>2. CASE j = i
    BY <1>7, <2>2 DEF RunOn, Scan!Idle
  <2> QED BY <2>1, <2>2
<1>10. \A j \in Instances : HistorySound(v4'[j], v1, v2) /\ HistorySound(v7'[j].cached, v1, v2)
  BY <1>2, <1>3, <1>7 DEF ScanParts
<1>11. ScanParts'
  BY <1>1, <1>8, <1>9, <1>10 DEF ScanParts
<1>12. AnswersComplete
  BY <1>2, <1>6 DEF AnswersComplete, Scan!Answers
<1> QED BY <1>5, <1>11, <1>12
-----------------------------------------------------------------------------
LEMMA ScanStarts == Scan!ScanAssumption /\ Scan!Init => Scan!IInv
<1> SUFFICES ASSUME Scan!ScanAssumption, Scan!Init PROVE Scan!IInv
  OBVIOUS
<1>1. /\ MaxHead \in Nat /\ MaxForks \in Nat \ {0} /\ FirstHead \in 1..MaxHead
      /\ MaxAsks \in Nat /\ MaxFaults \in Nat /\ Confirmations \in Nat
  BY DEF Scan!ScanAssumption
<1>2. <<>> \in Scan!Logs
  <2>1. {} \in SUBSET Scan!Blocks /\ <<>> \in [{} -> 1..MaxForks]
    OBVIOUS
  <2> QED BY <2>1, LogsIn
<1>3. 1 \in Scan!Blocks /\ 0 \in 0..MaxHead /\ 0 \in 0..MaxForks
  BY <1>1 DEF Scan!Blocks
<1>4. Scan!None \in Scan!History /\ Scan!None.end = 0
  BY <1>2, <1>3 DEF Scan!None, Scan!History
<1>5. Scan!Idle \in Scan!Run /\ Scan!Idle.cached = Scan!None /\ Scan!Idle.step = "idle"
  BY <1>4 DEF Scan!Idle, Scan!Run
<1>6. Scan!Asleep \in Scan!Caller /\ Scan!Asleep.step = "idle"
  BY <1>2, <1>3 DEF Scan!Asleep, Scan!Caller
<1>7. Scan!Unknown \in Scan!Position
  BY <1>1 DEF Scan!Unknown, Scan!Position
<1>8. /\ v1 = [b \in 1..FirstHead |-> 1] /\ v2 = 1 /\ v3 = Scan!None
      /\ v4 = [i \in Instances |-> Scan!None] /\ v5 = [i \in Instances |-> Scan!Unknown]
      /\ v6 = [i \in Instances |-> <<>>] /\ v7 = [i \in Instances |-> Scan!Idle]
      /\ v8 = [c \in Callers |-> Scan!Asleep] /\ v9 = 0 /\ v10 = 0
  BY DEF Scan!Init
<1>9. v1 \in Seq(1..MaxForks) /\ Len(v1) = FirstHead /\ \A b \in 1..Len(v1) : v1[b] = 1
  <2>1. FirstHead \in Nat /\ 1 \in 1..MaxForks
    BY <1>1
  <2>2. [b \in 1..FirstHead |-> 1] \in Seq(1..MaxForks)
    BY <2>1
  <2>3. DOMAIN v1 = 1..FirstHead
    BY <1>8
  <2>4. Len(v1) = FirstHead
    BY <1>8, <2>1, <2>2, <2>3, LenProperties
  <2> QED BY <1>8, <2>2, <2>4
<1>10. Scan!TypeOK
  <2>1. v6 \in [Instances -> Seq(Scan!Request)]
    BY <1>8
  <2>2. Len(v1) \in FirstHead..MaxHead /\ v2 \in 1..MaxForks /\ v9 \in 0..MaxAsks /\ v10 \in 0..MaxFaults
    BY <1>1, <1>8, <1>9
  <2> QED BY <1>4, <1>5, <1>6, <1>7, <1>8, <1>9, <2>1, <2>2 DEF Scan!TypeOK, Scan!HeadBlock
<1>11. ScanParts
  <2>1. HistorySound(Scan!None, v1, v2)
    BY <1>4 DEF HistorySound
  <2>2. RequestsOn(v6, v8, Len(v1))
    BY <1>6, <1>8 DEF RequestsOn, QueueOn
  <2>3. \A i \in Instances : RunOn(v7[i], Head(v6[i]), v1) /\ (v7[i].step # "idle" => v6[i] # <<>>)
    BY <1>5, <1>8 DEF RunOn
  <2>4. \A b \in 1..Len(v1) : v1[b] <= v2
    <3>1. v2 = 1
      BY <1>8
    <3> QED BY ONLY <1>9, <3>1
  <2> QED BY <1>5, <1>8, <2>1, <2>2, <2>3, <2>4 DEF ScanParts
<1> QED BY <1>10, <1>11, ScanInParts

LEMMA ScanKept ==
  ASSUME Scan!ScanAssumption, Scan!IInv, [Scan!Next]_(Scan!vars)
  PROVE  Scan!IInv' /\ AnswersComplete
<1>1. Scan!TypeOK /\ ScanParts
  BY ScanInParts
<1>2. Scan!TypeOK' /\ ScanParts' /\ AnswersComplete
  <2>1. CASE \/ \E c \in Callers, i \in Instances : \E from, latest \in Issuances, head \in Scan!Blocks : Scan!Ask(c, i, from, latest, head)
             \/ \E c \in Callers : Scan!AskAgain(c)
    <3>1. Scan!TypeOK' /\ ScanParts' /\ \A c \in Callers : v8'[c].step = "answered" => v8'[c] = v8[c]
      BY <1>1, <2>1, RequestsKeep
    <3> QED BY <3>1 DEF AnswersComplete, Scan!Answers
  <2>2. CASE Scan!Extend \/ \E depth \in Scan!Blocks : Scan!Reorg(depth)
    BY <1>1, <2>2, WorldKeeps, SameCallers
  <2>3. ASSUME NEW i \in Instances, Scan!ScanStep(i) PROVE Scan!TypeOK' /\ ScanParts' /\ AnswersComplete
    <3>1. CASE Scan!Sync(i) BY <1>1, <3>1, SyncKeeps
    <3>2. CASE Scan!Check(i) BY <1>1, <3>2, CheckKeeps
    <3>3. CASE Scan!Rewind(i) BY <1>1, <3>3, RewindKeeps
    <3>4. CASE Scan!FetchChunk(i) BY <1>1, <3>4, ChunkKeeps
    <3>5. CASE Scan!Fetched(i) BY <1>1, <3>5, FetchedKeeps
    <3>6. CASE Scan!ChunkFails(i) BY <1>1, <3>6, ChunkFailsKeeps
    <3>7. CASE Scan!ReadEndHash(i) BY <1>1, <3>7, HashKeeps
    <3>8. CASE Scan!HashFails(i) BY <1>1, <3>8, HashFailsKeeps
    <3>9. CASE Scan!Persist(i) BY <1>1, <3>9, PersistKeeps
    <3> QED BY <2>3, <3>1, <3>2, <3>3, <3>4, <3>5, <3>6, <3>7, <3>8, <3>9 DEF Scan!ScanStep
  <2>4. CASE \E i \in Instances : Scan!Crash(i)
    BY <1>1, <2>4, CrashKeeps
  <2>5. CASE UNCHANGED Scan!vars
    <3>1. Scan!TypeOK'
      BY <1>1, <2>5 DEF Scan!vars, Scan!TypeOK, Scan!HeadBlock
    <3>2. ScanParts'
      BY <1>1, <2>5 DEF Scan!vars, ScanParts
    <3>3. v8' = v8
      BY <2>5 DEF Scan!vars
    <3> QED BY <3>1, <3>2, <3>3, SameCallers
  <2> QED BY <2>1, <2>2, <2>3, <2>4, <2>5 DEF Scan!Next
<1>3. (Scan!IInv <=> Scan!TypeOK /\ ScanParts)'
  BY ScanInParts, PTL
<1> QED BY <1>2, <1>3

LEMMA CheckpointTrusted ==
  ASSUME Scan!IInv, ~DeepMidScan
  PROVE  Scan!CheckpointTrustworthy
<1>1. \A h : Scan!Sound(h) => Scan!Trustworthy(h)
  BY DEF Scan!Sound, Scan!Trustworthy
<1> QED BY <1>1 DEF Scan!IInv, Scan!HistoriesSound, Scan!CheckpointTrustworthy

LEMMA AnswersAreComplete ==
  ASSUME AnswersComplete, ~DeepMidScan
  PROVE  Scan!CompleteAnswers
BY DEF AnswersComplete, Scan!CompleteAnswers, CompleteAnswer

LEMMA ScanStep ==
  part = "scan" /\ [NextOne]_allVars => part' = "scan" /\ [Scan!Next]_(Scan!vars)
BY DEF NextOne, Steps, allVars, vVars, Scan!vars

\* The invariant of the scan holds in every behaviour, deep reorgs at any moment included.
LEMMA ScanInvariant == SpecOne => [](part = "scan" => Scan!IInv)
<1> DEFINE Inv == part = "scan" => Scan!IInv
<1>1. InitOne => Inv
  BY Parameters, ScanStarts DEF InitOne, Starts
<1>2. Inv /\ [NextOne]_allVars => Inv'
  <2> SUFFICES ASSUME Inv, [NextOne]_allVars, part' = "scan" PROVE Scan!IInv'
    OBVIOUS
  <2>1. part = "scan"
    BY DEF NextOne, Steps, allVars
  <2> QED BY <2>1, Parameters, ScanStep, ScanKept
<1> QED BY <1>1, <1>2, PTL DEF SpecOne

\* The checkpoint can be trusted in the row, in every process and in every scan under way, and every
\* request is answered with complete, canonical history (server/genesis-claim.js and
\* server/genesis-scan-checkpoint-store.js), unless a deep reorg hits a scan that is past its checks.
THEOREM ScanAlwaysSound == ~DeepMidScan => (SpecOne => ScanSound)
<1> SUFFICES ASSUME ~DeepMidScan PROVE SpecOne => ScanSound
  OBVIOUS
<1> DEFINE Inv == part = "scan" => Scan!IInv
<1>1. Inv /\ [NextOne]_allVars => [part = "scan" => Scan!CheckpointTrustworthy' /\ Scan!CompleteAnswers]_allVars
  <2> SUFFICES ASSUME Inv, [NextOne]_allVars, part = "scan"
               PROVE  Scan!CheckpointTrustworthy' /\ Scan!CompleteAnswers
    OBVIOUS
  <2>1. Scan!IInv' /\ AnswersComplete
    BY Parameters, ScanStep, ScanKept
  <2>2. Scan!CheckpointTrustworthy'
    BY <2>1, CheckpointTrusted, PTL
  <2>3. Scan!CompleteAnswers
    BY <2>1, AnswersAreComplete
  <2> QED BY <2>2, <2>3
<1>2. SpecOne => []Inv
  BY ScanInvariant
<1> QED BY <1>1, <1>2, PTL DEF SpecOne, ScanSound
=============================================================================
