------------------------------ MODULE GenesisScan ------------------------------
(***************************************************************************)
(* The Genesis transfer scan of server/genesis-claim.js with the shared    *)
(* checkpoint of server/genesis-scan-checkpoint-store.js: API instances    *)
(* read the transfers of a chain that may reorganise, keep what lies at    *)
(* least `Confirmations` below the head they read, and share it through    *)
(* one row written by compare-and-set.                                     *)
(*                                                                         *)
(* A block is named by its number and the fork that mined it; a block of a *)
(* fork has one line of ancestors, so its hash is the fork's number and    *)
(* the logs read for block b are the fork b was read on.  Every RPC call   *)
(* and every statement is a step, and any of them may fail; retries,       *)
(* pacing and the choice of endpoint are inside the call.                  *)
(*                                                                         *)
(* A reorg replaces at most Confirmations blocks at any moment; a deeper   *)
(* one happens while no scan is past its checks unless DeepMidScan.        *)
(*                                                                         *)
(* Left out: corrupt rows (digest and shape are checked when loaded) and   *)
(* the injected log reader of the tests.                                   *)
(***************************************************************************)
EXTENDS Integers, SequencesExt

CONSTANTS
  Instances,      \* API processes
  NoInstance,
  Callers,        \* requests that need the history
  Confirmations,  \* scan.confirmations
  MaxAnchors,     \* MAX_ANCHORS
  ChunkBlocks,    \* scan.chunkBlocks
  HeadLag,        \* how far behind the chain a head read may be
  DeepMidScan,    \* may a deep reorg hit a scan past its checks?
  FirstHead,      \* the chain's length at the start
  MaxHead,        \* bound: length of the chain
  MaxForks,       \* bound: forks, the first included
  Issuances,      \* bound: blocks the reservations a request knows were issued at
  MaxAsks,        \* bound: requests
  MaxFaults       \* bound: failed calls and crashes

\* What the constants may be; a run that instantiates the module assumes it.
ScanAssumption ==
  /\ NoInstance \notin Instances
  /\ {Confirmations, MaxAnchors, HeadLag, MaxAsks, MaxFaults} \subseteq Nat
  /\ ChunkBlocks \in Nat \ {0} /\ MaxForks \in Nat \ {0}
  /\ FirstHead \in Nat \ {0} /\ MaxHead \in Nat /\ FirstHead <= MaxHead
  /\ Issuances \subseteq Nat \ {0} /\ DeepMidScan \in BOOLEAN

VARIABLES
  chain,   \* chain[b]: the fork of canonical block b
  forks,   \* forks so far
  store,   \* the row of genesis_scan_checkpoints, or None
  mem,     \* mem[i]: verifiedHistory of instance i
  base,    \* base[i]: persistedBase, what i believes the row to be
  queue,   \* queue[i]: scans in flight; the first runs, the last can be joined
  run,     \* run[i]: local variables of the running scan
  caller,  \* caller[c]: what request c asked for and got
  asks,
  faults

vars == <<chain, forks, store, mem, base, queue, run, caller, asks, faults>>
callers == <<caller, asks>>
world == <<chain, forks>>

-----------------------------------------------------------------------------
Blocks == 1..MaxHead
HeadBlock == Len(chain)

\* A scanned history: logs[b] is the fork that block b's logs were read on.
None == [from |-> 1, end |-> 0, hash |-> 0, anchors |-> <<>>, logs |-> <<>>]
Kept(h) == h.end > 0

\* persistedBase is null when the table holds no row and undefined when the row is unknown.
Base(h) == [end |-> h.end, hash |-> h.hash]
Unknown == [end |-> -1, hash |-> 0]

Idle == [step |-> "idle", cached |-> None, regress |-> FALSE, index |-> 0,
         fresh |-> <<>>, failed |-> FALSE]
Asleep == [step |-> "idle", at |-> NoInstance, from |-> 1, latest |-> 0, head |-> 0,
           retried |-> FALSE, through |-> 0, logs |-> <<>>]

Init ==
  /\ chain = [b \in 1..FirstHead |-> 1]
  /\ forks = 1
  /\ store = None
  /\ mem = [i \in Instances |-> None]
  /\ base = [i \in Instances |-> Unknown]
  /\ queue = [i \in Instances |-> <<>>]
  /\ run = [i \in Instances |-> Idle]
  /\ caller = [c \in Callers |-> Asleep]
  /\ asks = 0
  /\ faults = 0

-----------------------------------------------------------------------------
\* The scan instance i is running: its range, and what it has so far.

Scan(i) == Head(queue[i])
Cached(i) == run[i].cached
ScanFrom(i) == IF Kept(Cached(i)) THEN Cached(i).end + 1 ELSE Scan(i).from
Through(i) == ScanFrom(i) + Len(run[i].fresh) - 1

\* Mutant: the history is kept up to the head.
SafeEndAtHead(i) == Scan(i).head

SafeEnd(i) == Scan(i).head - Confirmations
FirstBlock(i) == IF Kept(Cached(i)) THEN Cached(i).from ELSE Scan(i).from

\* The cached logs and the fresh ones, as one history up to block b.
LogsThrough(i, b) ==
  [x \in FirstBlock(i)..b |-> IF x < ScanFrom(i) THEN Cached(i).logs[x]
                              ELSE run[i].fresh[x - ScanFrom(i) + 1]]

\* Where an extension may end: below the confirmation depth, in complete chunks.
ExtendTo(i) == IF Through(i) < SafeEnd(i) THEN Through(i) ELSE SafeEnd(i)

Newest(anchors) == SubSeq(anchors, Len(anchors) - MaxAnchors + 1, Len(anchors))

\* The history cut back to its k-th anchor.
Rewound(h, k) ==
  [from |-> h.from, end |-> h.anchors[k].end, hash |-> h.anchors[k].hash,
   anchors |-> SubSeq(h.anchors, 1, k - 1),
   logs |-> [x \in h.from..h.anchors[k].end |-> h.logs[x]]]

Extension(i, hash) ==
  LET anchors == IF Kept(Cached(i)) THEN Append(Cached(i).anchors, Base(Cached(i))) ELSE <<>>
  IN [from |-> FirstBlock(i), end |-> ExtendTo(i), hash |-> hash,
      anchors |-> IF Len(anchors) > MaxAnchors THEN Newest(anchors) ELSE anchors,
      logs |-> LogsThrough(i, ExtendTo(i))]

(***************************************************************************)
(* sharedScan: a request joins the newest scan in flight when that scan    *)
(* starts low enough, and otherwise queues one of its own behind it.       *)
(***************************************************************************)
Joins(q, from) == q # <<>> /\ Last(q).from <= from

Shared(q, c, from, head) ==
  IF Joins(q, from) THEN [q EXCEPT ![Len(q)].callers = @ \cup {c}]
  ELSE Append(q, [from |-> from, head |-> head, callers |-> {c}])

\* ledgerPosition reads the head and asks for the blocks after its oldest issuance.
Ask(c, i, from, latest, head) ==
  /\ caller[c].step \in {"idle", "answered"} /\ asks < MaxAsks
  /\ head \in (HeadBlock - HeadLag)..HeadBlock
  /\ from <= latest /\ latest <= head
  /\ caller' = [caller EXCEPT ![c] = [Asleep EXCEPT !.step = "waiting", !.at = i, !.from = from,
                                                    !.latest = latest, !.head = head]]
  /\ queue' = [queue EXCEPT ![i] = Shared(@, c, from, head)]
  /\ asks' = asks + 1
  /\ UNCHANGED <<world, store, mem, base, run, faults>>

\* A scan that was joined ended before the newest issuance: ask once more.
AskAgain(c) ==
  /\ caller[c].step = "behind"
  /\ caller' = [caller EXCEPT ![c].step = "waiting", ![c].retried = TRUE]
  /\ queue' = [queue EXCEPT ![caller[c].at] = Shared(@, c, caller[c].from, caller[c].head)]
  /\ UNCHANGED <<world, store, mem, base, run, asks, faults>>

-----------------------------------------------------------------------------
Suffices(c, through) == through >= caller[c].latest

\* The logs of a history from block b on.
Onwards(logs, b) == [x \in {y \in DOMAIN logs : y >= b} |-> logs[x]]

\* What the scan that ends tells the request that joined it.
Told(i, c) ==
  LET through == Scan(i).head
  IN CASE Suffices(c, through) ->
            [Asleep EXCEPT !.step = "answered", !.from = caller[c].from, !.latest = caller[c].latest,
               !.through = through, !.logs = Onwards(LogsThrough(i, through), caller[c].from)]
       [] ~Suffices(c, through) /\ ~caller[c].retried -> [caller[c] EXCEPT !.step = "behind"]
       [] OTHER -> Asleep

\* The running scan of i settles and the next one of its queue, if any, begins.
Settle(i, answer) ==
  /\ caller' = [c \in Callers |-> IF c \in Scan(i).callers THEN answer[c] ELSE caller[c]]
  /\ queue' = [queue EXCEPT ![i] = Tail(@)]
  /\ run' = [run EXCEPT ![i] = Idle]
  /\ UNCHANGED asks

Resolve(i) == Settle(i, [c \in Callers |-> Told(i, c)])
Reject(i) == Settle(i, [c \in Callers |-> Asleep])

Fault == faults < MaxFaults /\ faults' = faults + 1

Goto(i, step) == run' = [run EXCEPT ![i].step = step]

\* The scan goes on with cached history h after its checks.
Fetch(i, h) == run' = [run EXCEPT ![i].step = "logs", ![i].cached = h]

\* The cached history lies within the range of this scan.
Usable(i, h) == Kept(h) /\ h.from <= Scan(i).from /\ h.end <= Scan(i).head

\* A scan begins with the history in memory, dropped when out of its range.
Started(i, h) ==
  run' = [run EXCEPT ![i].step = IF Usable(i, h) THEN "check" ELSE "logs",
                     ![i].cached = IF Usable(i, h) THEN h ELSE None,
                     ![i].regress = Kept(h) /\ ~Usable(i, h)]

(***************************************************************************)
(* syncPersisted and the start of scanTransfers.  The row is only loaded   *)
(* when this process does not know it; a newer history is adopted.         *)
(***************************************************************************)
Sync(i) ==
  /\ run[i].step = "idle" /\ queue[i] # <<>>
  /\ \/ /\ base[i] # Unknown
        /\ Started(i, mem[i])
        /\ UNCHANGED <<mem, base, faults>>
     \/ /\ base[i] = Unknown
        /\ base' = [base EXCEPT ![i] = Base(store)]
        /\ mem' = [mem EXCEPT ![i] = IF store.end > @.end THEN store ELSE @]
        /\ Started(i, mem'[i])
        /\ UNCHANGED faults
     \/ /\ base[i] = Unknown /\ Fault        \* load_failed: scan without the row
        /\ Started(i, mem[i])
        /\ UNCHANGED <<mem, base>>
  /\ UNCHANGED <<world, store, queue, callers>>

\* The end block of the cached history is still the one it was scanned on, or it must be rewound.
Check(i) ==
  /\ run[i].step = "check"
  /\ IF chain[Cached(i).end] = Cached(i).hash
     THEN Goto(i, "logs")
     ELSE run' = [run EXCEPT ![i].step = "rewind", ![i].regress = TRUE,
                             ![i].index = Len(Cached(i).anchors)]
  /\ UNCHANGED <<world, store, mem, base, queue, callers, faults>>

\* The newest anchor not yet tried: cut back to it if it is canonical, or start over after the last.
Rewind(i) ==
  /\ run[i].step = "rewind"
  /\ LET k == run[i].index IN
     IF k > 0 /\ chain[Cached(i).anchors[k].end] # Cached(i).anchors[k].hash
     THEN run' = [run EXCEPT ![i].index = k - 1] /\ UNCHANGED mem
     ELSE LET h == IF k = 0 THEN None ELSE Rewound(Cached(i), k)
          IN mem' = [mem EXCEPT ![i] = h] /\ Fetch(i, h)
  /\ UNCHANGED <<world, store, base, queue, callers, faults>>

\* fetchLogs: the next chunk, complete and validated, as the chain is at this moment.
FetchChunk(i) ==
  /\ run[i].step = "logs" /\ Through(i) < Scan(i).head
  /\ LET last == IF Through(i) + ChunkBlocks > Scan(i).head THEN Scan(i).head ELSE Through(i) + ChunkBlocks
     IN run' = [run EXCEPT ![i].fresh = @ \o SubSeq(chain, Through(i) + 1, last)]
  /\ UNCHANGED <<world, store, mem, base, queue, callers, faults>>

\* All chunks are there; a history worth keeping ends below the confirmation depth.
Fetched(i) ==
  /\ run[i].step = "logs" /\ Through(i) = Scan(i).head
  /\ IF SafeEnd(i) >= ScanFrom(i) THEN Goto(i, "hash") /\ UNCHANGED <<queue, callers>> ELSE Resolve(i)
  /\ UNCHANGED <<world, store, mem, base, faults>>

\* A chunk fails for good: the complete ones below the confirmation depth are kept, the request fails.
ChunkFails(i) ==
  /\ run[i].step = "logs" /\ Through(i) < Scan(i).head /\ Fault
  /\ IF run[i].fresh # <<>> /\ ExtendTo(i) >= ScanFrom(i)
     THEN run' = [run EXCEPT ![i].step = "hash", ![i].failed = TRUE] /\ UNCHANGED <<queue, callers>>
     ELSE Reject(i)
  /\ UNCHANGED <<world, store, mem, base>>

\* extend: the hash of the last block kept is read after its logs.
ReadEndHash(i) ==
  /\ run[i].step = "hash"
  /\ mem' = [mem EXCEPT ![i] = Extension(i, chain[ExtendTo(i)])]
  /\ Goto(i, "save")
  /\ UNCHANGED <<world, store, base, queue, callers, faults>>

\* A hash that cannot be read ends the scan without an extension.
HashFails(i) ==
  /\ run[i].step \in {"check", "rewind", "hash"} /\ Fault
  /\ Reject(i)
  /\ UNCHANGED <<world, store, mem, base>>

\* save: the row still holds what this process believes.
Matches(i) == Base(store) = base[i]

(***************************************************************************)
(* persist: nothing is written when the row is unknown or reaches as far   *)
(* already; otherwise compare-and-set.  A conflict forgets the row, a      *)
(* failed statement leaves both as they were; neither changes the answer.  *)
(***************************************************************************)
Persist(i) ==
  /\ run[i].step = "save"
  /\ LET skip == base[i] = Unknown \/ (~run[i].regress /\ mem[i].end <= base[i].end)
     IN \/ skip /\ UNCHANGED <<store, base, faults>>
        \/ /\ ~skip /\ Matches(i)
           /\ store' = mem[i]
           /\ base' = [base EXCEPT ![i] = Base(mem[i])]
           /\ UNCHANGED faults
        \/ /\ ~skip /\ ~Matches(i)
           /\ base' = [base EXCEPT ![i] = Unknown]
           /\ UNCHANGED <<store, faults>>
        \/ ~skip /\ Fault /\ UNCHANGED <<store, base>>
  /\ IF run[i].failed THEN Reject(i) ELSE Resolve(i)
  /\ UNCHANGED <<world, mem>>

-----------------------------------------------------------------------------
\* The world: blocks, reorgs, and processes that die.

Extend ==
  /\ HeadBlock < MaxHead
  /\ chain' = Append(chain, forks)
  /\ UNCHANGED <<forks, store, mem, base, queue, run, callers, faults>>

PastChecks(i) == run[i].step \in {"logs", "hash", "save"}

Reorg(depth) ==
  /\ forks < MaxForks /\ depth <= HeadBlock
  /\ depth <= Confirmations \/ DeepMidScan \/ \A i \in Instances : ~PastChecks(i)
  /\ forks' = forks + 1
  /\ chain' = [b \in 1..HeadBlock |-> IF b > HeadBlock - depth THEN forks + 1 ELSE chain[b]]
  /\ UNCHANGED <<store, mem, base, queue, run, callers, faults>>

Crash(i) ==
  /\ Fault
  /\ mem' = [mem EXCEPT ![i] = None]
  /\ base' = [base EXCEPT ![i] = Unknown]
  /\ queue' = [queue EXCEPT ![i] = <<>>]
  /\ run' = [run EXCEPT ![i] = Idle]
  /\ caller' = [c \in Callers |-> IF caller[c].at = i THEN Asleep ELSE caller[c]]
  /\ UNCHANGED <<world, store, asks>>

ScanStep(i) ==
  \/ Sync(i) \/ Check(i) \/ Rewind(i) \/ FetchChunk(i) \/ Fetched(i) \/ ChunkFails(i)
  \/ ReadEndHash(i) \/ HashFails(i) \/ Persist(i)

Next ==
  \/ \E c \in Callers, i \in Instances : \E from, latest \in Issuances, head \in Blocks : Ask(c, i, from, latest, head)
  \/ \E c \in Callers : AskAgain(c)
  \/ \E i \in Instances : ScanStep(i) \/ Crash(i)
  \/ Extend
  \/ \E depth \in Blocks : Reorg(depth)

Spec == Init /\ [][Next]_vars

-----------------------------------------------------------------------------
Position == [end : -1..MaxHead, hash : 0..MaxForks]
Logs == UNION {[blocks -> 1..MaxForks] : blocks \in SUBSET Blocks}
History == [from : Blocks, end : 0..MaxHead, hash : 0..MaxForks, anchors : Seq(Position), logs : Logs]
Request == [from : Blocks, head : Blocks, callers : SUBSET Callers]
Run == [step : {"idle", "check", "rewind", "logs", "hash", "save"}, cached : History,
        regress : BOOLEAN, index : Nat, fresh : Seq(1..MaxForks), failed : BOOLEAN]
Caller == [step : {"idle", "waiting", "behind", "answered"}, at : Instances \cup {NoInstance},
           from : Blocks, latest : 0..MaxHead, head : 0..MaxHead, retried : BOOLEAN,
           through : 0..MaxHead, logs : Logs]

TypeOK ==
  /\ chain \in Seq(1..MaxForks) /\ HeadBlock \in FirstHead..MaxHead /\ forks \in 1..MaxForks
  /\ store \in History /\ mem \in [Instances -> History] /\ base \in [Instances -> Position]
  /\ queue \in [Instances -> Seq(Request)] /\ run \in [Instances -> Run]
  /\ caller \in [Callers -> Caller]
  /\ asks \in 0..MaxAsks /\ faults \in 0..MaxFaults

\* A history may be trusted for block b if its logs up to b are those of the canonical chain.
TrueUpTo(h, b) == \A x \in h.from..b : h.logs[x] = chain[x]

(***************************************************************************)
(* The principle the checkpoint rests on: if the block that a history, or  *)
(* one of its anchors, ends with is canonical, so is every log below it.   *)
(* It must hold of the row, of every process and of every scan under way,  *)
(* however rewinds, partial saves and conflicts of instances interleave.   *)
(***************************************************************************)
Trustworthy(h) ==
  Kept(h) => \A a \in {Base(h)} \cup ToSet(h.anchors) : chain[a.end] = a.hash => TrueUpTo(h, a.end)
CheckpointTrustworthy ==
  /\ Trustworthy(store)
  /\ \A i \in Instances : Trustworthy(mem[i]) /\ Trustworthy(Cached(i))

(***************************************************************************)
(* A request is answered with all the blocks it asked for, up to the       *)
(* newest issuance it knows or further, each one canonical down to the     *)
(* confirmation depth, although the scan may be another request's and most *)
(* of its history another process's.                                       *)
(***************************************************************************)
Answers(c) == caller'[c].step = "answered" /\ caller[c].step # "answered"
CompleteAnswers ==
  \A c \in Callers : Answers(c) =>
    LET got == caller'[c] IN
    /\ got.latest <= got.through
    /\ DOMAIN got.logs = got.from..got.through
    /\ \A b \in got.from..(got.through - Confirmations) : got.logs[b] = chain[b]
-----------------------------------------------------------------------------
(***************************************************************************)
(* The inductive invariant behind the two properties.                      *)
(***************************************************************************)
\* What is kept lies on the chain, has its logs, and its anchors rise towards the end, as load demands.
Sound(h) ==
  Kept(h) =>
    /\ h.from <= h.end /\ h.end <= HeadBlock /\ h.hash <= forks
    /\ DOMAIN h.logs = h.from..h.end
    /\ Len(h.anchors) <= MaxAnchors
    /\ \A k \in DOMAIN h.anchors :
         /\ h.from <= h.anchors[k].end /\ h.anchors[k].end < h.end /\ h.anchors[k].hash <= forks
         /\ \A j \in 1..(k - 1) : h.anchors[j].end < h.anchors[k].end
    /\ DeepMidScan \/ Trustworthy(h)

HistoriesSound == Sound(store) /\ \A i \in Instances : Sound(mem[i]) /\ Sound(Cached(i))

\* A waiting request is in one scan of its instance, which starts low enough for it.
Within(c) ==
  LET ask == caller[c]
  IN  ask.at \in Instances /\ ask.from <= ask.latest /\ ask.latest <= ask.head /\ ask.head <= HeadBlock
QueueSound(i) ==
  \A k \in DOMAIN queue[i] :
    LET s == queue[i][k]
    IN  /\ s.from <= s.head /\ s.head <= HeadBlock
        /\ \A c \in s.callers : caller[c].step = "waiting" /\ caller[c].at = i /\ s.from <= caller[c].from
        /\ \A j \in DOMAIN queue[i] : j # k => s.callers \cap queue[i][j].callers = {}
RequestsSound ==
  /\ \A c \in Callers : caller[c].step \in {"waiting", "behind"} => Within(c)
  /\ \A i \in Instances : QueueSound(i)

(***************************************************************************)
(* What a scan past its checks has read, cached or fresh, is canonical as  *)
(* far as it may be kept.                                                  *)
(***************************************************************************)
ReadTruly(i) ==
  \A x \in FirstBlock(i)..Through(i) : x <= SafeEnd(i) => LogsThrough(i, Through(i))[x] = chain[x]

RunSound(i) ==
  LET step == run[i].step
  IN  /\ step = "idle" => run[i] = Idle
      /\ step # "idle" => /\ queue[i] # <<>> /\ Through(i) <= Scan(i).head
                          /\ Kept(Cached(i)) => Usable(i, Cached(i))
      /\ step \in {"check", "rewind"} => Kept(Cached(i)) /\ run[i].fresh = <<>>
      /\ step = "rewind" => run[i].index <= Len(Cached(i).anchors)
      /\ step \in {"check", "rewind", "logs"} => ~run[i].failed
      /\ step \in {"hash", "save"} => /\ ScanFrom(i) <= ExtendTo(i)
                                      /\ ~run[i].failed => Through(i) = Scan(i).head
      /\ PastChecks(i) => DeepMidScan \/ ReadTruly(i)

IInv ==
  /\ TypeOK /\ HistoriesSound /\ RequestsSound
  /\ \A b \in 1..HeadBlock : chain[b] <= forks
  /\ \A i \in Instances : RunSound(i)
=============================================================================
