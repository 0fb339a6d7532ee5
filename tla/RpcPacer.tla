-------------------------------- MODULE RpcPacer --------------------------------
(***************************************************************************)
(* The pacer that every call of the indexer to its node goes through       *)
(* (server/indexer-rpc.js): two lanes, one gate.  A pump takes the next    *)
(* call from the lanes, waits until the gate opens and reports that it     *)
(* waits, makes the call, and sets the gate by its answer.                 *)
(*                                                                         *)
(* Instants are kept as the time left until them.  The jitter of the       *)
(* spacing after a success is at most the spacing, of which the greater of *)
(* the two is taken: it changes nothing and is left out.                   *)
(***************************************************************************)
EXTENDS Integers

CONSTANTS
  MinInterval, Cooldown, MaxDelay, Penalty,   \* safeMin, safeCooldown, safeMax, safePenalty
  FairnessWindow,                             \* priority calls in a row
  RetryAfters,                                \* what the node may ask for with a 429
  MaxQueued                                   \* bound: calls waiting in a lane

PacerAssumption ==
  /\ {MinInterval, Cooldown, MaxDelay, Penalty, MaxQueued} \subseteq Nat
  /\ RetryAfters \subseteq Nat /\ FairnessWindow \in Nat \ {0}
  /\ Cooldown <= MaxDelay /\ MinInterval <= Penalty

VARIABLES
  queues,      \* calls waiting in each lane
  pump,        \* the call that was taken, and how far it is
  streak,      \* consecutivePriority
  gate,        \* time until nextAllowedAt
  elevated,    \* time until elevatedUntil
  answered,    \* history: time since the last success and the last 429, Long when there was none lately
  overtaken    \* history: priority calls taken while the same normal call waited

vars == <<queues, pump, streak, gate, elevated, answered, overtaken>>

-----------------------------------------------------------------------------
Lanes == {"priority", "normal"}
Greater(a, b) == IF a > b THEN a ELSE b
Lesser(a, b) == IF a < b THEN a ELSE b
Elapsed(t) == Greater(0, t - 1)
Long == MaxDelay + Penalty
Idle == [step |-> "idle", lane |-> "none", left |-> 0]

Init ==
  /\ queues = [l \in Lanes |-> 0] /\ pump = Idle /\ streak = 0
  /\ gate = 0 /\ elevated = 0
  /\ answered = [success |-> Long, limited |-> Long] /\ overtaken = 0

\* dequeue: priority first, unless the fairness window is spent and a normal call is waiting.
PriorityNext(waiting, inRow) == waiting["priority"] > 0 /\ (waiting["normal"] = 0 \/ inRow < FairnessWindow)

\* The pump takes the next call when it has none; with the gate open the call is made at once.
Dequeued(waiting, opens) ==
  IF \A l \in Lanes : waiting[l] = 0
  THEN queues' = waiting /\ pump' = Idle /\ streak' = 0 /\ overtaken' = 0
  ELSE LET lane == IF PriorityNext(waiting, streak) THEN "priority" ELSE "normal" IN
       /\ queues' = [waiting EXCEPT ![lane] = @ - 1]
       /\ pump' = [step |-> IF opens > 0 THEN "reporting" ELSE "calling", lane |-> lane, left |-> opens]
       \* In a row beyond the window is as good as at its end.
       /\ streak' = IF lane = "priority" THEN Lesser(FairnessWindow, streak + 1) ELSE 0
       /\ overtaken' = IF lane = "priority" /\ waiting["normal"] > 0 THEN overtaken + 1 ELSE 0

Schedule(lane) ==
  /\ queues[lane] < MaxQueued
  /\ LET waiting == [queues EXCEPT ![lane] = @ + 1] IN
     IF pump = Idle THEN Dequeued(waiting, gate) ELSE queues' = waiting /\ UNCHANGED <<pump, streak, overtaken>>
  /\ UNCHANGED <<gate, elevated, answered>>

\* onWait, the heartbeat of the worker's lease; the time to sleep was computed before it.
Reported ==
  /\ pump.step = "reporting" /\ pump' = [pump EXCEPT !.step = "sleeping"]
  /\ UNCHANGED <<queues, streak, gate, elevated, answered, overtaken>>

\* It throws out of the pump, which nobody awaits: the process ends, and another starts afresh.
ReportFails ==
  /\ pump.step = "reporting"
  /\ queues' = [l \in Lanes |-> 0] /\ pump' = Idle /\ streak' = 0 /\ gate' = 0 /\ elevated' = 0
  /\ answered' = [success |-> Long, limited |-> Long] /\ overtaken' = 0

Wake ==
  /\ pump.step = "sleeping" /\ pump.left = 0 /\ pump' = [pump EXCEPT !.step = "calling"]
  /\ UNCHANGED <<queues, streak, gate, elevated, answered, overtaken>>

\* Mutant: what the node asks for is waited for, however long it is.
BumpedUncapped(delay) == Greater(gate, delay)

Bumped(delay) == Greater(gate, Lesser(MaxDelay, delay))

Succeed ==
  /\ pump.step = "calling"
  /\ gate' = Bumped(IF elevated > 0 THEN Greater(MinInterval, Lesser(MaxDelay, Penalty)) ELSE MinInterval)
  /\ Dequeued(queues, gate') /\ answered' = [answered EXCEPT !.success = 0]
  /\ UNCHANGED elevated

RateLimited(retryAfter) ==
  /\ pump.step = "calling"
  /\ gate' = Bumped(Greater(Cooldown, retryAfter))
  /\ elevated' = Greater(elevated, gate' + Greater(MinInterval, Lesser(MaxDelay, Penalty)))
  /\ Dequeued(queues, gate') /\ answered' = [answered EXCEPT !.limited = 0]

\* Any other failure leaves the gate as it is.
Fail ==
  /\ pump.step = "calling" /\ Dequeued(queues, gate)
  /\ UNCHANGED <<gate, elevated, answered>>

Tick ==
  /\ pump.step = "sleeping" => pump.left > 0
  /\ gate' = Elapsed(gate) /\ elevated' = Elapsed(elevated)
  /\ pump' = IF pump.step = "sleeping" THEN [pump EXCEPT !.left = @ - 1] ELSE pump
  /\ answered' = [k \in DOMAIN answered |-> Lesser(Long, answered[k] + 1)]
  /\ UNCHANGED <<queues, streak, overtaken>>

Next ==
  \/ \E l \in Lanes : Schedule(l)
  \/ Reported \/ ReportFails \/ Wake \/ Succeed \/ Fail \/ Tick
  \/ \E r \in RetryAfters : RateLimited(r)

Spec == Init /\ [][Next]_vars

-----------------------------------------------------------------------------
TypeOK ==
  /\ queues \in [Lanes -> 0..MaxQueued] /\ streak \in 0..FairnessWindow
  /\ pump \in [step : {"idle", "reporting", "sleeping", "calling"}, lane : Lanes \cup {"none"}, left : 0..MaxDelay]
  /\ gate \in 0..MaxDelay /\ elevated \in Nat
  /\ answered \in [success : 0..Long, limited : 0..Long] /\ overtaken \in Nat

\* However many settlements are scheduled, a waiting call of the scan is overtaken by no more of them than the window.
ScanProceeds == overtaken <= FairnessWindow

\* What is left of the spacing: a delay above MaxDelay is cut to it.
Spacing == Lesser(MaxDelay, MinInterval)

\* One rate for both lanes: no call, of either, follows a success or a 429 sooner than the spacing and the cooldown.
Spaced == pump.step = "calling" => answered.success >= Spacing /\ answered.limited >= Cooldown

Fair == ScanProceeds /\ Spaced

(***************************************************************************)
(* Why: a normal call is overtaken by calls of the row that is counted;    *)
(* and the time left, at the gate or of the sleep, together with the time  *)
(* since the answer is never less than the spacing and the cooldown.       *)
(***************************************************************************)
KeepsDistance(left) == left + answered.success >= Spacing /\ left + answered.limited >= Cooldown

IInv ==
  /\ TypeOK
  /\ overtaken <= streak
  /\ KeepsDistance(gate) /\ (pump.step # "idle" => KeepsDistance(pump.left))
  /\ pump.step = "calling" => pump.left = 0
=============================================================================
