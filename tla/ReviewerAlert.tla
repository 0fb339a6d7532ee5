----------------------------- MODULE ReviewerAlert -----------------------------
(***************************************************************************)
(* The direct message on X that tells a reviewer of a submission: an       *)
(* outbox row worked off by concurrent deliveries                          *)
(* (server/verification-notifier.js, server/x-dm.js), enqueued by the      *)
(* service after its response, or by the sweep of server/index.js when     *)
(* that was lost.                                                          *)
(*                                                                         *)
(* A delivery is a step per statement and per call to X; the API may die   *)
(* at any of them.  Time is what it decides: a retry comes due, a claim of *)
(* 120 seconds runs out while its message is still being sent, a           *)
(* submission grows too old to be enqueued (an hour) or retried (72 hours).*)
(***************************************************************************)
EXTENDS Integers

CONSTANTS
  Apps,           \* submitted applications
  Workers,        \* deliveries running at the same time
  MaxAttempts,    \* MAX_ATTEMPTS, at least 1
  MaxRedeploys    \* bound: restarts of the API

VARIABLES
  age,         \* age[a]: "none" before the submission, then "recent", "older" after an hour, "old" after 72
  queued,      \* submissions whose setImmediate callback has not run
  alerts,      \* verification_notifications, one per application
  worker,      \* worker[d]: the delivery d is making
  configured,  \* the running API has its X credentials
  redeploys,
  told         \* told[a]: messages delivered, and those delivered but reported as failed

AlertAssumption == Apps # {} /\ MaxAttempts \in Nat \ {0} /\ MaxRedeploys \in Nat

vars == <<age, queued, alerts, worker, configured, redeploys, told>>
process == <<configured, redeploys>>

-----------------------------------------------------------------------------
Waiting == [status |-> "NONE", attempts |-> 0, due |-> TRUE, expired |-> FALSE]
NoDelivery == [step |-> "idle", app |-> CHOOSE a \in Apps : TRUE, attempt |-> 0, result |-> "none"]

Init ==
  /\ age = [a \in Apps |-> "none"]
  /\ queued = {}
  /\ alerts = [a \in Apps |-> Waiting]
  /\ worker = [d \in Workers |-> NoDelivery]
  /\ configured \in BOOLEAN
  /\ redeploys = 0
  /\ told = [a \in Apps |-> [delivered |-> 0, misreported |-> 0]]

\* An application is inserted as SUBMITTED; the alert is left to the next turn of the event loop.
Submitted(a) ==
  /\ age[a] = "none"
  /\ age' = [age EXCEPT ![a] = "recent"]
  /\ queued' = queued \cup {a}
  /\ UNCHANGED <<alerts, worker, told, process>>

-----------------------------------------------------------------------------
Pending == {"PENDING", "RETRY", "CONFIG_MISSING"}
Final == {"SENT", "FAILED", "UNCONFIRMED"}

Enqueued(a) == [alerts EXCEPT ![a].status = "PENDING", ![a].due = TRUE]

Claimable(a) == alerts[a].status \in Pending /\ alerts[a].due

\* notifySubmitted: insertIfAbsent, and deliver what was inserted.
NotifySubmitted(d, a) ==
  /\ a \in queued /\ worker[d].step = "idle"
  /\ queued' = queued \ {a}
  /\ IF alerts[a].status = "NONE"
     THEN /\ alerts' = Enqueued(a)
          /\ worker' = [worker EXCEPT ![d].step = "claim", ![d].app = a]
     ELSE UNCHANGED <<alerts, worker>>
  /\ UNCHANGED <<age, told, process>>

\* processDue, first statement: an attempt that never recorded its outcome is not made again.
\* Mutants: it is retried, or left as it is.
StaleIgnored(a) == alerts
StaleRetried(a) == [alerts EXCEPT ![a].status = "RETRY", ![a].due = TRUE, ![a].expired = FALSE]

Stale(a) == [alerts EXCEPT ![a].status = "UNCONFIRMED", ![a].expired = FALSE]

MarkStaleClaims(a) ==
  /\ alerts[a].status = "SENDING" /\ alerts[a].expired
  /\ alerts' = Stale(a)
  /\ UNCHANGED <<age, queued, worker, told, process>>

\* processDue, second statement: a recent submission without a row gets one.
EnqueueMissing(a) ==
  /\ age[a] = "recent" /\ alerts[a].status = "NONE"
  /\ alerts' = Enqueued(a)
  /\ UNCHANGED <<age, queued, worker, told, process>>

\* processDue lists the rows that are due and delivers them.
SweepDue(d, a) ==
  /\ worker[d].step = "idle" /\ Claimable(a) /\ age[a] # "old"
  /\ worker' = [worker EXCEPT ![d].step = "claim", ![d].app = a]
  /\ UNCHANGED <<age, queued, alerts, told, process>>

\* deliver: the row is claimed by a conditional update, or the delivery gives up.
Claim(d) ==
  /\ worker[d].step = "claim"
  /\ LET a == worker[d].app IN
     IF Claimable(a)
     THEN /\ alerts' = [alerts EXCEPT ![a].status = "SENDING", ![a].attempts = @ + 1, ![a].expired = FALSE]
          /\ worker' = [worker EXCEPT ![d].step = "send", ![d].attempt = alerts[a].attempts + 1]
     ELSE worker' = [worker EXCEPT ![d] = NoDelivery] /\ UNCHANGED alerts
  /\ UNCHANGED <<age, queued, told, process>>

(***************************************************************************)
(* xClient.send.  "lost" is a message X delivered although the call ended  *)
(* in a network error or a 5xx; like "error" it counts as retryable.       *)
(***************************************************************************)
Send(d) ==
  /\ worker[d].step = "send" /\ configured
  /\ \E result \in {"ok", "error", "refused", "lost"} :
       /\ worker' = [worker EXCEPT ![d].step = "finish", ![d].result = result]
       /\ told' = [told EXCEPT ![worker[d].app] =
            [delivered |-> IF result \in {"ok", "lost"} THEN @.delivered + 1 ELSE @.delivered,
             misreported |-> IF result = "lost" THEN @.misreported + 1 ELSE @.misreported]]
  /\ UNCHANGED <<age, queued, alerts, process>>

Unconfigured(d) ==
  /\ worker[d].step = "send" /\ ~configured
  /\ worker' = [worker EXCEPT ![d].step = "finish", ![d].result = "unconfigured"]
  /\ UNCHANGED <<age, queued, alerts, told, process>>

Outcome(d) ==
  CASE worker[d].result = "ok" -> "SENT"
    [] worker[d].result = "unconfigured" -> "CONFIG_MISSING"
    [] worker[d].result \in {"error", "lost"} /\ worker[d].attempt < MaxAttempts -> "RETRY"
    [] OTHER -> "FAILED"

\* Mutant: the outcome is recorded whatever became of the row.
AnsweredAlways(a) == TRUE

Answered(a) == alerts[a].status = "SENDING"

\* finish: recorded only while the row is still being sent; a missing configuration is no attempt.
Finish(d) ==
  /\ worker[d].step = "finish"
  /\ LET a == worker[d].app IN
     alerts' = IF ~Answered(a) THEN alerts
               ELSE [alerts EXCEPT ![a].status = Outcome(d), ![a].due = FALSE, ![a].expired = FALSE,
                       ![a].attempts = IF Outcome(d) = "CONFIG_MISSING" THEN worker[d].attempt - 1 ELSE @]
  /\ worker' = [worker EXCEPT ![d] = NoDelivery]
  /\ UNCHANGED <<age, queued, told, process>>

-----------------------------------------------------------------------------
\* Time and restarts.

ComesDue(a) ==
  /\ alerts[a].status \in Pending /\ ~alerts[a].due
  /\ alerts' = [alerts EXCEPT ![a].due = TRUE]
  /\ UNCHANGED <<age, queued, worker, told, process>>

ClaimExpires(a) ==
  /\ alerts[a].status = "SENDING" /\ ~alerts[a].expired
  /\ alerts' = [alerts EXCEPT ![a].expired = TRUE]
  /\ UNCHANGED <<age, queued, worker, told, process>>

Older(a) ==
  /\ age[a] \in {"recent", "older"}
  /\ age' = [age EXCEPT ![a] = IF @ = "recent" THEN "older" ELSE "old"]
  /\ UNCHANGED <<queued, alerts, worker, told, process>>

\* The API restarts: every delivery and queued callback is gone, X may be configured or not.
Redeploy ==
  /\ redeploys < MaxRedeploys /\ redeploys' = redeploys + 1
  /\ configured' \in BOOLEAN
  /\ worker' = [d \in Workers |-> NoDelivery]
  /\ queued' = {}
  /\ UNCHANGED <<age, alerts, told>>

Deliver(d) ==
  \/ \E a \in Apps : NotifySubmitted(d, a) \/ SweepDue(d, a)
  \/ Claim(d) \/ Send(d) \/ Unconfigured(d) \/ Finish(d)

Sweep(a) == MarkStaleClaims(a) \/ EnqueueMissing(a)

Next ==
  \/ \E a \in Apps : Submitted(a) \/ Sweep(a) \/ ComesDue(a) \/ ClaimExpires(a) \/ Older(a)
  \/ \E d \in Workers : Deliver(d)
  \/ Redeploy

(***************************************************************************)
(* The sweep runs every minute (server/index.js:115), a call to X ends at  *)
(* its socket's timeout, and retries come due.  Nothing forces the hour    *)
(* that a lost enqueue has to be made good.                                *)
(***************************************************************************)
Fairness ==
  /\ \A d \in Workers : WF_vars(Claim(d) \/ Send(d) \/ Unconfigured(d) \/ Finish(d))
  /\ \A a \in Apps : /\ WF_vars(Sweep(a)) /\ WF_vars(ComesDue(a)) /\ WF_vars(ClaimExpires(a))
                     /\ SF_vars(\E d \in Workers : SweepDue(d, a))

Spec == Init /\ [][Next]_vars /\ Fairness

-----------------------------------------------------------------------------
Alert ==
  [status : Pending \cup Final \cup {"NONE", "SENDING"}, attempts : 0..MaxAttempts, due : BOOLEAN, expired : BOOLEAN]
Delivery ==
  [step : {"idle", "claim", "send", "finish"}, app : Apps, attempt : 0..MaxAttempts,
   result : {"none", "ok", "error", "refused", "lost", "unconfigured"}]

\* Type correctness of outbox rows and deliveries.
TypeOK ==
  /\ age \in [Apps -> {"none", "recent", "older", "old"}] /\ queued \subseteq Apps
  /\ alerts \in [Apps -> Alert] /\ worker \in [Workers -> Delivery]
  /\ redeploys \in 0..MaxRedeploys
  /\ told \in [Apps -> [delivered : Nat, misreported : Nat]]

(***************************************************************************)
(* A reviewer gets one message per submission, and one more only for each  *)
(* message that X delivered and reported as failed: crashes, stale claims, *)
(* late outcomes and racing sweeps never send again.                       *)
(***************************************************************************)
NoDuplicateAlert == \A a \in Apps : told[a].delivered <= 1 + told[a].misreported

\* An outcome that was recorded is never overwritten: a late finish finds its row given up.
OutcomesFinal == [][\A a \in Apps : alerts[a].status \in Final => alerts'[a].status = alerts[a].status]_vars

(***************************************************************************)
(* Why no message is sent twice: a row has one delivery under way, only    *)
(* while it is SENDING or after that was given up as UNCONFIRMED, and what *)
(* may be sent again was never delivered but for messages misreported.     *)
(***************************************************************************)
Making(d, a) == worker[d].step \in {"send", "finish"} /\ worker[d].app = a

Owed(a) == told[a].delivered <= told[a].misreported

NothingLeft == \A a \in Apps : alerts[a].status \in Pending \cup {"NONE"} => alerts[a].attempts < MaxAttempts /\ Owed(a)

UnderWay ==
  \A d \in Workers, a \in Apps : Making(d, a) =>
    /\ alerts[a].status \in {"SENDING", "UNCONFIRMED"}
    /\ worker[d].attempt > 0 /\ (alerts[a].status = "SENDING" => alerts[a].attempts = worker[d].attempt)
    /\ Owed(a) \/ (worker[d].step = "finish" /\ worker[d].result = "ok")

OneDelivery == \A d, e \in Workers, a \in Apps : Making(d, a) /\ Making(e, a) => d = e

IInv == TypeOK /\ NoDuplicateAlert /\ NothingLeft /\ UnderWay /\ OneDelivery

(***************************************************************************)
(* The alert for a submission is delivered or given up, through crashes,   *)
(* retries and stale claims, unless X stops being configured or the row is *)
(* 72 hours old, or the API died before the row existed and stayed down    *)
(* for the hour in which the sweep would have made it.                     *)
(***************************************************************************)
Alerted ==
  \A a \in Apps :
    age[a] = "recent"
      ~> \/ alerts[a].status \in Final \/ ~configured \/ age[a] = "old"
         \/ age[a] = "older" /\ alerts[a].status = "NONE"
=============================================================================
