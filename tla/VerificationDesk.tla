--------------------------- MODULE VerificationDesk ---------------------------
(***************************************************************************)
(* Artist verification: applications, their status machine and the         *)
(* requests of applicants and reviewers (server/verification-service.js,   *)
(* rules in src/lib/verification.js).  A request is a step per statement;  *)
(* others run in between, and it may die at any of them.  Each submission  *)
(* is handed to the outbox of ReviewerAlert.                               *)
(*                                                                         *)
(* Left out: form validation, the submission rate limit, notes and         *)
(* reasons, reads that only list, and what the audit trail holds, which    *)
(* nothing reads.                                                          *)
(***************************************************************************)
EXTENDS Integers, FiniteSets

CONSTANTS
  Wallets,        \* applicants
  Apps,           \* bound: applications ever inserted
  Requests        \* requests served at the same time

DeskAssumption == Wallets # {} /\ Apps # {}

VARIABLES
  apps,        \* artist_verification_applications
  request      \* request[r]: the service call r is serving

vars == <<apps, request>>

-----------------------------------------------------------------------------
\* The status machine of src/lib/verification.js.

Live == {"SUBMITTED", "UNDER_REVIEW", "NEEDS_INFORMATION", "VERIFIED"}
ReviewerTransitions ==
  [SUBMITTED |-> {"UNDER_REVIEW", "NEEDS_INFORMATION", "VERIFIED", "DECLINED"},
   UNDER_REVIEW |-> {"NEEDS_INFORMATION", "VERIFIED", "DECLINED", "UNDER_REVIEW"},
   NEEDS_INFORMATION |-> {"UNDER_REVIEW", "VERIFIED", "DECLINED"},
   VERIFIED |-> {"REVOKED"}, DECLINED |-> {}, REVOKED |-> {}]
Statuses == DOMAIN ReviewerTransitions

NoApp == [status |-> "NONE", wallet |-> CHOOSE w \in Wallets : TRUE]
Inserted == {a \in Apps : apps[a].status # "NONE"}
Open(w) == {a \in Inserted : apps[a].wallet = w /\ apps[a].status \in Live}

\* Mutant: the table has no index over the live applications of a wallet.
IndexAdmitsAny(a, w, status) == TRUE

\* verification_one_live_app_per_wallet: the status may be written for application a of wallet w.
IndexAdmits(a, w, status) == status \in Live => Open(w) \subseteq {a}

NoRequest == [step |-> "idle", wallet |-> NoApp.wallet, app |-> CHOOSE a \in Apps : TRUE, to |-> "NONE"]

Init ==
  /\ apps = [a \in Apps |-> NoApp]
  /\ request = [r \in Requests |-> NoRequest]

-----------------------------------------------------------------------------
\* The service: each request reads, checks, writes by id alone and records the event.

BeginSubmit(r, w) ==
  /\ request[r].step = "idle" /\ Open(w) = {}
  /\ request' = [request EXCEPT ![r].step = "insert", ![r].wallet = w]
  /\ UNCHANGED apps

\* INSERT, refused by the index when another submission of the wallet came first.
Submit(r, a) ==
  /\ request[r].step = "insert" /\ a \notin Inserted
  /\ LET w == request[r].wallet IN
     IF IndexAdmits(a, w, "SUBMITTED")
     THEN /\ apps' = [apps EXCEPT ![a] = [NoApp EXCEPT !.status = "SUBMITTED", !.wallet = w]]
          /\ request' = [request EXCEPT ![r].step = "event", ![r].app = a, ![r].to = "SUBMITTED"]
     ELSE request' = [request EXCEPT ![r] = NoRequest] /\ UNCHANGED apps

\* decide and respond read the row and check the transition.
ReadForDecision(r, a, to) ==
  /\ request[r].step = "idle" /\ a \in Inserted
  /\ to \in ReviewerTransitions[apps[a].status]
  /\ request' = [request EXCEPT ![r].step = "update", ![r].app = a, ![r].to = to]
  /\ UNCHANGED apps

ReadForResponse(r, a) ==
  /\ request[r].step = "idle" /\ a \in Inserted
  /\ apps[a].status = "NEEDS_INFORMATION"
  /\ request' = [request EXCEPT ![r].step = "update", ![r].app = a, ![r].to = "UNDER_REVIEW"]
  /\ UNCHANGED apps

\* UPDATE ... WHERE id: whatever the status is by now.
UpdateStatus(r) ==
  /\ request[r].step = "update"
  /\ LET a == request[r].app IN
     IF IndexAdmits(a, apps[a].wallet, request[r].to)
     THEN /\ apps' = [apps EXCEPT ![a].status = request[r].to]
          /\ request' = [request EXCEPT ![r].step = "event"]
     ELSE request' = [request EXCEPT ![r] = NoRequest] /\ UNCHANGED apps

\* recordEvent, a statement of its own after the status.
RecordEvent(r) ==
  /\ request[r].step = "event"
  /\ request' = [request EXCEPT ![r] = NoRequest]
  /\ UNCHANGED apps

\* The process dies: what was written stays, the event may be missing.
Die(r) ==
  /\ request[r].step # "idle"
  /\ request' = [request EXCEPT ![r] = NoRequest]
  /\ UNCHANGED apps

Serve(r) ==
  \/ \E w \in Wallets : BeginSubmit(r, w)
  \/ \E a \in Apps : Submit(r, a) \/ ReadForResponse(r, a) \/ \E to \in Statuses : ReadForDecision(r, a, to)
  \/ UpdateStatus(r) \/ RecordEvent(r) \/ Die(r)

Next == \E r \in Requests : Serve(r)

Spec == Init /\ [][Next]_vars

-----------------------------------------------------------------------------
\* Type correctness of applications and requests.
Application == [status : Statuses \cup {"NONE"}, wallet : Wallets]
Request == [step : {"idle", "insert", "update", "event"}, wallet : Wallets, app : Apps, to : Statuses \cup {"NONE"}]

TypeOK == apps \in [Apps -> Application] /\ request \in [Requests -> Request]

\* However submissions, decisions and responses race, a wallet has at most one live application:
\* also when a decision that was read before brings a closed one back after the wallet reapplied.
OneLiveApplication == \A w \in Wallets : Cardinality(Open(w)) <= 1

\* The same without a count, which is what a step keeps.
LiveAlone == \A w \in Wallets : \A a, b \in Open(w) : a = b

IInv == TypeOK /\ LiveAlone
=============================================================================
