------------------------------- MODULE Provenance -------------------------------
(***************************************************************************)
(* The proof that an edition's manifest was committed on chain: the rows   *)
(* of provenance_proofs (server/provenance-records.js), moved by the       *)
(* anchoring routes (server/provenance-anchor.js) and by the confirmation  *)
(* of a publication (server/studio-service.js), and the transactions they  *)
(* look at: EditionCreated commits the manifest that the metadata carries, *)
(* VoidProvenanceAnchor.anchor commits a root of an edition created.       *)
(*                                                                         *)
(* A row stands for the root of its manifest; all roots are of one         *)
(* edition, whose metadata was published again in between.  A request is a *)
(* step per statement and per answer of the node; others run in between,   *)
(* and it may die at any of them.                                          *)
(*                                                                         *)
(* Left out: who owns the edition, the encodings and digests, the audit,   *)
(* the separate anchor of a row already proven (it writes no row), and the *)
(* unique index on the transaction (it commits one root, so it can only be *)
(* recorded for one row).  The code never writes REORGED and takes a       *)
(* receipt at the head as final: here too a mined transaction stays mined. *)
(***************************************************************************)
EXTENDS Naturals

CONSTANTS
  Roots,
  Foreign,  \* a root no row stands for
  Txs,      \* bound: transactions ever sent
  Requests  \* requests served at the same time

VARIABLES
  proofs,  \* provenance_proofs
  chain,   \* chain[t]: what transaction t commits, and its receipt
  req      \* req[q]: what q is in the middle of

vars == <<proofs, chain, req>>

-----------------------------------------------------------------------------
None == "none"
Statuses == {"PENDING", "SUBMITTED", "ANCHORED", "FAILED"}
NoProof == [anchor |-> None, verified |-> FALSE, tx |-> None, event |-> None]
NewProof == [NoProof EXCEPT !.anchor = "PENDING"]
NoTx == [kind |-> None, root |-> None, receipt |-> None]
Idle == [step |-> "idle", route |-> None, root |-> None, tx |-> None, outcome |-> None]

Init ==
  /\ proofs = [r \in Roots |-> NoProof]
  /\ chain = [t \in Txs |-> NoTx]
  /\ req = [q \in Requests |-> Idle]

Goto(q, step) == req' = [req EXCEPT ![q].step = step]
Done(q) == req' = [req EXCEPT ![q] = Idle]

-----------------------------------------------------------------------------
\* The chain.

Created == \E t \in Txs : chain[t].kind = "create" /\ chain[t].receipt = "success"
Anchored(r) == \E t \in Txs : chain[t] = [kind |-> "anchor", root |-> r, receipt |-> "success"]

Sent(t, kind, r) ==
  /\ chain[t] = NoTx
  /\ chain' = [chain EXCEPT ![t] = [kind |-> kind, root |-> r, receipt |-> None]]
  /\ UNCHANGED <<proofs, req>>

\* An edition is created once; a root is anchored once, by an edition that exists.
Succeeds(t) ==
  IF chain[t].kind = "create" THEN ~Created ELSE Created /\ ~Anchored(chain[t].root)

Mined(t) ==
  /\ chain[t] # NoTx /\ chain[t].receipt = None
  /\ chain' = [chain EXCEPT ![t].receipt = IF Succeeds(t) THEN "success" ELSE "reverted"]
  /\ UNCHANGED <<proofs, req>>

-----------------------------------------------------------------------------
\* Mutant: the statement no longer asks whether the row is still open.
StillOpenAlways(row) == row # NoProof

\* The WHERE of the statements that end an attempt.
StillOpen(row) == row.anchor \in {"PENDING", "SUBMITTED"} /\ ~row.verified

\* A request arrives.
Begin(q, route, r, t) ==
  /\ req[q] = Idle
  /\ route = "prepare" => t = None
  /\ route # "prepare" => t # None
  /\ req' = [req EXCEPT ![q] = [Idle EXCEPT !.step = "find", !.route = route, !.root = r, !.tx = t]]
  /\ UNCHANGED <<proofs, chain>>

\* openForAttempt: nothing is left to do for a proven row, a failed one is reopened first.
Opened(q, row) ==
  IF row.verified THEN Done(q)
  ELSE Goto(q, IF row.anchor = "FAILED" /\ req[q].route # "publish" THEN "load retry" ELSE "inspect")

\* findOwnedByRoot: a confirmation of a publication works only on a row that is there.
Find(q) ==
  LET row == proofs[req[q].root] IN
  /\ req[q].step = "find"
  /\ IF row = NoProof
     THEN IF req[q].route = "publish" THEN Done(q) ELSE Goto(q, "create")
     ELSE IF req[q].route = "prepare" THEN Done(q) ELSE Opened(q, row)
  /\ UNCHANGED <<proofs, chain>>

\* createProof: one row per manifest (UNIQUE); a second insert is answered 409.
Create(q) ==
  LET r == req[q].root IN
  /\ req[q].step = "create"
  /\ IF proofs[r] # NoProof \/ req[q].route = "prepare" THEN Done(q) ELSE Opened(q, NewProof)
  /\ proofs' = IF proofs[r] = NoProof THEN [proofs EXCEPT ![r] = NewProof] ELSE proofs
  /\ UNCHANGED chain

\* retryProof loads the row ...
LoadRetry(q) ==
  /\ req[q].step = "load retry"
  /\ IF proofs[req[q].root].anchor = "FAILED" THEN Goto(q, "retry") ELSE Done(q)
  /\ UNCHANGED <<proofs, chain>>

\* ... and reopens it if it is failed still.
Retry(q) ==
  LET r == req[q].root IN
  /\ req[q].step = "retry"
  /\ IF proofs[r].anchor = "FAILED"
     THEN proofs' = [proofs EXCEPT ![r].anchor = "PENDING"] /\ Goto(q, "inspect")
     ELSE UNCHANGED proofs /\ Done(q)
  /\ UNCHANGED chain

-----------------------------------------------------------------------------
\* inspectAnchorTransaction, and what each route makes of its answer.  A node may lag: it has no
\* receipt yet, or a receipt while the anchor it reads does not record the root.
Anchors(t, r) == chain[t].kind = "anchor" /\ chain[t].root = r

AnchorOutcomes(route, t, r) ==
  CASE chain[t] = NoTx -> {None}
    [] chain[t] # NoTx /\ ~Anchors(t, r) -> {IF route = "confirm" THEN "FAILED" ELSE None}
    [] Anchors(t, r) /\ chain[t].receipt = None -> {"SUBMITTED"}
    [] Anchors(t, r) /\ chain[t].receipt = "reverted" -> {"FAILED", "SUBMITTED"}
    [] Anchors(t, r) /\ chain[t].receipt = "success" ->
         {"SUBMITTED"} \cup IF route = "confirm" THEN {"ANCHORED", "FAILED"} ELSE {}

\* confirmPublication reads the document under the created edition's URI: it proves the root, or
\* contradicts it, or cannot be read.
PublicationOutcomes(t, r) ==
  IF chain[t] = [kind |-> "create", root |-> r, receipt |-> "success"]
  THEN {"ANCHORED", "FAILED", None} ELSE {None}

Inspect(q) ==
  /\ req[q].step = "inspect"
  /\ \E o \in IF req[q].route = "publish" THEN PublicationOutcomes(req[q].tx, req[q].root)
              ELSE AnchorOutcomes(req[q].route, req[q].tx, req[q].root) :
       IF o = None THEN Done(q) ELSE req' = [req EXCEPT ![q].step = "load", ![q].outcome = o]
  /\ UNCHANGED <<proofs, chain>>

\* loadOwned, and its checks before the statement.
Load(q) ==
  LET row == proofs[req[q].root] IN
  /\ req[q].step = "load"
  /\ IF row.anchor \in {"PENDING", "SUBMITTED"} /\ ~row.verified THEN Goto(q, "write") ELSE Done(q)
  /\ UNCHANGED <<proofs, chain>>

Event(q) == IF req[q].route = "publish" THEN "EditionCreated" ELSE "ProvenanceAnchored"

Recorded(row, q) ==
  CASE req[q].outcome = "FAILED" -> [row EXCEPT !.anchor = "FAILED"]
    [] req[q].outcome = "SUBMITTED" ->
         [row EXCEPT !.anchor = "SUBMITTED", !.verified = FALSE, !.tx = req[q].tx, !.event = Event(q)]
    [] req[q].outcome = "ANCHORED" ->
         [row EXCEPT !.anchor = "ANCHORED", !.verified = TRUE, !.tx = req[q].tx, !.event = Event(q)]

\* recordSubmittedAnchor, recordVerifiedAnchor, recordAnchorFailure: one conditional UPDATE.
Write(q) ==
  LET row == proofs[req[q].root] IN
  /\ req[q].step = "write"
  /\ proofs' = IF StillOpen(row) THEN [proofs EXCEPT ![req[q].root] = Recorded(row, q)] ELSE proofs
  /\ Done(q)
  /\ UNCHANGED chain

Die(q) == req[q] # Idle /\ Done(q) /\ UNCHANGED <<proofs, chain>>

Next ==
  \/ \E t \in Txs : Mined(t) \/ \E kind \in {"create", "anchor"}, r \in Roots \cup {Foreign} : Sent(t, kind, r)
  \/ \E q \in Requests :
       \/ Find(q) \/ Create(q) \/ LoadRetry(q) \/ Retry(q)
       \/ Inspect(q) \/ Load(q) \/ Write(q) \/ Die(q)
       \/ \E route \in {"prepare", "submit", "confirm", "publish"}, r \in Roots, t \in Txs \cup {None} : Begin(q, route, r, t)

Spec == Init /\ [][Next]_vars

-----------------------------------------------------------------------------
ProofRows ==
  [anchor : Statuses \cup {None}, verified : BOOLEAN, tx : Txs \cup {None},
   event : {None, "EditionCreated", "ProvenanceAnchored"}]

Transactions ==
  [kind : {None, "create", "anchor"}, root : Roots \cup {Foreign, None}, receipt : {None, "success", "reverted"}]
Request ==
  [step : {"idle", "find", "create", "load retry", "retry", "inspect", "load", "write"},
   route : {None, "prepare", "submit", "confirm", "publish"}, root : Roots \cup {None},
   tx : Txs \cup {None}, outcome : {None, "SUBMITTED", "ANCHORED", "FAILED"}]

\* Type correctness of the rows, the transactions and the requests.
TypeOK == proofs \in [Roots -> ProofRows] /\ chain \in [Txs -> Transactions] /\ req \in [Requests -> Request]

Commits(t, r, event) ==
  chain[t].root = r /\ chain[t].kind = IF event = "EditionCreated" THEN "create" ELSE "anchor"

(***************************************************************************)
(* What a row says was seen on chain: a submitted transaction commits the  *)
(* row's own root, and a verified row names the successful transaction     *)
(* that did, whichever requests crossed on the way.                        *)
(***************************************************************************)
Evidence ==
  \A r \in Roots :
    /\ proofs[r].anchor \in {"SUBMITTED", "ANCHORED"} => Commits(proofs[r].tx, r, proofs[r].event)
    /\ proofs[r].anchor = "ANCHORED" => chain[proofs[r].tx].receipt = "success"
    /\ proofs[r].verified <=> proofs[r].anchor = "ANCHORED"

\* A verified row is never rewritten, by a late failure, a late submission or a second confirmation.
Immutable == \A r \in Roots : proofs[r].verified => proofs'[r] = proofs[r]

(***************************************************************************)
(* Why they hold: what a request is about to write it has seen on chain,   *)
(* and what is on chain stays.                                             *)
(***************************************************************************)
Asked(q) ==
  /\ req[q].step # "idle" =>
       req[q].route # None /\ req[q].root \in Roots /\ (req[q].route # "prepare" => req[q].tx \in Txs)
  /\ req[q].step \in {"load retry", "retry", "inspect", "load", "write"} => req[q].route # "prepare"

Seen(q) ==
  req[q].step \in {"load", "write"} =>
    /\ req[q].outcome # None
    /\ req[q].outcome \in {"SUBMITTED", "ANCHORED"} => Commits(req[q].tx, req[q].root, Event(q))
    /\ req[q].outcome = "ANCHORED" => chain[req[q].tx].receipt = "success"

IInv ==
  /\ TypeOK /\ Evidence /\ \A q \in Requests : Asked(q) /\ Seen(q)
  /\ \A r \in Roots : proofs[r].anchor \in {"SUBMITTED", "ANCHORED"} => proofs[r].tx \in Txs

\* Both, of every step.
ProofsHold == [][Evidence' /\ Immutable]_vars
=============================================================================
