------------------------------ MODULE MediaGate -------------------------------
(***************************************************************************)
(* Access to protected media: a grant for a wallet that holds a token by   *)
(* the indexed snapshots (server/media-gateway.js, server/ownership.js,    *)
(* the grants of server/repositories.js), and how long a holder who sells  *)
(* the token, or an experience taken off the site, is still served.        *)
(*                                                                         *)
(* One experience unlocks by one unit of one token.  Time passes in ticks; *)
(* every variable of time is an age, so that no clock bounds the model.    *)
(* The indexer (module Indexer) is reduced to what ownership reads of it:  *)
(* a run reads the chain, applies what it read, and succeeds or not; what  *)
(* a reorganisation dropped is rebuilt from the recorded transfers.        *)
(*                                                                         *)
(* Left out: legacy tokens, which are read from the chain itself; the lag  *)
(* in blocks, which a run that succeeded has within bounds; the file.      *)
(***************************************************************************)
EXTENDS Naturals

CONSTANTS
  Wallets,
  Requests,    \* requests in progress, on any API instance
  Grants,      \* grant ids
  GrantTtl,    \* MEDIA_GRANT_TTL_SECONDS
  Staleness,   \* OWNERSHIP_MAX_INDEXER_STALENESS_MS
  RunTime,     \* assumed: an indexer run lasts at most this long, and no reorganisation is older
  Patience,    \* assumed: so long lasts a request
  Overwrites   \* a transfer read again may clear the REORG_PENDING of a row that is wrong

\* What the constants may be; a run that instantiates the module assumes it.
MediaGateAssumption ==
  /\ GrantTtl \in Nat \ {0} /\ {Staleness, RunTime, Patience} \subseteq Nat
  /\ Overwrites \in BOOLEAN

VARIABLES
  published,   \* the experience and its edition are PUBLISHED
  offAge,      \* how long they have not been
  holder,      \* who holds the token on the confirmed chain
  lostAge,     \* lostAge[w]: how long w has not held it
  index,       \* ownership_snapshots, recorded transfers, rebuild job, checkpoint, and the run in flight
  grants,      \* experience_grants
  req          \* what each request is doing

mediaVars == <<published, offAge, holder, lostAge, index, grants, req>>
outside == <<published, offAge, holder, lostAge>>

-----------------------------------------------------------------------------
(***************************************************************************)
(* What the bounds promise together: a sold token, an experience taken     *)
(* off the site and a revoked grant no longer serve after these times.     *)
(***************************************************************************)
HolderWindow == RunTime + Staleness + Patience + GrantTtl + Patience
ExperienceWindow == Patience + GrantTtl + Patience

\* A success that no request in progress found fresh, or never one.
LongAgo == Staleness + Patience + 1

\* An age grows up to where it no longer matters.
Older(age, limit) == IF age < limit THEN age + 1 ELSE limit

NoGrant == [owner |-> "none", left |-> 0, revoked |-> FALSE, revokedAge |-> 0]
Waiting == [step |-> "idle", wallet |-> "none", grant |-> "none", age |-> 0]

MediaInit ==
  /\ published = FALSE /\ offAge = ExperienceWindow
  /\ holder \in Wallets
  /\ lostAge = [w \in Wallets |-> IF w = holder THEN 0 ELSE HolderWindow]
  /\ index = [owner |-> "none", pending |-> FALSE, known |-> "none", job |-> FALSE,
              status |-> "NONE", age |-> LongAgo, run |-> "none", seen |-> "none", runAge |-> 0]
  /\ grants = [g \in Grants |-> NoGrant]
  /\ req = [r \in Requests |-> Waiting]

-----------------------------------------------------------------------------
\* The world outside: time, the chain, the Studio.

Tick ==
  /\ \A r \in Requests : req[r].step # "idle" => req[r].age < Patience
  /\ index.run # "none" => index.runAge < RunTime
  /\ offAge' = IF published THEN 0 ELSE Older(offAge, ExperienceWindow)
  /\ lostAge' = [w \in Wallets |-> IF w = holder THEN 0 ELSE Older(lostAge[w], HolderWindow)]
  /\ index' = [index EXCEPT !.age = Older(@, LongAgo), !.runAge = IF index.run = "none" THEN 0 ELSE @ + 1]
  /\ grants' = [g \in Grants |-> [grants[g] EXCEPT !.left = IF @ = 0 THEN 0 ELSE @ - 1,
                                    !.revokedAge = IF grants[g].revoked THEN Older(@, Patience + 1) ELSE 0]]
  /\ req' = [r \in Requests |-> IF req[r].step = "idle" THEN Waiting ELSE [req[r] EXCEPT !.age = @ + 1]]
  /\ UNCHANGED <<published, holder>>

Transfer(w) ==
  /\ w # holder
  /\ holder' = w /\ lostAge' = [lostAge EXCEPT ![w] = 0]
  /\ UNCHANGED <<published, offAge, index, grants, req>>

\* Published, or archived.
Show ==
  /\ published' = ~published /\ offAge' = 0
  /\ UNCHANGED <<holder, lostAge, index, grants, req>>

-----------------------------------------------------------------------------
\* The indexer.

(***************************************************************************)
(* The run is admitted and reads the chain.  A reorganisation withdraws    *)
(* transfers; if this token's are among them the row of its owner becomes  *)
(* REORG_PENDING, and the transfers left tell of an earlier holder.        *)
(***************************************************************************)
RunStart(reorg) ==
  /\ index.run = "none"
  /\ \E w \in IF reorg = "row" THEN {v \in Wallets : lostAge[v] <= RunTime} ELSE {index.known} :
       index' = [index EXCEPT !.status = "RUNNING", !.run = "scan", !.seen = holder, !.runAge = 0,
                   !.known = w, !.job = @ \/ reorg # "none", !.pending = @ \/ reorg = "row"]
  /\ UNCHANGED <<outside, grants, req>>

\* Holders at blocks between the one the last success read and the one this run reads.
HeldSince == {w \in Wallets : index.age < LongAgo => lostAge[w] <= RunTime + index.age}

\* A chunk of blocks is applied.  A transfer changes the balance there is and clears the mark,
\* rightly or not.
RunApply(w, last) ==
  /\ index.run = "scan"
  /\ IF last THEN w = index.seen ELSE w \in HeldSince
  /\ \E owner \in {index.owner, w}, pending \in BOOLEAN :
       /\ IF ~index.pending THEN owner = w /\ ~pending
          ELSE \/ owner = index.owner /\ pending
               \/ owner = w /\ ~pending
               \/ Overwrites /\ ~pending
       /\ index' = [index EXCEPT !.owner = owner, !.pending = pending, !.known = w,
                                 !.seen = IF last THEN "none" ELSE @, !.run = IF last THEN "applied" ELSE @]
  /\ UNCHANGED <<outside, grants, req>>

\* The checkpoint is finished; the worker then looks for a rebuild job.
RunSucceed ==
  /\ index.run = "applied"
  /\ index' = [index EXCEPT !.status = "IDLE", !.age = 0,
                            !.run = IF index.job THEN "rebuild" ELSE "none",
                            !.runAge = IF index.job THEN @ ELSE 0]
  /\ UNCHANGED <<outside, grants, req>>

\* Before a run or after it: the balances are those of the recorded transfers.
Rebuild ==
  /\ index.job /\ index.run \in {"none", "rebuild"}
  /\ index' = [index EXCEPT !.owner = index.known, !.pending = FALSE, !.job = FALSE,
                            !.run = "none", !.runAge = 0]
  /\ UNCHANGED <<outside, grants, req>>

\* The run fails, dies, or spends its budget of chunks before the target.
RunStop(status) ==
  /\ index.run # "none"
  /\ index' = [index EXCEPT !.status = IF index.run = "rebuild" THEN @ ELSE status,
                            !.run = "none", !.seen = "none", !.runAge = 0]
  /\ UNCHANGED <<outside, grants, req>>

-----------------------------------------------------------------------------
\* issueGrant.

Step(r, q) == req' = [req EXCEPT ![r] = q]

\* loadExperience: only what is published is served.
Load(r, w) ==
  /\ req[r].step = "idle" /\ published
  /\ Step(r, [Waiting EXCEPT !.step = "checkpoint", !.wallet = w])
  /\ UNCHANGED <<outside, index, grants>>

\* Mutant: a checkpoint with a run in flight is fresh.
CheckpointMoving == index.status = "RUNNING" \/ (index.status = "IDLE" /\ index.age <= Staleness)

\* checkpointFresh: judged by the last run that succeeded, also while another is in flight.
CheckpointFresh == index.status \in {"IDLE", "RUNNING"} /\ index.age <= Staleness

AssertCheckpoint(r) ==
  /\ req[r].step = "checkpoint"
  /\ Step(r, IF CheckpointFresh THEN [req[r] EXCEPT !.step = "snapshot"] ELSE Waiting)
  /\ UNCHANGED <<outside, index, grants>>

\* The snapshot of the wallet: enough units, and not REORG_PENDING.
Owns(w) == index.owner = w /\ ~index.pending

VerifyOwner(r) ==
  /\ req[r].step = "snapshot"
  /\ Step(r, IF Owns(req[r].wallet) THEN [req[r] EXCEPT !.step = "issue"] ELSE Waiting)
  /\ UNCHANGED <<outside, index, grants>>

\* createGrant, with an expiry counted from now.
IssueGrant(r, g) ==
  /\ req[r].step = "issue" /\ grants[g] = NoGrant
  /\ grants' = [grants EXCEPT ![g] = [NoGrant EXCEPT !.owner = req[r].wallet, !.left = GrantTtl]]
  /\ Step(r, Waiting)
  /\ UNCHANGED <<outside, index>>

\* revokeMediaGrant: one statement, by the wallet of the grant; an expired one may be revoked too.
RevokeGrant(g) ==
  /\ grants[g] # NoGrant /\ ~grants[g].revoked
  /\ grants' = [grants EXCEPT ![g].revoked = TRUE]
  /\ UNCHANGED <<outside, index, req>>

-----------------------------------------------------------------------------
\* openMedia: the grant as it is read decides; the file is opened after that.

Active(g) == grants[g].left > 0 /\ ~grants[g].revoked

ReadGrant(r, g) ==
  /\ req[r].step = "idle" /\ grants[g] # NoGrant
  /\ Active(g)
  /\ Step(r, [Waiting EXCEPT !.step = "serve", !.wallet = grants[g].owner, !.grant = g])
  /\ UNCHANGED <<outside, index, grants>>

\* The request ends, with the media sent or in an error.
Serve(r) ==
  /\ req[r].step # "idle"
  /\ Step(r, Waiting)
  /\ UNCHANGED <<outside, index, grants>>

MediaNext ==
  \/ Tick \/ Show
  \/ \E w \in Wallets : Transfer(w)
  \/ \E reorg \in {"none", "elsewhere", "row"} : RunStart(reorg)
  \/ \E w \in Wallets, last \in BOOLEAN : RunApply(w, last)
  \/ RunSucceed \/ Rebuild
  \/ \E status \in {"RUNNING", "FAILED"} : RunStop(status)
  \/ \E g \in Grants : RevokeGrant(g)
  \/ \E r \in Requests :
       \/ \E w \in Wallets : Load(r, w)
       \/ AssertCheckpoint(r) \/ VerifyOwner(r) \/ Serve(r)
       \/ \E g \in Grants : IssueGrant(r, g) \/ ReadGrant(r, g)

MediaSpec == MediaInit /\ [][MediaNext]_mediaVars

-----------------------------------------------------------------------------
\* Type correctness of the index, the grants and the requests.
Index == [owner : Wallets \cup {"none"}, pending : BOOLEAN, known : Wallets \cup {"none"}, job : BOOLEAN,
          status : {"NONE", "IDLE", "RUNNING", "FAILED"}, age : 0..LongAgo,
          run : {"none", "scan", "applied", "rebuild"}, seen : Wallets \cup {"none"}, runAge : 0..RunTime]
Grant == [owner : Wallets \cup {"none"}, left : 0..GrantTtl, revoked : BOOLEAN, revokedAge : 0..(Patience + 1)]
Request == [step : {"idle", "checkpoint", "snapshot", "issue", "serve"}, wallet : Wallets \cup {"none"},
            grant : Grants \cup {"none"}, age : 0..Patience]

MediaTypeOK ==
  /\ published \in BOOLEAN /\ offAge \in 0..ExperienceWindow
  /\ holder \in Wallets /\ lostAge \in [Wallets -> 0..HolderWindow]
  /\ index \in Index /\ grants \in [Grants -> Grant] /\ req \in [Requests -> Request]

(***************************************************************************)
(* "Current confirmed ownership": whoever is served now held the token,    *)
(* and the experience was published, less than the window ago, and the     *)
(* grant was not revoked before the request began - through failing runs,  *)
(* a checkpoint left RUNNING, pending rebuilds, and checks made one after  *)
(* the other while all of it changes.  The first is said where a transfer  *)
(* read again does not clear the mark of a row that is wrong.              *)
(***************************************************************************)
AccessEndsInTime ==
  \A r \in Requests : req[r].step = "serve" =>
    /\ ~Overwrites => lostAge[req[r].wallet] < HolderWindow
    /\ ~published => offAge < ExperienceWindow
    /\ grants[req[r].grant].revokedAge <= req[r].age

(***************************************************************************)
(* Why: each check hands on how old what it saw can be by now.  The index  *)
(* shows nobody who lost the token longer before the last success than a   *)
(* run lasts, and a run that has applied everything shows who held it when *)
(* the run began;                                                          *)
(***************************************************************************)
HeldBy(w, age) == w \in Wallets => lostAge[w] <= age

IndexRecent ==
  /\ lostAge[holder] = 0
  /\ index.age < LongAgo =>
       HeldBy(index.known, RunTime + index.age) /\ (~index.pending /\ ~Overwrites => HeldBy(index.owner, RunTime + index.age))
  /\ index.run = "scan" => index.seen \in Wallets /\ lostAge[index.seen] <= index.runAge
  /\ index.run = "applied" => HeldBy(index.known, index.runAge) /\ (~index.pending /\ ~Overwrites => HeldBy(index.owner, index.runAge))

\* ... a request for a grant trusts it for as long as the request lasts, and a grant for its own time;
Shown(age) == ~published => offAge <= age
Trusted == RunTime + Staleness

RequestsRecent ==
  \A r \in Requests :
    /\ req[r].step \in {"checkpoint", "snapshot", "issue"} => req[r].wallet \in Wallets /\ Shown(req[r].age)
    /\ req[r].step = "snapshot" => index.age <= Staleness + req[r].age
    /\ req[r].step = "issue" /\ ~Overwrites => lostAge[req[r].wallet] <= Trusted + req[r].age

GrantsRecent ==
  \A g \in Grants :
    /\ ~grants[g].revoked => grants[g].revokedAge = 0
    /\ grants[g].left > 0 =>
         /\ grants[g].owner \in Wallets
         /\ ~Overwrites => lostAge[grants[g].owner] + grants[g].left <= Trusted + Patience + GrantTtl
         /\ Shown(Patience + GrantTtl - grants[g].left)

\* ... and a file that is being sent was asked for with a grant that had time left.
ServesRecent ==
  \A r \in Requests : req[r].step = "serve" =>
    /\ req[r].wallet \in Wallets /\ req[r].grant \in Grants
    /\ ~Overwrites => lostAge[req[r].wallet] < Trusted + Patience + GrantTtl + req[r].age
    /\ ~published => offAge < Patience + GrantTtl + req[r].age
    /\ grants[req[r].grant].revokedAge <= req[r].age

\* Where a transfer read again may clear the mark of a row that is wrong, nothing bounds whom the index shows.
MediaIInv == MediaTypeOK /\ IndexRecent /\ RequestsRecent /\ GrantsRecent /\ ServesRecent
=============================================================================
