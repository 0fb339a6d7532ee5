-------------------------------- MODULE Account --------------------------------
(***************************************************************************)
(* A wallet signs in, and connects its account on X: challenges, sessions  *)
(* and OAuth attempts (server/auth.js, server/x-link.js, their statements  *)
(* in server/repositories.js).  A request is a step per statement and per  *)
(* call to X; others run in between, it may die at any of them, and a      *)
(* client may send the same one again.                                     *)
(*                                                                         *)
(* A challenge stands for its nonce, and a session for the challenge it    *)
(* answers: what a caller sends is the hash of one or the other.           *)
(*                                                                         *)
(* Left out: the fields of a challenge other than its wallet, rate limits, *)
(* the reading of a link, the audit of one.                                *)
(***************************************************************************)
EXTENDS Integers

CONSTANTS
  Wallets, XUsers,
  Nonces,          \* bound: challenges ever issued
  Attempts,        \* bound: attempts ever started, each with its state
  Requests         \* requests served at the same time

AccountAssumption == "none" \notin Wallets

VARIABLES
  nonces,      \* auth_nonces
  sessions,    \* auth_sessions: how many ever answered a challenge, and whether they are live
  attempts,    \* x_link_attempts, and who approved each at X
  links,       \* x_account_links: the X user connected to a wallet
  request      \* request[r]: what r is in the middle of

vars == <<nonces, sessions, attempts, links, request>>

-----------------------------------------------------------------------------
None == "none"
NoNonce == [wallet |-> None, consumed |-> FALSE, expired |-> FALSE]
NoAttempt == [wallet |-> None, session |-> None, consumed |-> FALSE, expired |-> FALSE,
              approved |-> {}]
NoRequest == [step |-> "idle", nonce |-> None, attempt |-> None, user |-> None]

Init ==
  /\ nonces = [n \in Nonces |-> NoNonce]
  /\ sessions = [n \in Nonces |-> [made |-> 0, live |-> FALSE]]
  /\ attempts = [s \in Attempts |-> NoAttempt]
  /\ links = [w \in Wallets |-> None]
  /\ request = [r \in Requests |-> NoRequest]

Turn(r, step, n) == request' = [request EXCEPT ![r] = [NoRequest EXCEPT !.step = step, !.nonce = n]]
Done(r) == request' = [request EXCEPT ![r] = NoRequest]

-----------------------------------------------------------------------------
\* Signing in.

CreateChallenge(n, w) ==
  /\ nonces[n] = NoNonce
  /\ nonces' = [nonces EXCEPT ![n].wallet = w]
  /\ UNCHANGED <<sessions, attempts, links, request>>

\* Mutant: whether it was used is not looked at again when it is consumed.
OpenWhateverUsed(n) == nonces[n].wallet # None /\ ~nonces[n].expired

Open(n) == nonces[n].wallet # None /\ ~nonces[n].consumed /\ ~nonces[n].expired

\* verifyChallenge reads the challenge and checks the signature of its wallet ...
ReadChallenge(r, n) ==
  /\ request[r].step = "idle" /\ nonces[n].wallet # None /\ ~nonces[n].consumed /\ ~nonces[n].expired
  /\ Turn(r, "consume", n)
  /\ UNCHANGED <<nonces, sessions, attempts, links>>

\* ... consumes it, one conditional UPDATE ...
ConsumeNonce(r) ==
  /\ request[r].step = "consume"
  /\ LET n == request[r].nonce IN
     IF Open(n)
     THEN nonces' = [nonces EXCEPT ![n].consumed = TRUE] /\ Turn(r, "session", n)
     ELSE Done(r) /\ UNCHANGED nonces
  /\ UNCHANGED <<sessions, attempts, links>>

\* ... and makes the session.
CreateSession(r) ==
  /\ request[r].step = "session"
  /\ sessions' = [sessions EXCEPT ![request[r].nonce] = [made |-> @.made + 1, live |-> TRUE]]
  /\ Done(r)
  /\ UNCHANGED <<nonces, attempts, links>>

Expire(n) ==
  /\ nonces[n].wallet # None /\ ~nonces[n].expired
  /\ nonces' = [nonces EXCEPT ![n].expired = TRUE]
  /\ UNCHANGED <<sessions, attempts, links, request>>

SessionExpires(n) ==
  /\ sessions[n].live
  /\ sessions' = [sessions EXCEPT ![n].live = FALSE]
  /\ UNCHANGED <<nonces, attempts, links, request>>

-----------------------------------------------------------------------------
\* Connecting an account on X, in a session.

Wallet(n) == nonces[n].wallet
Pending(s) == attempts[s].wallet # None /\ ~attempts[s].consumed /\ ~attempts[s].expired

\* start: the wallet's older attempts are consumed ...
StartLink(r, n) ==
  /\ request[r].step = "idle" /\ sessions[n].live
  /\ attempts' = [s \in Attempts |-> IF attempts[s].wallet = Wallet(n) THEN [attempts[s] EXCEPT !.consumed = TRUE] ELSE attempts[s]]
  /\ Turn(r, "attempt", n)
  /\ UNCHANGED <<nonces, sessions, links>>

\* ... and then a new one is inserted, under an id of its own.
NewAttempt == CHOOSE s \in Attempts : attempts[s] = NoAttempt

InsertAttempt(r) ==
  /\ request[r].step = "attempt" /\ \E s \in Attempts : attempts[s] = NoAttempt
  /\ attempts' = [attempts EXCEPT ![NewAttempt] = [NoAttempt EXCEPT !.wallet = Wallet(request[r].nonce), !.session = request[r].nonce]]
  /\ Done(r)
  /\ UNCHANGED <<nonces, sessions, links>>

\* At X, somebody follows the link of an attempt and approves it.
Approve(s, u) ==
  /\ attempts[s].wallet # None /\ attempts[s].approved = {}
  /\ attempts' = [attempts EXCEPT ![s].approved = {u}]
  /\ UNCHANGED <<nonces, sessions, links, request>>

BelongsTo(s, n) == attempts[s].wallet = Wallet(n) /\ attempts[s].session = n

\* complete: the attempt is consumed by a conditional UPDATE; X may also have answered with an error.
ConsumeAttempt(r, s, n) ==
  /\ request[r].step = "idle" /\ sessions[n].live
  /\ Pending(s) /\ BelongsTo(s, n)
  /\ attempts' = [attempts EXCEPT ![s].consumed = TRUE]
  /\ IF attempts[s].approved = {} THEN Done(r)
     ELSE request' = [request EXCEPT ![r] = [NoRequest EXCEPT !.step = "exchange", !.nonce = n, !.attempt = s]]
  /\ UNCHANGED <<nonces, sessions, links>>

\* The code is exchanged and the identity fetched, or X refuses or cannot be reached.
Exchange(r) ==
  /\ request[r].step = "exchange"
  /\ \/ \E u \in attempts[request[r].attempt].approved : request' = [request EXCEPT ![r].step = "save", ![r].user = u]
     \/ Done(r)
  /\ UNCHANGED <<nonces, sessions, attempts, links>>

\* One wallet per X user (UNIQUE), and no other user for a connected wallet (DO UPDATE ... WHERE).
Free(w, u) == links[w] \in {None, u} /\ \A v \in Wallets \ {w} : links[v] # u

SaveLink(r) ==
  /\ request[r].step = "save"
  /\ LET w == Wallet(request[r].nonce) IN
     links' = IF Free(w, request[r].user) THEN [links EXCEPT ![w] = request[r].user] ELSE links
  /\ Done(r)
  /\ UNCHANGED <<nonces, sessions, attempts>>

Disconnect(n) ==
  /\ sessions[n].live /\ links[Wallet(n)] # None
  /\ links' = [links EXCEPT ![Wallet(n)] = None]
  /\ UNCHANGED <<nonces, sessions, attempts, request>>

AttemptExpires(s) ==
  /\ Pending(s)
  /\ attempts' = [attempts EXCEPT ![s].expired = TRUE]
  /\ UNCHANGED <<nonces, sessions, links, request>>

-----------------------------------------------------------------------------
\* The process dies with its requests.
Die(r) ==
  /\ request[r].step # "idle"
  /\ Done(r)
  /\ UNCHANGED <<nonces, sessions, attempts, links>>

Serve(r) ==
  \/ \E n \in Nonces : ReadChallenge(r, n) \/ StartLink(r, n) \/ \E s \in Attempts : ConsumeAttempt(r, s, n)
  \/ InsertAttempt(r) \/ ConsumeNonce(r) \/ CreateSession(r) \/ Exchange(r) \/ SaveLink(r) \/ Die(r)

Next ==
  \/ \E n \in Nonces : Expire(n) \/ SessionExpires(n) \/ Disconnect(n) \/ \E w \in Wallets : CreateChallenge(n, w)
  \/ \E s \in Attempts : AttemptExpires(s) \/ \E u \in XUsers : Approve(s, u)
  \/ \E r \in Requests : Serve(r)

Spec == Init /\ [][Next]_vars

-----------------------------------------------------------------------------
\* Type correctness of the tables and requests.
Nonce == [wallet : Wallets \cup {None}, consumed : BOOLEAN, expired : BOOLEAN]
Attempt == [wallet : Wallets \cup {None}, session : Nonces \cup {None}, consumed : BOOLEAN, expired : BOOLEAN,
            approved : SUBSET XUsers]
Request == [step : {"idle", "consume", "session", "attempt", "exchange", "save"},
            nonce : Nonces \cup {None}, attempt : Attempts \cup {None}, user : XUsers \cup {None}]

TypeOK ==
  /\ nonces \in [Nonces -> Nonce]
  /\ sessions \in [Nonces -> [made : Nat, live : BOOLEAN]]
  /\ attempts \in [Attempts -> Attempt]
  /\ links \in [Wallets -> XUsers \cup {None}]
  /\ request \in [Requests -> Request]

(***************************************************************************)
(* A signature opens one session: the same signed challenge sent twice, at *)
(* once or again after the answer was lost, never opens another.           *)
(***************************************************************************)
OneSessionPerNonce == \A n \in Nonces : sessions[n].made <= 1

(***************************************************************************)
(* A connection is proven: whoever is connected to a wallet approved, at   *)
(* X, an attempt that this wallet itself had started.                      *)
(***************************************************************************)
LinkProven ==
  \A w \in Wallets : links[w] # None => \E s \in Attempts : attempts[s].wallet = w /\ links[w] \in attempts[s].approved

(***************************************************************************)
(* Why they hold.  A session is opened only by the request that consumed   *)
(* its challenge, and no two requests can have consumed the same one.      *)
(***************************************************************************)
Opening(r, n) == request[r].step = "session" /\ request[r].nonce = n
ConsumedOnce ==
  \A n \in Nonces :
    /\ sessions[n].live => sessions[n].made = 1
    /\ sessions[n].made = 1 => nonces[n].consumed
    /\ \A r \in Requests : Opening(r, n) => nonces[n].consumed /\ sessions[n].made = 0
    /\ \A q, r \in Requests : Opening(q, n) /\ Opening(r, n) => q = r

\* A request is served for a challenge that a wallet was given.
Answerable ==
  /\ \A n \in Nonces : nonces[n].consumed => nonces[n].wallet # None
  /\ \A r \in Requests : request[r].step # "idle" => request[r].nonce \in Nonces /\ Wallet(request[r].nonce) # None

\* A completion under way is of an attempt of its wallet, and saves a user who approved that attempt.
Completing ==
  \A r \in Requests : request[r].step \in {"exchange", "save"} =>
    /\ request[r].attempt \in Attempts
    /\ attempts[request[r].attempt].wallet = Wallet(request[r].nonce)
    /\ request[r].step = "save" => request[r].user \in attempts[request[r].attempt].approved

IInv == TypeOK /\ OneSessionPerNonce /\ LinkProven /\ ConsumedOnce /\ Answerable /\ Completing
=============================================================================
