------------------------------- MODULE Playback -------------------------------
(***************************************************************************)
(* The shared player of the web front end and the wallet session it plays  *)
(* for (src/lib/audio.js, src/lib/WalletContext.jsx and the components     *)
(* that unlock a track).  A click, a media event, an ownership refresh and *)
(* an answer of the gateway each run to their next await; whatever         *)
(* happens in between may have changed the track, the queue or the wallet. *)
(*                                                                         *)
(* Every track is protected and has a public preview.  Left out: volume,   *)
(* position, whether the element plays or is paused, what is reported to   *)
(* the user.  The generation and the authorization epoch a task remembers  *)
(* are represented by whether they are still the current ones, and how     *)
(* often and how long ago a stream was renewed by whether it ever was.     *)
(***************************************************************************)
EXTENDS Integers, SequencesExt

CONSTANTS
  Tracks, Wallets,
  NoWallet,
  MaxRequests,   \* bound: grants asked for
  MaxSignIns     \* bound: signatures asked for at the same time

PlaybackAssumption ==
  /\ Tracks # {} /\ NoWallet \notin Wallets /\ {MaxRequests, MaxSignIns} \subseteq Nat

VARIABLES
  queue, current,   \* the tracks queued and the one the player is on
  element,          \* the audio element: whether it exists, its source, whether it failed
  owned,            \* the tracks the wallet holds as the browser sees it
  wallet,           \* WalletContext: the account, sign-ins under way, an empty ownership still to be pushed, whether the
                    \* provider's events are listened to; history: a session taken since the account went
  auth,             \* mediaAuthorization: the wallet
  grants,           \* mediaGrants: the grant of each track, 0 for none; grant i answers request i
  granted,          \* grantedKeys
  expired,          \* tracks whose grant is past expiresAt
  renewed,          \* tracks whose stream was ever renewed
  requests          \* requests sent, with the tasks awaiting each, in order

vars == <<queue, current, element, owned, wallet, auth, grants, granted, expired, renewed, requests>>
unaffected == <<owned, wallet, auth, granted, expired>>

-----------------------------------------------------------------------------
NoSource == [track |-> "none", grant |-> 0]
Preview(t) == [track |-> t, grant |-> 0]
Stream(t, i) == [track |-> t, grant |-> i]

NoGrants == [t \in Tracks |-> 0]

Init ==
  /\ queue = Tracks /\ current \in Tracks
  /\ element = [made |-> FALSE, source |-> NoSource, error |-> FALSE]
  /\ owned = {} /\ wallet = [account |-> NoWallet, signing |-> {}, clearing |-> FALSE, wired |-> FALSE, late |-> FALSE]
  /\ auth = NoWallet
  /\ grants = NoGrants /\ granted = {} /\ expired = {}
  /\ renewed = {}
  /\ requests = <<>>

Authorized(t) == grants[t] # 0 /\ t \notin expired
CanRequest(t, own) == auth # NoWallet /\ t \in own \cup granted

\* What the element is to be loaded with: a holder who is signed in waits for the grant.
SrcFor(t, own) ==
  IF grants[t] # 0 THEN Stream(t, grants[t])
  ELSE IF t \in own /\ auth # NoWallet THEN NoSource ELSE Preview(t)

Loaded(source) == [made |-> TRUE, source |-> source, error |-> FALSE]

\* The same source is reused unless the element failed.
LoadSource(source) ==
  IF element.source = source /\ ~element.error THEN [element EXCEPT !.made = TRUE] ELSE Loaded(source)

\* The generation moves on: what the tasks wait for will find them superseded, and they do nothing.
Outdated(reqs) == [i \in DOMAIN reqs |-> [reqs[i] EXCEPT !.tasks = <<>>]]

\* The authorization epoch moves on: the answers of the requests made so far will be dropped.
Dropped(reqs) == [i \in DOMAIN reqs |-> [reqs[i] EXCEPT !.shared = FALSE]]

\* resolveProtectedSource without a valid grant: joins the request for the track, or sends one; a second task of one
\* kind finds nothing left to do after the first.
Shared(reqs, t) == {i \in DOMAIN reqs : reqs[i].shared /\ reqs[i].track = t}
Asked(reqs, t, kind) ==
  IF Shared(reqs, t) # {}
  THEN [i \in DOMAIN reqs |-> IF i \in Shared(reqs, t) /\ kind \notin ToSet(reqs[i].tasks)
                               THEN [reqs[i] EXCEPT !.tasks = Append(@, kind)] ELSE reqs[i]]
  ELSE Append(reqs, [track |-> t, wallet |-> auth, by |-> "player", shared |-> TRUE, pending |-> TRUE, tasks |-> <<kind>>])

(***************************************************************************)
(* setTrack: the element gets the source of the track, and a grant that is *)
(* missing is asked for, to be swapped in when it arrives.                 *)
(***************************************************************************)
SetTrack(t, reqs, own) ==
  /\ current' = t
  /\ element' = LoadSource(SrcFor(t, own))
  /\ requests' = IF CanRequest(t, own) /\ ~Authorized(t) THEN Asked(Outdated(reqs), t, "set") ELSE Outdated(reqs)

Within == Len(requests') <= MaxRequests

-----------------------------------------------------------------------------
\* What the visitor does.

MustAsk(t) == t \in owned \cup granted /\ ~Authorized(t)

\* play(index), next, previous and the end of a track: a track of the queue, now or when its grant has come.
Play(t) ==
  /\ t \in queue
  /\ IF ~MustAsk(t) THEN SetTrack(t, requests, owned)
     ELSE /\ requests' = IF auth = NoWallet THEN requests ELSE Asked(requests, t, "play")
          /\ UNCHANGED <<current, element>>
  /\ Within /\ UNCHANGED <<queue, grants, renewed, unaffected>>

\* A page's play button: setQueue empties the element and queues the track alone, play(0) follows.
Select(t) ==
  /\ queue' = {t} /\ current' = t
  /\ IF ~MustAsk(t)
     THEN element' = Loaded(SrcFor(t, owned)) /\ requests' = Outdated(requests)
     ELSE /\ element' = [element EXCEPT !.source = NoSource, !.error = FALSE]
          /\ requests' = IF auth = NoWallet THEN Outdated(requests) ELSE Asked(Outdated(requests), t, "play")
  /\ Within /\ UNCHANGED <<grants, renewed, unaffected>>

\* play() without an index: onto the source as it is now, or setTrack when the element is empty.
Resumed(reqs) ==
  IF element.source = NoSource THEN SetTrack(current, reqs, owned)
  ELSE /\ element' = IF SrcFor(current, owned) = NoSource THEN element ELSE LoadSource(SrcFor(current, owned))
       /\ requests' = reqs /\ UNCHANGED current

Resume ==
  /\ IF ~MustAsk(current) THEN Resumed(requests)
     ELSE /\ requests' = IF auth = NoWallet THEN requests ELSE Asked(requests, current, "resume")
          /\ UNCHANGED <<current, element>>
  /\ Within /\ UNCHANGED <<queue, grants, renewed, unaffected>>

\* A page asks for a grant of its own, for the account that is signed in.
Unlock(t) ==
  /\ wallet.account # NoWallet /\ auth = wallet.account
  /\ requests' = Append(requests, [track |-> t, wallet |-> auth, by |-> "page", shared |-> FALSE, pending |-> TRUE, tasks |-> <<>>])
  /\ Within /\ UNCHANGED <<queue, current, element, grants, renewed, unaffected>>

-----------------------------------------------------------------------------
\* What the gateway answers.

\* Mutant: the answer is kept whatever became of the wallet session.
StoredAlways(i) == TRUE

\* A grant issued for a wallet session that has since changed is dropped.
Stored(i) == requests[i].shared

Closed(reqs, i) == [reqs EXCEPT ![i] = [@ EXCEPT !.shared = FALSE, !.pending = FALSE, !.tasks = <<>>]]
Fruitless == [track |-> "none", wallet |-> NoWallet, by |-> "none", shared |-> FALSE, pending |-> FALSE, tasks |-> <<>>]

\* The tasks awaiting request i resume in the order they came: a play, or a resume onto an empty element, sets the track
\* and outdates those that wait for others; the rest swap the source under the track they were for.
SetsTrack(i) ==
  "play" \in ToSet(requests[i].tasks) \/ (element.source = NoSource /\ requests[i].tasks # <<>> /\ Head(requests[i].tasks) = "resume")

Granted(i) ==
  /\ requests[i].pending /\ requests[i].by = "player"
  /\ LET t == requests[i].track IN
     IF ~Stored(i) THEN requests' = [requests EXCEPT ![i] = Fruitless] /\ UNCHANGED <<current, element, grants, granted, expired>>
     ELSE /\ grants' = [grants EXCEPT ![t] = i] /\ granted' = granted \cup {t} /\ expired' = expired \ {t}
          /\ element' = IF requests[i].tasks = <<>> THEN element ELSE Loaded(Stream(t, i))
          /\ current' = IF SetsTrack(i) THEN t ELSE current
          /\ requests' = IF SetsTrack(i) THEN Outdated(Closed(requests, i)) ELSE Closed(requests, i)
  /\ UNCHANGED <<queue, owned, wallet, auth, renewed>>

\* playGranted, whatever happened since the page asked.
UnlockGranted(i) ==
  /\ requests[i].pending /\ requests[i].by = "page"
  /\ LET t == requests[i].track IN
     /\ grants' = [grants EXCEPT ![t] = i] /\ granted' = granted \cup {t} /\ expired' = expired \ {t}
     /\ queue' = {t} /\ current' = t /\ element' = Loaded(Stream(t, i))
  /\ requests' = Outdated(Closed(requests, i))
  /\ UNCHANGED <<owned, wallet, auth, renewed>>

\* The gateway refuses or cannot be reached: those who waited only report it.
Denied(i) ==
  /\ requests[i].pending /\ requests' = [requests EXCEPT ![i] = Fruitless]
  /\ UNCHANGED <<queue, current, element, grants, renewed, unaffected>>

Expire(t) ==
  /\ grants[t] # 0 /\ t \notin expired /\ expired' = expired \cup {t}
  /\ UNCHANGED <<queue, current, element, owned, wallet, auth, grants, granted, renewed, requests>>

\* The element fails: a protected stream of this session is renewed, unless it was renewed lately or too often.
Renewable ==
  /\ element.source.grant # 0 /\ element.source.grant = grants[current]
  /\ current \in granted /\ auth # NoWallet

Break ==
  /\ element.source # NoSource /\ ~element.error
  /\ element' = [element EXCEPT !.error = TRUE]
  /\ \/ /\ Renewable
        /\ renewed' = renewed \cup {current}
        /\ grants' = [grants EXCEPT ![current] = 0] /\ expired' = expired \ {current}
        /\ requests' = Asked(requests, current, "renew")
     \/ /\ ~Renewable \/ current \in renewed
        /\ UNCHANGED <<renewed, grants, expired, requests>>
  /\ Within /\ UNCHANGED <<queue, current, owned, wallet, auth, granted>>

-----------------------------------------------------------------------------
\* The wallet.

\* setMediaAuthorization; another wallet than before forgets what was granted.
Authorize(w) ==
  /\ auth' = w
  /\ IF w = auth THEN UNCHANGED <<grants, granted, expired, requests>>
     ELSE grants' = NoGrants /\ granted' = {} /\ expired' = {} /\ requests' = Outdated(Dropped(requests))

\* clearAuthentication: revokeMediaGrants, then no authorization.
ClearAuthentication ==
  /\ auth' = NoWallet /\ grants' = NoGrants /\ granted' = {} /\ expired' = {}
  /\ requests' = IF auth = NoWallet THEN Dropped(requests) ELSE Outdated(Dropped(requests))

\* connect, a session restored, authenticate: the account is taken, its provider wired, and a signature asked of it.
Connect(w) ==
  /\ wallet' = [wallet EXCEPT !.account = w, !.signing = @ \cup {w}, !.wired = TRUE, !.late = FALSE]
  /\ Cardinality(wallet'.signing) <= MaxSignIns
  /\ UNCHANGED <<queue, current, element, owned, auth, grants, granted, expired, renewed, requests>>

\* The provider reports another account, also after it had reported that there is none.
ChangeAccount(w) ==
  /\ wallet.wired /\ ClearAuthentication
  /\ wallet' = [wallet EXCEPT !.account = w, !.late = FALSE]
  /\ UNCHANGED <<queue, current, element, owned, renewed>>

\* It reports another chain, whether there is an account or not: nothing is pushed to the player.
ChangeChain ==
  /\ wallet.wired /\ ClearAuthentication
  /\ UNCHANGED <<queue, current, element, owned, wallet, renewed>>

\* It reports that no account is left: an effect will push an empty ownership to the player.
LoseAccount ==
  /\ wallet.wired /\ ClearAuthentication
  /\ wallet' = [wallet EXCEPT !.account = NoWallet, !.clearing = TRUE, !.late = FALSE]
  /\ UNCHANGED <<queue, current, element, owned, renewed>>

\* The visitor disconnects: the same, and the provider is listened to no more.
Disconnect ==
  /\ ClearAuthentication
  /\ wallet' = [wallet EXCEPT !.account = NoWallet, !.clearing = TRUE, !.wired = FALSE, !.late = FALSE]
  /\ UNCHANGED <<queue, current, element, owned, renewed>>

\* The wallet signed; the session is taken whichever account is connected by then, or none.
SignedIn(w) ==
  /\ w \in wallet.signing
  /\ wallet' = [wallet EXCEPT !.signing = @ \ {w}, !.late = @ \/ wallet.account = NoWallet]
  /\ Authorize(w)
  /\ UNCHANGED <<queue, current, element, owned, renewed>>

SignInFails(w) ==
  /\ w \in wallet.signing /\ wallet' = [wallet EXCEPT !.signing = @ \ {w}]
  /\ UNCHANGED <<queue, current, element, owned, auth, grants, granted, expired, renewed, requests>>

\* setOwnership: whatever the reader found for the account, or for one that has gone since; the current track is set again.
SetOwnership(tracks) ==
  /\ owned' = tracks /\ wallet' = [wallet EXCEPT !.clearing = FALSE]
  /\ IF element.made THEN SetTrack(current, requests, tracks) ELSE UNCHANGED <<current, element, requests>>
  /\ Within /\ UNCHANGED <<queue, auth, grants, granted, expired, renewed>>

Next ==
  \/ \E t \in Tracks : Play(t) \/ Select(t) \/ Unlock(t) \/ Expire(t)
  \/ Resume \/ Break
  \/ \E i \in DOMAIN requests : Granted(i) \/ UnlockGranted(i) \/ Denied(i)
  \/ \E w \in Wallets : Connect(w) \/ ChangeAccount(w) \/ SignedIn(w) \/ SignInFails(w)
  \/ ChangeChain \/ LoseAccount \/ Disconnect
  \/ \E tracks \in SUBSET Tracks : SetOwnership(tracks)

Spec == Init /\ [][Next]_vars

-----------------------------------------------------------------------------
Sources == {NoSource} \cup [track : Tracks, grant : 0..MaxRequests]
Request ==
  [track : Tracks \cup {"none"}, wallet : Wallets \cup {NoWallet}, by : {"player", "page", "none"},
   shared : BOOLEAN, pending : BOOLEAN, tasks : Seq({"play", "set", "resume", "renew"})]

TypeOK ==
  /\ queue \in SUBSET Tracks /\ current \in queue
  /\ element \in [made : BOOLEAN, source : Sources, error : BOOLEAN]
  /\ owned \subseteq Tracks /\ granted \subseteq Tracks
  /\ wallet \in [account : Wallets \cup {NoWallet}, signing : SUBSET Wallets, clearing : BOOLEAN, wired : BOOLEAN, late : BOOLEAN]
  /\ auth \in Wallets \cup {NoWallet}
  /\ grants \in [Tracks -> 0..MaxRequests] /\ expired \subseteq Tracks /\ renewed \subseteq Tracks
  /\ requests \in Seq(Request) /\ Len(requests) <= MaxRequests

\* The element never holds a source of another track than the one shown, however late an answer comes.
SourceOfTrack == element.source # NoSource => element.source.track = current

(***************************************************************************)
(* Of the grants the player asked for it keeps only those of the wallet    *)
(* that is authorized now, however accounts, sign-ins and answers          *)
(* interleave.  A page that asked itself is not held to it: UnlockGranted. *)
(***************************************************************************)
OfPlayer(i) == i # 0 /\ requests[i].by = "player"

GrantsOfSession == \A t \in Tracks : OfPlayer(grants[t]) => requests[grants[t]].wallet = auth

(***************************************************************************)
(* Once there is no account and the player was told, no stream it asked    *)
(* for is left on the element, whatever was asked, granted, renewed or     *)
(* signed before.  Set apart: a sign-in that outlived the account and was  *)
(* taken since; its streams stay when only the chain changes after it.     *)
(***************************************************************************)
Relocked ==
  wallet.account = NoWallet /\ ~wallet.clearing /\ ~wallet.late => ~OfPlayer(element.source.grant)

(***************************************************************************)
(* Why they hold.  What may still be kept was asked for by the wallet of   *)
(* the session; a task that will not set the track waits for the one the   *)
(* player is on, and every other for one of the queue; without an account  *)
(* there is no authorization, unless a sign-in came late.                  *)
(***************************************************************************)
Due(r, w, t, tracks) ==
  /\ r.by # "none" => r.track \in Tracks /\ r.wallet \in Wallets
  /\ r.shared => r.by = "player" /\ r.wallet = w
  /\ r.tasks # <<>> => r.by = "player" /\ r.track \in tracks
  /\ ToSet(r.tasks) \ {"play"} # {} => r.track = t

Signed == wallet.account = NoWallet /\ ~wallet.late => auth = NoWallet

Answers(i) == i = 0 \/ i \in DOMAIN requests

IInv ==
  /\ TypeOK /\ SourceOfTrack /\ GrantsOfSession /\ Relocked /\ Signed
  /\ \A i \in DOMAIN requests : Due(requests[i], auth, current, queue)
  /\ Answers(element.source.grant) /\ \A t \in Tracks : Answers(grants[t])
  /\ ~element.made => element.source = NoSource
=============================================================================
