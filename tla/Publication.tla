----------------------------- MODULE Publication ------------------------------
(***************************************************************************)
(* Publishing the tracks of one release that has a sequential contract     *)
(* (server/studio-service.js): a track takes the next token number when it *)
(* is first saved; its metadata is stored, the wallet sends the creating   *)
(* transaction, the attempt is recorded and confirmed against the chain.   *)
(*                                                                         *)
(* Requests read rows, await, and write whole rows later, each statement   *)
(* its own transaction except for the first save of a track.  Tabs work at *)
(* the same time and may be closed, or the server die, between two         *)
(* statements.  A creation on chain is found from its number, so hashes    *)
(* are not modelled.                                                       *)
(*                                                                         *)
(* Left out: provenance proofs, royalties and the creator's wallet (checks *)
(* of the same receipt), experiences, and taking a release off the site.   *)
(***************************************************************************)
EXTENDS Naturals, Sequences, FiniteSets

CONSTANTS
  Tabs,       \* Studio tabs and scripts of the artist
  Nobody,
  Editions,   \* edition ids
  Uris,       \* metadata documents; NoUri is not one of them
  NoUri,
  MaxSent,    \* bound: creating transactions ever sent
  Overtake,   \* metadata may be stored after another tab had the track created or began to confirm it
  Repost      \* a draft whose metadata is stored may be saved by createEdition again

\* What the constants may be; a run that instantiates the module assumes it.
PublicationAssumption ==
  /\ Nobody \notin Tabs /\ NoUri \notin Uris
  /\ IsFiniteSet(Editions) /\ MaxSent \in Nat
  /\ Overtake \in BOOLEAN /\ Repost \in BOOLEAN

VARIABLES
  editions,    \* rows of the editions table
  numbers,     \* numbers[n]: the token row n of the release contract
  releaseRow,  \* status of the release
  releaseLock, \* transaction that holds the release row FOR UPDATE
  created,     \* created[n]: URI of edition n on chain; nextTokenId is one past the end
  sent,        \* creating transactions not mined yet
  count,       \* transactions sent so far
  tab          \* what each tab is doing

pubVars == <<editions, numbers, releaseRow, releaseLock, created, sent, count, tab>>
database == <<editions, numbers, releaseRow, releaseLock>>
chainState == <<created, sent, count>>

-----------------------------------------------------------------------------
\* attempt is application_metadata.publicationAttempt: its frozen URI, and whether it is confirmed.
NoAttempt == [uri |-> NoUri, confirmed |-> FALSE]
NoEdition == [status |-> "NONE", attempt |-> NoAttempt]
NotUsed == [edition |-> Nobody, uri |-> NoUri]

Resting == [step |-> "idle", e |-> Nobody, n |-> 0, row |-> NoEdition, uri |-> NoUri, accept |-> FALSE]

PubInit ==
  /\ editions = [e \in Editions |-> NoEdition]
  /\ numbers = <<>>
  /\ releaseRow = "DRAFT"
  /\ releaseLock = Nobody
  /\ created = <<>> /\ sent = {} /\ count = 0
  /\ tab = [t \in Tabs |-> Resting]

NumberOf(e) == CHOOSE n \in DOMAIN numbers : numbers[n].edition = e
OpenNumbers == {n \in DOMAIN numbers : editions[numbers[n].edition].status = "DRAFT"}
OnChain(n) == n <= Len(created)
NextTokenId == Len(created) + 1

(***************************************************************************)
(* The track that is published or confirmed next: the lowest open number,  *)
(* and with none open, the track created last.                             *)
(***************************************************************************)
Candidate ==
  IF OpenNumbers # {} THEN CHOOSE n \in OpenNumbers : \A m \in OpenNumbers : n <= m
  ELSE Len(numbers)

Go(t, s) == tab' = [tab EXCEPT ![t] = s]
Rest(t) == Go(t, Resting)

-----------------------------------------------------------------------------
\* createEdition: a new track, in one transaction under the release row's lock.

CreateRead(t, e) ==
  /\ tab[t].step = "idle" /\ editions[e].status = "NONE"
  /\ Go(t, [Resting EXCEPT !.step = "new", !.e = e])
  /\ UNCHANGED <<database, chainState>>

\* reserveSequentialTokenId: the track's own number, or the one after every number there is.
Reserved(e) == IF editions[e].status = "NONE" THEN Len(numbers) + 1 ELSE NumberOf(e)

CreateLock(t) ==
  /\ tab[t].step = "new" /\ releaseLock = Nobody
  /\ releaseLock' = t
  /\ Go(t, [tab[t] EXCEPT !.step = "creating", !.n = Reserved(tab[t].e)])
  /\ UNCHANGED <<editions, numbers, releaseRow, chainState>>

\* saveToken: INSERT, or on a conflict the row goes to the edition that asks unless a published one has it.
SaveToken(n, e, uri) ==
  numbers' = IF n \notin DOMAIN numbers THEN Append(numbers, [edition |-> e, uri |-> uri])
             ELSE IF numbers[n].edition = e \/ editions[numbers[n].edition].status # "PUBLISHED"
                  THEN [numbers EXCEPT ![n] = [edition |-> e, uri |-> uri]]
             ELSE numbers

\* No tab has track n on chain, submitted or about to be confirmed.
Undisturbed(n) ==
  /\ ~OnChain(n) /\ editions[numbers[n].edition].attempt = NoAttempt
  /\ \A u \in Tabs : tab[u].step \in {"verify", "adopt", "edition"} => tab[u].n # n

\* Bound: a track is posted again only before its metadata is stored.
Anew(n) == Repost \/ (numbers[n].uri = NoUri /\ Undisturbed(n))

\* The second of two posts of one new id finds the row of the first.
CreateCommit(t) ==
  LET e == tab[t].e
  IN  /\ tab[t].step = "creating"
      /\ editions[e].status # "NONE" => Anew(tab[t].n)
      /\ editions' = [editions EXCEPT ![e] = [NoEdition EXCEPT !.status = "DRAFT"]]
      /\ SaveToken(tab[t].n, e, NoUri)
      /\ releaseLock' = IF releaseLock = t THEN Nobody ELSE releaseLock
      /\ Rest(t)
      /\ UNCHANGED <<releaseRow, chainState>>

-----------------------------------------------------------------------------
\* Requests that read an edition and save the whole row later.

\* createEdition with the id of an open draft.
RepostRead(t, e) ==
  /\ tab[t].step = "idle" /\ editions[e].status = "DRAFT"
  /\ Go(t, [Resting EXCEPT !.step = "repost", !.e = e, !.n = NumberOf(e)])
  /\ UNCHANGED <<database, chainState>>

RepostSave(t) ==
  /\ tab[t].step = "repost" /\ releaseLock = Nobody
  /\ Anew(tab[t].n)
  /\ editions' = [editions EXCEPT ![tab[t].e] = [NoEdition EXCEPT !.status = "DRAFT"]]
  /\ SaveToken(tab[t].n, tab[t].e, NoUri)
  /\ Rest(t)
  /\ UNCHANGED <<releaseRow, releaseLock, chainState>>

\* updateEdition: a draft's metadata may be replaced, and its attempt with it; a published row is frozen.
UpdateRead(t, e, replace) ==
  LET row == editions[e]
  IN  /\ tab[t].step = "idle" /\ row.status # "NONE"
      /\ replace => row.status = "DRAFT"
      /\ Go(t, [Resting EXCEPT !.step = "update", !.e = e,
                  !.row = IF replace THEN [row EXCEPT !.attempt = NoAttempt] ELSE row])
      /\ UNCHANGED <<database, chainState>>

\* recordPublicationSubmission, unless an attempt is recorded already.
RecordRead(t) ==
  LET n == Candidate
      e == numbers[n].edition
  IN  /\ tab[t].step = "sent"
      /\ IF numbers[n].uri = NoUri \/ editions[e].attempt # NoAttempt THEN Rest(t)
         ELSE Go(t, [Resting EXCEPT !.step = "update", !.e = e,
                       !.row = [editions[e] EXCEPT !.attempt.uri = numbers[n].uri]])
      /\ UNCHANGED <<database, chainState>>

SaveEdition(t) ==
  /\ tab[t].step = "update"
  /\ editions' = [editions EXCEPT ![tab[t].e] = tab[t].row]
  /\ Rest(t)
  /\ UNCHANGED <<numbers, releaseRow, releaseLock, chainState>>

-----------------------------------------------------------------------------
\* publishMetadata, the wallet, and the chain.

MetadataRead(t) ==
  LET n == Candidate
  IN  /\ tab[t].step = "idle" /\ OpenNumbers # {}
      /\ editions[numbers[n].edition].attempt = NoAttempt
      /\ Go(t, [Resting EXCEPT !.step = "metadata", !.e = numbers[n].edition, !.n = n])
      /\ UNCHANGED <<database, chainState>>

\* onChainEdition and onChainNextTokenId; a chain that cannot be read stops nothing.
MetadataCheck(t, readable) ==
  /\ tab[t].step = "metadata"
  /\ IF ~readable \/ tab[t].n = NextTokenId THEN Go(t, [tab[t] EXCEPT !.step = "store"]) ELSE Rest(t)
  /\ UNCHANGED <<database, chainState>>

\* metadataStorage.write, then saveToken.
MetadataStore(t, uri) ==
  /\ tab[t].step = "store"
  /\ Overtake \/ Undisturbed(tab[t].n)
  /\ SaveToken(tab[t].n, tab[t].e, uri)
  /\ Go(t, [tab[t] EXCEPT !.step = "sign", !.uri = uri])
  /\ UNCHANGED <<editions, releaseRow, releaseLock, chainState>>

Sign(t) ==
  /\ tab[t].step = "sign" /\ count < MaxSent
  /\ sent' = sent \cup {[n |-> tab[t].n, uri |-> tab[t].uri]}
  /\ count' = count + 1
  /\ Go(t, [Resting EXCEPT !.step = "sent"])
  /\ UNCHANGED <<database, created>>

\* createEdition on the contract: only the next number succeeds.
Mine(tx) ==
  /\ sent' = sent \ {tx}
  /\ created' = IF tx.n = NextTokenId THEN Append(created, tx.uri) ELSE created
  /\ UNCHANGED <<database, count, tab>>

-----------------------------------------------------------------------------
\* confirmPublication.

\* The row the saves will write, from what was read.
Confirmed(row, uri) == [status |-> "PUBLISHED", attempt |-> [uri |-> uri, confirmed |-> TRUE]]

AlreadyPublished(n) ==
  LET row == editions[numbers[n].edition]
  IN  row.status # "DRAFT" /\ releaseRow = "PUBLISHED" /\ row.attempt.confirmed

ConfirmRead(t, accept) ==
  LET n == Candidate
      e == numbers[n].edition
  IN  /\ tab[t].step \in {"idle", "sent"} /\ numbers # <<>>
      /\ numbers[n].uri # NoUri
      /\ ~AlreadyPublished(n)
      /\ Go(t, [step |-> "verify", e |-> e, n |-> n, row |-> editions[e], uri |-> numbers[n].uri,
                accept |-> accept])
      /\ UNCHANGED <<database, chainState>>

(***************************************************************************)
(* What the chain must show.  With a recorded attempt the stored, the      *)
(* frozen and the created URI are one; without, another URI on chain is    *)
(* adopted if the artist accepts it.                                       *)
(***************************************************************************)
Verified(q) ==
  /\ OnChain(q.n)
  /\ IF q.row.attempt # NoAttempt THEN q.uri = q.row.attempt.uri /\ created[q.n] = q.uri
     ELSE created[q.n] = q.uri \/ q.accept

Verify(t) ==
  LET q == tab[t]
  IN  /\ q.step = "verify"
      /\ IF ~Verified(q) THEN Rest(t)
         ELSE Go(t, [q EXCEPT !.step = IF created[q.n] = q.uri THEN "edition" ELSE "adopt",
                              !.uri = created[q.n]])
      /\ UNCHANGED <<database, chainState>>

Adopt(t) ==
  /\ tab[t].step = "adopt"
  /\ SaveToken(tab[t].n, tab[t].e, tab[t].uri)
  /\ Go(t, [tab[t] EXCEPT !.step = "edition"])
  /\ UNCHANGED <<editions, releaseRow, releaseLock, chainState>>

SavePublished(t) ==
  /\ tab[t].step = "edition"
  /\ editions' = [editions EXCEPT ![tab[t].e] = Confirmed(tab[t].row, tab[t].uri)]
  /\ Go(t, [tab[t] EXCEPT !.step = "release"])
  /\ UNCHANGED <<numbers, releaseRow, releaseLock, chainState>>

SaveRelease(t) ==
  /\ tab[t].step = "release" /\ releaseLock = Nobody
  /\ releaseRow' = "PUBLISHED"
  /\ Rest(t)
  /\ UNCHANGED <<editions, numbers, releaseLock, chainState>>

-----------------------------------------------------------------------------
\* The tab is closed, the request fails or the server dies: only a transaction is undone.
Close(t) ==
  /\ tab[t].step # "idle"
  /\ releaseLock' = IF releaseLock = t THEN Nobody ELSE releaseLock
  /\ Rest(t)
  /\ UNCHANGED <<editions, numbers, releaseRow, chainState>>

PubNext ==
  \/ \E t \in Tabs :
       \/ \E e \in Editions : \/ CreateRead(t, e) \/ RepostRead(t, e)
                              \/ \E replace \in BOOLEAN : UpdateRead(t, e, replace)
       \/ CreateLock(t) \/ CreateCommit(t) \/ RepostSave(t) \/ RecordRead(t) \/ SaveEdition(t)
       \/ MetadataRead(t) \/ Sign(t)
       \/ \E readable \in BOOLEAN : MetadataCheck(t, readable)
       \/ \E uri \in Uris : MetadataStore(t, uri)
       \/ \E accept \in BOOLEAN : ConfirmRead(t, accept)
       \/ Verify(t) \/ Adopt(t) \/ SavePublished(t) \/ SaveRelease(t)
       \/ Close(t)
  \/ \E tx \in sent : Mine(tx)

PubSpec == PubInit /\ [][PubNext]_pubVars

-----------------------------------------------------------------------------
EditionRow == [status : {"NONE", "DRAFT", "PUBLISHED"}, attempt : [uri : Uris \cup {NoUri}, confirmed : BOOLEAN]]
TokenRow == [edition : Editions, uri : Uris \cup {NoUri}]
Work ==
  [step : {"idle", "new", "creating", "repost", "update", "metadata", "store", "sign", "sent",
           "verify", "adopt", "edition", "release"},
   e : Editions \cup {Nobody}, n : Nat, row : EditionRow, uri : Uris \cup {NoUri}, accept : BOOLEAN]

PubTypeOK ==
  /\ editions \in [Editions -> EditionRow] /\ numbers \in Seq(TokenRow)
  /\ releaseRow \in {"DRAFT", "PUBLISHED"} /\ releaseLock \in Tabs \cup {Nobody}
  /\ created \in Seq(Uris) /\ sent \subseteq [n : Nat, uri : Uris] /\ count \in Nat
  /\ tab \in [Tabs -> Work]

(***************************************************************************)
(* "Two tracks never share one and a track keeps the number it was given": *)
(* a saved track has exactly one number, whoever saves at the same time.   *)
(***************************************************************************)
OneNumberEach ==
  \A e \in Editions :
    Cardinality({n \in DOMAIN numbers : numbers[n].edition = e}) =
      IF editions[e].status = "NONE" THEN 0 ELSE 1

\* Without the two things the code does not exclude and that part what is stored from the chain.
Orderly == ~Overtake /\ ~Repost

(***************************************************************************)
(* A published track exists on chain, and the stored metadata URI is the   *)
(* one the chain holds, unless metadata was stored behind a creation or a  *)
(* draft posted again.                                                     *)
(***************************************************************************)
PublishedAsCreated ==
  Orderly => \A n \in DOMAIN numbers :
    editions[numbers[n].edition].status = "PUBLISHED" => OnChain(n) /\ numbers[n].uri = created[n]

(***************************************************************************)
(* A confirmation that stopped between its saves can be finished: while    *)
(* the last track is published and the release is not, a confirmation that *)
(* starts now is not told there is nothing left to do, nor refused, except *)
(* that what is stored may have left the chain (as above).                 *)
(***************************************************************************)
Finishable ==
  LET n == Len(numbers)
      row == editions[numbers[n].edition]
  IN  numbers # <<>> /\ OpenNumbers = {} /\ releaseRow # "PUBLISHED" =>
        /\ ~AlreadyPublished(n)
        /\ Orderly => /\ numbers[n].uri # NoUri
                      /\ Verified([Resting EXCEPT !.n = n, !.uri = numbers[n].uri, !.row = row])

(***************************************************************************)
(* Why they hold: a track has the number it was given, what a request read *)
(* of a track that is on chain stays so, and whoever is about to save a    *)
(* published row has seen the URI on chain, the stored one where Orderly.  *)
(***************************************************************************)
NumbersGiven ==
  /\ \A e \in Editions : editions[e].status # "NONE" <=> \E n \in DOMAIN numbers : numbers[n].edition = e
  /\ \A n, m \in DOMAIN numbers : numbers[n].edition = numbers[m].edition => n = m

Stored(n) == Orderly => OnChain(n) /\ numbers[n].uri = created[n]
StandsOnChain(e, row) ==
  row.status = "PUBLISHED" =>
    \A n \in DOMAIN numbers : numbers[n].edition = e =>
      Stored(n) /\ (Orderly => row.attempt = NoAttempt \/ row.attempt.uri = created[n])

OfTrack(q) == q.n \in DOMAIN numbers /\ numbers[q.n].edition = q.e
Grounded(q) ==
  /\ q.step = "new" => q.e \in Editions
  /\ q.step = "creating" => q.e \in Editions /\ IF editions[q.e].status = "NONE" THEN q.n = Len(numbers) + 1 ELSE OfTrack(q)
  /\ q.step \in {"repost", "metadata", "store", "sign", "verify", "adopt", "edition", "release"} => OfTrack(q)
  /\ q.step = "sign" => q.uri \in Uris
  /\ q.step = "sent" => numbers # <<>>
  /\ q.step = "verify" => Stored(q.n) \/ q.uri = numbers[q.n].uri
  /\ q.step \in {"adopt", "edition"} => OnChain(q.n) /\ q.uri = created[q.n]
  /\ q.step = "edition" => Stored(q.n)
  /\ q.step = "update" => /\ q.e \in Editions /\ editions[q.e].status # "NONE"
                          /\ q.row.status # "NONE" /\ StandsOnChain(q.e, q.row)

PubIInv ==
  /\ PubTypeOK /\ NumbersGiven
  /\ \A t \in Tabs : Grounded(tab[t]) /\ (tab[t].step = "creating" => releaseLock = t)
  /\ \A e \in Editions : StandsOnChain(e, editions[e])
=============================================================================
