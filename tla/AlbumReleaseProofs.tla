--------------------------- MODULE AlbumReleaseProofs ---------------------------
(***************************************************************************)
(* Proofs about AlbumRelease, for any wallets, roles, default limits and   *)
(* approved limits; and, last, that whichever component of MCRequests      *)
(* runs keeps its invariant, from the proofs about each.                   *)
(***************************************************************************)
EXTENDS AccessProofs, MarketProofs, StudioProofs, WorkerProofs

\* The tracks and the singles are finitely many.
LEMMA FiniteAlbum ==
  ASSUME AlbumTypeOK, Sequential
  PROVE  IsFiniteSet(Tracks) /\ IsFiniteSet(Singles)
<1>1. lastTokenId \in Int /\ 1 \in Int
  BY DEF AlbumTypeOK
<1>2. IsFiniteSet(1..lastTokenId)
  BY <1>1, FS_Interval
<1>3. Tracks \subseteq 1..lastTokenId /\ Singles \subseteq 1..lastTokenId
  BY DEF Sequential, Tracks, Singles
<1> QED BY <1>2, <1>3, FS_Subset

\* What the creation of an edition does to the numbers, and to the sets the counters count.
LEMMA TokenCreated ==
  ASSUME AlbumAssumption, AlbumSound, NEW who \in Wallets, NEW n \in Numbers, NEW payout \in Wallets,
         NEW track \in BOOLEAN, NEW single \in BOOLEAN, CreateToken(who, n, payout, track, single)
  PROVE  /\ lastTokenId' \in Nat /\ Sequential' /\ PlatformUnpaid'
         /\ editions' \in [DOMAIN editions' -> [payout : Wallets, track : BOOLEAN, single : BOOLEAN]]
         /\ n \notin Tracks /\ n \notin Singles
         /\ Tracks' = IF track THEN Tracks \cup {n} ELSE Tracks
         /\ Singles' = IF single THEN Singles \cup {n} ELSE Singles
<1> DEFINE e == [payout |-> payout, track |-> track, single |-> single]
           created == [m \in DOMAIN editions \cup {n} |-> IF m = n THEN e ELSE editions[m]]
<1>1. /\ lastTokenId \in Nat /\ DOMAIN editions = 1..lastTokenId
      /\ editions \in [DOMAIN editions -> [payout : Wallets, track : BOOLEAN, single : BOOLEAN]]
      /\ \A m \in DOMAIN editions : editions[m].payout # Platform
  BY DEF AlbumSound, AlbumTypeOK, Sequential, PlatformUnpaid
<1>2. /\ n = lastTokenId + 1 /\ n \notin DOMAIN editions /\ payout # Platform
      /\ editions' = created /\ lastTokenId' = n
  BY DEF CreateToken, NextNumber
<1>3. DOMAIN editions' = DOMAIN editions \cup {n}
  BY <1>2
<1>4. editions'[n] = e /\ \A m \in DOMAIN editions : editions'[m] = editions[m]
  BY <1>2
<1> HIDE DEF created
<1>5. e \in [payout : Wallets, track : BOOLEAN, single : BOOLEAN] /\ e.payout = payout /\ e.track = track /\ e.single = single
  OBVIOUS
<1> HIDE DEF e
<1>6. lastTokenId' \in Nat /\ Sequential'
  BY <1>1, <1>2, <1>3 DEF Sequential
<1>7. PlatformUnpaid'
  BY <1>1, <1>2, <1>3, <1>4, <1>5 DEF PlatformUnpaid
<1>8. editions' \in [DOMAIN editions' -> [payout : Wallets, track : BOOLEAN, single : BOOLEAN]]
  <2>1. editions' = [m \in DOMAIN editions' |-> editions'[m]]
    BY <1>2, <1>3 DEF created
  <2>2. \A m \in DOMAIN editions' : editions'[m] \in [payout : Wallets, track : BOOLEAN, single : BOOLEAN]
    BY <1>1, <1>3, <1>4, <1>5
  <2> QED BY <2>1, <2>2
<1>9. n \notin Tracks /\ n \notin Singles
  BY <1>2 DEF Tracks, Singles
<1>10. Tracks' = IF track THEN Tracks \cup {n} ELSE Tracks
  BY <1>2, <1>3, <1>4, <1>5 DEF Tracks
<1>11. Singles' = IF single THEN Singles \cup {n} ELSE Singles
  BY <1>2, <1>3, <1>4, <1>5 DEF Singles
<1> QED BY <1>6, <1>7, <1>8, <1>9, <1>10, <1>11

(***************************************************************************)
(* The invariant holds at the start and every step keeps it.               *)
(***************************************************************************)
LEMMA AlbumStarts ==
  ASSUME AlbumAssumption
  PROVE  AlbumInit => AlbumSound
<1> SUFFICES ASSUME AlbumInit PROVE AlbumSound
  OBVIOUS
<1>1. DOMAIN editions = {} /\ lastTokenId = 0
  BY DEF AlbumInit
<1>2. Tracks = {} /\ Singles = {}
  BY <1>1 DEF Tracks, Singles
<1>3. AlbumTypeOK
  <2>1. editions \in [DOMAIN editions -> [payout : Wallets, track : BOOLEAN, single : BOOLEAN]]
    BY <1>1, Zenon DEF AlbumInit
  <2>2. admins \subseteq Wallets /\ artists \subseteq Wallets
    BY DEF AlbumAssumption, AlbumInit
  <2>3. album \in [created : BOOLEAN, closed : BOOLEAN, tracks : Nat, singles : Nat]
    BY DEF AlbumInit
  <2>4. approved \in [expanded : BOOLEAN, tracks : Nat, singles : Nat]
    BY DEF AlbumInit
  <2>5. paused \in BOOLEAN
    BY DEF AlbumInit
  <2> QED BY <1>1, <2>1, <2>2, <2>3, <2>4, <2>5, Zenon DEF AlbumTypeOK
<1>4. Sequential /\ PlatformUnpaid /\ OfAnAlbum
  BY <1>1, <1>2 DEF Sequential, PlatformUnpaid, OfAnAlbum, AlbumInit
<1>5. Counted
  BY <1>2, FS_EmptySet DEF Counted, AlbumInit
<1>6. WithinLimits
  BY DEF AlbumAssumption, WithinLimits, TrackLimit, SingleLimit, AlbumInit
<1> QED BY <1>3, <1>4, <1>5, <1>6 DEF AlbumSound

LEMMA CreateEditionKeeps ==
  ASSUME AlbumAssumption, AlbumSound, NEW who \in Wallets, NEW n \in Numbers, NEW payout \in Wallets, CreateEdition(who, n, payout)
  PROVE  AlbumSound'
<1>1. CreateToken(who, n, payout, FALSE, FALSE) /\ UNCHANGED <<album, approved, admins, artists, paused>>
  BY DEF CreateEdition
<1>2. /\ lastTokenId' \in Nat /\ Sequential' /\ PlatformUnpaid' /\ Tracks' = Tracks /\ Singles' = Singles
      /\ editions' \in [DOMAIN editions' -> [payout : Wallets, track : BOOLEAN, single : BOOLEAN]]
  BY <1>1, TokenCreated
<1> QED BY <1>1, <1>2 DEF AlbumSound, AlbumTypeOK, Counted, WithinLimits, TrackLimit, SingleLimit, OfAnAlbum

LEMMA CreateAlbumTrackKeeps ==
  ASSUME AlbumAssumption, AlbumSound, NEW who \in Wallets, NEW n \in Numbers, NEW payout \in Wallets, NEW single \in BOOLEAN,
         CreateAlbumTrack(who, n, payout, single)
  PROVE  AlbumSound'
<1>1. /\ album.created /\ ~album.closed /\ album.tracks < TrackLimit /\ (single => album.singles < SingleLimit)
      /\ CreateToken(who, n, payout, TRUE, single) /\ UNCHANGED <<approved, admins, artists, paused>>
      /\ album' = [album EXCEPT !.tracks = @ + 1, !.singles = IF single THEN @ + 1 ELSE @]
  BY DEF CreateAlbumTrack
<1>2. /\ lastTokenId' \in Nat /\ Sequential' /\ PlatformUnpaid'
      /\ editions' \in [DOMAIN editions' -> [payout : Wallets, track : BOOLEAN, single : BOOLEAN]]
      /\ n \notin Tracks /\ n \notin Singles
      /\ Tracks' = Tracks \cup {n} /\ Singles' = IF single THEN Singles \cup {n} ELSE Singles
  <2>1. PICK track \in BOOLEAN : track = TRUE
    OBVIOUS
  <2>2. CreateToken(who, n, payout, track, single)
    BY <1>1, <2>1
  <2>3. /\ lastTokenId' \in Nat /\ Sequential' /\ PlatformUnpaid'
        /\ editions' \in [DOMAIN editions' -> [payout : Wallets, track : BOOLEAN, single : BOOLEAN]]
        /\ n \notin Tracks /\ n \notin Singles
        /\ Tracks' = IF track THEN Tracks \cup {n} ELSE Tracks
        /\ Singles' = IF single THEN Singles \cup {n} ELSE Singles
    BY <2>2, TokenCreated
  <2> QED BY <2>1, <2>3
<1>3. IsFiniteSet(Tracks) /\ IsFiniteSet(Singles)
  BY FiniteAlbum DEF AlbumSound
<1>4. Cardinality(Tracks') = Cardinality(Tracks) + 1
  BY <1>2, <1>3, FS_AddElement
<1>5. Cardinality(Singles') = IF single THEN Cardinality(Singles) + 1 ELSE Cardinality(Singles)
  BY <1>2, <1>3, FS_AddElement
<1>6. /\ album \in [created : BOOLEAN, closed : BOOLEAN, tracks : Nat, singles : Nat]
      /\ approved \in [expanded : BOOLEAN, tracks : Nat, singles : Nat]
      /\ album.tracks = Cardinality(Tracks) /\ album.singles = Cardinality(Singles)
      /\ album.tracks <= TrackLimit /\ album.singles <= SingleLimit
  BY DEF AlbumSound, AlbumTypeOK, Counted, WithinLimits
<1>7. /\ album' \in [created : BOOLEAN, closed : BOOLEAN, tracks : Nat, singles : Nat]
      /\ album'.created /\ album'.tracks = album.tracks + 1
      /\ album'.singles = IF single THEN album.singles + 1 ELSE album.singles
  <2> DEFINE s == IF single THEN album.singles + 1 ELSE album.singles
  <2>1. s \in Nat /\ album.tracks + 1 \in Nat
    BY <1>6
  <2>2. album' = [album EXCEPT !.tracks = album.tracks + 1, !.singles = s]
    BY <1>1, Zenon
  <2> HIDE DEF s
  <2>3. /\ album' \in [created : BOOLEAN, closed : BOOLEAN, tracks : Nat, singles : Nat]
        /\ album'.created = album.created /\ album'.tracks = album.tracks + 1 /\ album'.singles = s
    BY <1>6, <2>1, <2>2
  <2> QED BY <1>1, <2>3 DEF s
<1>8. AlbumTypeOK'
  BY <1>1, <1>2, <1>7 DEF AlbumSound, AlbumTypeOK
<1>9. Counted'
  BY <1>4, <1>5, <1>6, <1>7 DEF Counted
<1>10. WithinLimits'
  <2>1. TrackLimit' = TrackLimit /\ SingleLimit' = SingleLimit
    BY <1>1 DEF TrackLimit, SingleLimit
  <2>2. TrackLimit \in Nat /\ SingleLimit \in Nat
    BY <1>6 DEF AlbumAssumption, TrackLimit, SingleLimit
  <2> QED BY <1>1, <1>6, <1>7, <2>1, <2>2 DEF WithinLimits
<1>11. OfAnAlbum'
  BY <1>7 DEF OfAnAlbum
<1> QED BY <1>2, <1>8, <1>9, <1>10, <1>11 DEF AlbumSound

LEMMA ApproveKeeps ==
  ASSUME AlbumAssumption, AlbumSound, NEW who \in Wallets, NEW tracks \in 0..MaxLimit, NEW singles \in 0..MaxLimit,
         ApproveExpandedRelease(who, tracks, singles)
  PROVE  AlbumSound'
<1>1. /\ album.created /\ tracks >= album.tracks /\ singles >= album.singles
      /\ approved' = [expanded |-> TRUE, tracks |-> tracks, singles |-> singles]
      /\ UNCHANGED <<editions, lastTokenId, album, admins, artists, paused>>
  BY DEF ApproveExpandedRelease, CoversUse
<1>2. Tracks' = Tracks /\ Singles' = Singles
  BY <1>1 DEF Tracks, Singles
<1>3. AlbumTypeOK'
  BY <1>1 DEF AlbumAssumption, AlbumSound, AlbumTypeOK
<1>4. WithinLimits'
  BY <1>1 DEF AlbumAssumption, AlbumSound, AlbumTypeOK, WithinLimits, TrackLimit, SingleLimit
<1>5. Sequential' /\ Counted' /\ OfAnAlbum' /\ PlatformUnpaid'
  BY <1>1, <1>2 DEF AlbumSound, Sequential, Counted, OfAnAlbum, PlatformUnpaid
<1> QED BY <1>3, <1>4, <1>5 DEF AlbumSound

\* Opening and closing an album touches neither the editions nor the counters.
LEMMA OpenCloseKeeps ==
  ASSUME AlbumAssumption, AlbumSound, NEW who \in Wallets, CreateAlbum(who) \/ CloseAlbum(who)
  PROVE  AlbumSound'
<1>1. /\ UNCHANGED <<editions, lastTokenId, approved, admins, artists, paused>>
      /\ album \in [created : BOOLEAN, closed : BOOLEAN, tracks : Nat, singles : Nat]
      /\ album' = [album EXCEPT !.created = TRUE] \/ (album.created /\ album' = [album EXCEPT !.closed = TRUE])
  BY DEF AlbumSound, AlbumTypeOK, CreateAlbum, CloseAlbum
<1>2. /\ album' \in [created : BOOLEAN, closed : BOOLEAN, tracks : Nat, singles : Nat]
      /\ album'.created /\ album'.tracks = album.tracks /\ album'.singles = album.singles
  BY <1>1
<1>3. Tracks' = Tracks /\ Singles' = Singles
  BY <1>1 DEF Tracks, Singles
<1>4. AlbumTypeOK'
  BY <1>1, <1>2 DEF AlbumSound, AlbumTypeOK
<1> QED BY <1>1, <1>2, <1>3, <1>4
        DEF AlbumSound, Sequential, Counted, WithinLimits, TrackLimit, SingleLimit, OfAnAlbum, PlatformUnpaid

\* Roles and pauses are read, never counted on afterwards.
LEMMA RolesKeep ==
  ASSUME AlbumSound, UNCHANGED <<editions, lastTokenId, album, approved>>,
         admins' \subseteq Wallets, artists' \subseteq Wallets, paused' \in BOOLEAN
  PROVE  AlbumSound'
<1>1. Tracks' = Tracks /\ Singles' = Singles
  BY DEF Tracks, Singles
<1>2. AlbumTypeOK'
  BY DEF AlbumSound, AlbumTypeOK
<1> QED BY <1>1, <1>2
        DEF AlbumSound, Sequential, Counted, WithinLimits, TrackLimit, SingleLimit, OfAnAlbum, PlatformUnpaid

LEMMA AlbumSteps ==
  ASSUME AlbumAssumption
  PROVE  AlbumSound /\ [AlbumNext]_albumVars => AlbumSound'
<1> SUFFICES ASSUME AlbumSound, [AlbumNext]_albumVars PROVE AlbumSound'
  OBVIOUS
<1>1. admins \subseteq Wallets /\ artists \subseteq Wallets /\ paused \in BOOLEAN
  BY DEF AlbumSound, AlbumTypeOK
<1>2. ASSUME NEW who \in Wallets, CreateAlbum(who) \/ CloseAlbum(who) PROVE AlbumSound'
  BY <1>2, OpenCloseKeeps
<1>3. ASSUME NEW who \in Wallets, Pause(who) PROVE AlbumSound'
  BY <1>1, <1>3, RolesKeep DEF Pause
<1>4. ASSUME NEW who \in Wallets, NEW tracks \in 0..MaxLimit, NEW singles \in 0..MaxLimit,
             ApproveExpandedRelease(who, tracks, singles)
      PROVE  AlbumSound'
  BY <1>4, ApproveKeeps
<1>5. ASSUME NEW who \in Wallets, NEW w \in Wallets, Grant(who, w) \/ Revoke(who, w) PROVE AlbumSound'
  BY <1>1, <1>5, RolesKeep DEF Grant, Revoke
<1>6. ASSUME NEW who \in Wallets, NEW n \in Numbers, NEW payout \in Wallets, CreateEdition(who, n, payout)
      PROVE  AlbumSound'
  BY <1>6, CreateEditionKeeps
<1>7. ASSUME NEW who \in Wallets, NEW n \in Numbers, NEW payout \in Wallets, NEW single \in BOOLEAN,
             CreateAlbumTrack(who, n, payout, single)
      PROVE  AlbumSound'
  BY <1>7, CreateAlbumTrackKeeps
<1>8. CASE UNCHANGED albumVars
  BY <1>1, <1>8, RolesKeep DEF albumVars
<1> QED BY <1>2, <1>3, <1>4, <1>5, <1>6, <1>7, <1>8 DEF AlbumNext

(***************************************************************************)
(* Numbers without gaps, counters true and within the limits in force, no  *)
(* royalty to the platform, in every reachable state.                      *)
(***************************************************************************)
THEOREM AlbumAlwaysSound ==
  ASSUME AlbumAssumption
  PROVE  AlbumSpec => []AlbumSound
<1>1. AlbumInit => AlbumSound
  BY AlbumStarts
<1>2. AlbumSound /\ [AlbumNext]_albumVars => AlbumSound'
  BY AlbumSteps
<1> QED BY <1>1, <1>2, PTL DEF AlbumSpec

(***************************************************************************)
(* Every step keeps the editions created; it adds only tracks to an album  *)
(* and nothing to a closed one.                                            *)
(***************************************************************************)
THEOREM EditionsAlwaysStand ==
  ASSUME AlbumAssumption
  PROVE  AlbumSpec => EditionsStand
<1>1. ASSUME AlbumSound, [AlbumNext]_albumVars PROVE [EditionsStep]_albumVars
  <2>1. album.closed => album.created
    BY <1>1 DEF AlbumSound, OfAnAlbum
  <2>2. ASSUME NEW who \in Wallets, NEW n \in Numbers, NEW payout \in Wallets, CreateEdition(who, n, payout)
        PROVE  EditionsStep
    BY <2>1, <2>2 DEF CreateEdition, CreateToken, Standalone, EditionsStep
  <2>3. ASSUME NEW who \in Wallets, NEW n \in Numbers, NEW payout \in Wallets, NEW single \in BOOLEAN,
               CreateAlbumTrack(who, n, payout, single)
        PROVE  EditionsStep
    BY <2>3 DEF CreateAlbumTrack, CreateToken, EditionsStep
  <2>4. ASSUME editions' = editions PROVE EditionsStep
    BY <2>4 DEF EditionsStep
  <2>5. CASE UNCHANGED albumVars
    BY <2>5
  <2>6. CASE AlbumNext
    BY <2>2, <2>3, <2>4, <2>6
       DEF AlbumNext, CreateAlbum, CloseAlbum, Pause, ApproveExpandedRelease, Grant, Revoke
  <2> QED BY <1>1, <2>5, <2>6
<1>2. AlbumSpec => []AlbumSound
  BY AlbumAlwaysSound
<1> QED BY <1>1, <1>2, PTL DEF AlbumSpec, EditionsStand

-----------------------------------------------------------------------------
\* A behaviour is one of the component picked at its start.
PartNames == {"scan", "account", "desk", "market", "saves", "tracks", "media", "proofs", "shop", "album",
              "weekend", "player", "lease", "pacer"}

LEMMA OnePart == SpecOne => [](part \in PartNames)
<1>1. InitOne => part \in PartNames
  BY DEF InitOne, Starts, PartNames
<1>2. part \in PartNames /\ [NextOne]_allVars => (part \in PartNames)'
  BY DEF NextOne, Steps, allVars
<1> QED BY <1>1, <1>2, PTL DEF SpecOne

\* The album's variables stay as they were initialized while another component runs.
LEMMA AlbumInvariant == SpecOne => []AlbumSound
<1>1. InitOne => AlbumSound
  BY Parameters, AlbumStarts DEF InitOne
<1>2. AlbumSound /\ [NextOne]_allVars => AlbumSound'
  <2>1. [NextOne]_allVars => [AlbumNext]_albumVars
    BY DEF NextOne, allVars
  <2> QED BY <2>1, Parameters, AlbumSteps
<1> QED BY <1>1, <1>2, PTL DEF SpecOne

\* Whichever component runs, it is well-typed and keeps its inductive invariant, whatever the values
\* of the constants.  What holds only without Overwrites, Overtake or Repost says so in the
\* conjunct that needs it.
THEOREM TypesAlwaysOK == SpecOne => []TypesOK
<1> DEFINE Named == part \in PartNames
           Scanned == part = "scan" => Scan!IInv
           SignedIn == part = "account" => Auth!IInv
           Reviewed == part = "desk" => Desk!IInv
           Resold == part = "market" => Market!ResaleIInv
           Served == part = "media" => Media!MediaIInv
           Proven == part = "proofs" => Proofs!IInv
           Sold == part = "shop" => Shop!MarketIInv
           Timed == part = "weekend" => Weekend!WeekendIInv
           Played == part = "player" => Player!IInv
           Edited == (part = "saves" => Saves!StudioIInv) /\ (part = "tracks" => Release!PubIInv)
           Worked == (part = "lease" => Lease!IInv) /\ (part = "pacer" => Pacer!IInv)
<1>1. Named /\ AlbumSound /\ Scanned /\ SignedIn /\ Reviewed /\ Resold /\ Served
      /\ Proven /\ Sold /\ Timed /\ Played /\ Edited /\ Worked => TypesOK
  <2> SUFFICES ASSUME Named, AlbumSound, Scanned, SignedIn, Reviewed, Resold, Served,
                      Proven, Sold, Timed, Played, Edited, Worked
               PROVE  TypesOK
    OBVIOUS
  <2>1. CASE part = "scan"
    BY <2>1 DEF TypesOK
  <2>2. CASE part = "account"
    BY <2>2 DEF TypesOK
  <2>3. CASE part = "desk"
    BY <2>3 DEF TypesOK
  <2>4. CASE part = "market"
    BY <2>4 DEF TypesOK
  <2>5. CASE part = "saves"
    BY <2>5 DEF TypesOK
  <2>6. CASE part = "tracks"
    BY <2>6 DEF TypesOK
  <2>7. CASE part = "media"
    BY <2>7 DEF TypesOK
  <2>8. CASE part = "proofs"
    BY <2>8 DEF TypesOK
  <2>9. CASE part = "shop"
    BY <2>9 DEF TypesOK
  <2>10. CASE part = "album"
    BY <2>10 DEF TypesOK, AlbumSound
  <2>11. CASE part = "weekend"
    BY <2>11 DEF TypesOK
  <2>12. CASE part = "player"
    BY <2>12 DEF TypesOK
  <2>13. CASE part = "lease"
    BY <2>13 DEF TypesOK
  <2>14. CASE part = "pacer"
    BY <2>14 DEF TypesOK
  <2> QED BY <2>1, <2>2, <2>3, <2>4, <2>5, <2>6, <2>7, <2>8, <2>9, <2>10, <2>11, <2>12, <2>13, <2>14 DEF PartNames
<1>2. SpecOne => []Named
  BY OnePart
<1>3. SpecOne => []Scanned
  BY ScanInvariant
<1>4. SpecOne => []SignedIn
  BY AccountInvariant
<1>5. SpecOne => []Reviewed
  BY DeskInvariant
<1>6. SpecOne => []Resold
  BY ResaleInvariant
<1>7. SpecOne => []Served
  BY MediaInvariant
<1>8. SpecOne => []Proven
  BY ProofsInvariant
<1>9. SpecOne => []Sold
  BY ShopInvariant
<1>10. SpecOne => []Timed
  BY WeekendInvariant
<1>11. SpecOne => []Played
  BY PlayerInvariant
<1>12. SpecOne => []Edited
  BY StudioInvariant
<1>13. SpecOne => []Worked
  BY WorkerInvariant
<1> HIDE DEF Named, Scanned, SignedIn, Reviewed, Resold, Served, Proven, Sold, Timed, Played, Edited, Worked
<1> QED BY <1>1, <1>2, <1>3, <1>4, <1>5, <1>6, <1>7, <1>8, <1>9, <1>10, <1>11, <1>12, <1>13, AlbumInvariant, PTL
=============================================================================
