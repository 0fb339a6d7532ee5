------------------------------ MODULE AlbumRelease ------------------------------
(***************************************************************************)
(* A release contract that numbers its tokens 1, 2, 3, ... and may become  *)
(* an album: contracts/VoidRelease1155V6Sequential.sol, with the roles and *)
(* the record of an edition of VoidCollection1155.sol.  A transaction      *)
(* names the number it was signed for and is mined whenever it is, so      *)
(* every step is taken for any caller and any number.                      *)
(*                                                                         *)
(* Left out: release keys, metadata, supplies and mint ends (ReleaseEdition*)
(* has them), the form of createEdition without a royalty, which always    *)
(* reverts here, and a royalty other than the required one.                *)
(***************************************************************************)
EXTENDS Integers, FiniteSets

CONSTANTS
  Wallets,
  Artist,           \* the wallet the release was initialized for
  Platform,         \* platformFeeRecipient
  DefaultTracks,    \* DEFAULT_ALBUM_MAX_TRACKS
  DefaultSingles,   \* DEFAULT_ALBUM_MAX_SINGLES
  Numbers,          \* bound: numbers a transaction may name
  MaxLimit          \* bound: limits asked for

AlbumAssumption ==
  /\ Artist \in Wallets /\ Platform \in Wallets /\ Artist # Platform
  /\ DefaultTracks \in Nat /\ DefaultSingles \in Nat /\ MaxLimit \in Nat
  /\ Numbers \subseteq Nat

VARIABLES
  editions,     \* _editions and _payout by token number; `track`, `single`: added to the album, as a single
  lastTokenId,
  album,        \* albumCreated, albumClosed, albumTrackCount, albumSingleCount
  approved,     \* expandedReleaseApproved, approvedMaxTracks, approvedMaxSingles
  admins,       \* holders of DEFAULT_ADMIN_ROLE
  artists,      \* holders of ARTIST_ROLE
  paused

albumVars == <<editions, lastTokenId, album, approved, admins, artists, paused>>

-----------------------------------------------------------------------------
AlbumInit ==
  /\ editions = [n \in {} |-> {}]
  /\ lastTokenId = 0
  /\ album = [created |-> FALSE, closed |-> FALSE, tracks |-> 0, singles |-> 0]
  /\ approved = [expanded |-> FALSE, tracks |-> 0, singles |-> 0]
  /\ admins = {Artist} /\ artists = {Artist}
  /\ paused = FALSE

TrackLimit == IF approved.expanded THEN approved.tracks ELSE DefaultTracks
SingleLimit == IF approved.expanded THEN approved.singles ELSE DefaultSingles

-----------------------------------------------------------------------------
\* Editions.

\* The only number a creation may name.
NextNumber(n) == n = lastTokenId + 1

\* _createEdition: the number, the payee of the royalty, then the record.
CreateToken(who, n, payout, track, single) ==
  /\ who \in artists /\ ~paused
  /\ NextNumber(n)
  /\ payout # Platform /\ payout \in artists
  /\ n \notin DOMAIN editions
  /\ editions' = [m \in DOMAIN editions \cup {n} |->
                    IF m = n THEN [payout |-> payout, track |-> track, single |-> single] ELSE editions[m]]
  /\ lastTokenId' = n

\* Mutant: an album's contract goes on to take standalone editions.
AlwaysStandalone == TRUE

Standalone == ~album.created

\* createEdition, createEditionWithMintEnd
CreateEdition(who, n, payout) ==
  /\ Standalone
  /\ CreateToken(who, n, payout, FALSE, FALSE)
  /\ UNCHANGED <<album, approved, admins, artists, paused>>

CreateAlbumTrack(who, n, payout, single) ==
  /\ who \in admins
  /\ album.created /\ ~album.closed
  /\ album.tracks < TrackLimit
  /\ single => album.singles < SingleLimit
  /\ CreateToken(who, n, payout, TRUE, single)
  /\ album' = [album EXCEPT !.tracks = @ + 1, !.singles = IF single THEN @ + 1 ELSE @]
  /\ UNCHANGED <<approved, admins, artists, paused>>

-----------------------------------------------------------------------------
\* The album.

CreateAlbum(who) ==
  /\ who \in admins
  /\ ~album.created
  /\ album' = [album EXCEPT !.created = TRUE]
  /\ UNCHANGED <<editions, lastTokenId, approved, admins, artists, paused>>

\* Mutant: limits may drop below what the album already holds.
CoversDefaults(tracks, singles) == tracks >= DefaultTracks /\ singles >= DefaultSingles

\* Limits are raised over the defaults, and never under what the album holds.
CoversUse(tracks, singles) ==
  /\ CoversDefaults(tracks, singles)
  /\ tracks >= album.tracks /\ singles >= album.singles

ApproveExpandedRelease(who, tracks, singles) ==
  /\ who \in admins
  /\ album.created /\ ~album.closed
  /\ CoversUse(tracks, singles)
  /\ approved' = [expanded |-> TRUE, tracks |-> tracks, singles |-> singles]
  /\ UNCHANGED <<editions, lastTokenId, album, admins, artists, paused>>

CloseAlbum(who) ==
  /\ who \in admins
  /\ album.created /\ ~album.closed
  /\ album' = [album EXCEPT !.closed = TRUE]
  /\ UNCHANGED <<editions, lastTokenId, approved, admins, artists, paused>>

-----------------------------------------------------------------------------
\* Roles and pauses.

\* grantRole
Grant(who, w) ==
  /\ who \in admins
  /\ \/ admins' = admins \cup {w} /\ UNCHANGED artists
     \/ artists' = artists \cup {w} /\ UNCHANGED admins
  /\ UNCHANGED <<editions, lastTokenId, album, approved, paused>>

\* revokeRole by an admin, renounceRole by the holder
Revoke(who, w) ==
  /\ who \in admins \/ who = w
  /\ \/ admins' = admins \ {w} /\ UNCHANGED artists
     \/ artists' = artists \ {w} /\ UNCHANGED admins
  /\ UNCHANGED <<editions, lastTokenId, album, approved, paused>>

\* pause, unpause
Pause(who) ==
  /\ who \in admins
  /\ paused' = ~paused
  /\ UNCHANGED <<editions, lastTokenId, album, approved, admins, artists>>

AlbumNext == \E who \in Wallets :
  \/ CreateAlbum(who) \/ CloseAlbum(who) \/ Pause(who)
  \/ \E tracks, singles \in 0..MaxLimit : ApproveExpandedRelease(who, tracks, singles)
  \/ \E w \in Wallets : Grant(who, w) \/ Revoke(who, w)
  \/ \E n \in Numbers, payout \in Wallets :
       CreateEdition(who, n, payout) \/ \E single \in BOOLEAN : CreateAlbumTrack(who, n, payout, single)

AlbumSpec == AlbumInit /\ [][AlbumNext]_albumVars

-----------------------------------------------------------------------------
Tracks == {n \in DOMAIN editions : editions[n].track}
Singles == {n \in DOMAIN editions : editions[n].single}

\* Type correctness of the editions, the counters and the roles.
AlbumTypeOK ==
  /\ lastTokenId \in Nat
  /\ editions \in [DOMAIN editions -> [payout : Wallets, track : BOOLEAN, single : BOOLEAN]]
  /\ album \in [created : BOOLEAN, closed : BOOLEAN, tracks : Nat, singles : Nat]
  /\ approved \in [expanded : BOOLEAN, tracks : Nat, singles : Nat]
  /\ admins \subseteq Wallets /\ artists \subseteq Wallets
  /\ paused \in BOOLEAN

\* The numbers are 1 to lastTokenId: none skipped, none beyond.
Sequential == DOMAIN editions = 1..lastTokenId

\* The counters count the tracks and the singles there are, and stay within the limits in force.
Counted == album.tracks = Cardinality(Tracks) /\ album.singles = Cardinality(Singles)
WithinLimits == album.tracks <= TrackLimit /\ album.singles <= SingleLimit

\* Tracks, limits and an end are an album's; no royalty goes to the platform.
OfAnAlbum == album.created \/ (~album.closed /\ ~approved.expanded /\ Tracks = {})
PlatformUnpaid == \A n \in DOMAIN editions : editions[n].payout # Platform

(***************************************************************************)
(* Whatever transactions raced for a number, however the limits were moved *)
(* and the roles handed round: numbers without gaps, an album within the   *)
(* limits in force with every track counted, and no royalty paid to the    *)
(* platform.                                                               *)
(***************************************************************************)
AlbumSound == AlbumTypeOK /\ Sequential /\ Counted /\ WithinLimits /\ OfAnAlbum /\ PlatformUnpaid

(***************************************************************************)
(* Of every step: an edition once created stays as it is, what is created  *)
(* in an album is a track of it, and nothing is once the album has closed. *)
(***************************************************************************)
EditionsStep ==
  /\ \A n \in DOMAIN editions : n \in DOMAIN editions' /\ editions'[n] = editions[n]
  /\ album.created => \A n \in DOMAIN editions' \ DOMAIN editions : editions'[n].track
  /\ album.closed => editions' = editions
EditionsStand == [][EditionsStep]_albumVars
=============================================================================
