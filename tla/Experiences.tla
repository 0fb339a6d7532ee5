----------------------------- MODULE Experiences ------------------------------
(***************************************************************************)
(* Protected experiences of the Studio (server/studio-service.js): saving, *)
(* publishing and archiving them, by requests that run at the same time.   *)
(*                                                                         *)
(* An experience belongs to an edition and unlocks private files.  A save  *)
(* takes the advisory lock of its edition, then those of its files in      *)
(* order, decides from the rows as they are then, and writes its row.      *)
(* Publication takes the file locks, then the row; archiving takes neither *)
(* advisory lock.  All locks end with their transaction.                   *)
(*                                                                         *)
(* Left out: titles, requirements and file types, the version number, the  *)
(* chain checks before a publication.  DRAFT stands for DRAFT and REVIEW,  *)
(* and every edition is the only one of its release.                       *)
(***************************************************************************)
EXTENDS Naturals, FiniteSets

CONSTANTS
  Requests,   \* requests in progress, on any API instance
  Free,       \* a lock nobody holds
  Editions,
  Ids,        \* experience ids
  EditionOf,  \* EditionOf[x]: the edition of id x
  Files,      \* media assets, in the order their locks are taken
  Forms       \* Forms[x]: what may be sent for x, <<files, primary>>

\* What the constants may be; a run that instantiates the module assumes it.
ExperiencesAssumption ==
  /\ Free \notin Requests /\ Ids # {} /\ IsFiniteSet(Files)
  /\ EditionOf \in [Ids -> Editions]
  /\ Files \subseteq Nat
  /\ Forms \in [Ids -> SUBSET ((SUBSET Files) \X {"keep", "set", "clear"})]

VARIABLES
  rows,         \* experiences
  release,      \* releases.status of each edition's release
  editionLock,  \* holder of void:edition-experiences:<edition>
  fileLock,     \* holder of void:media-asset:<file>
  rowLock,      \* request that holds the row FOR UPDATE
  req           \* what each request is doing

studioVars == <<rows, release, editionLock, fileLock, rowLock, req>>
locks == <<editionLock, fileLock, rowLock>>

-----------------------------------------------------------------------------
Statuses == {"DRAFT", "PUBLISHED", "ARCHIVED"}
NoExperience == [status |-> "NONE", files |-> {}, primary |-> FALSE]
Experience == [status : Statuses, files : SUBSET Files, primary : BOOLEAN]

MaxTries == 3      \* publication takes its locks at most this often

Quiet == [step |-> "idle", op |-> "none", id |-> CHOOSE x \in Ids : TRUE, files |-> {}, mark |-> "keep",
          status |-> "DRAFT", wanted |-> {}, row |-> NoExperience, tries |-> 0, todo |-> {}]

StudioInit ==
  /\ rows = [x \in Ids |-> NoExperience]
  /\ release = [e \in Editions |-> "DRAFT"]
  /\ editionLock = [e \in Editions |-> Free]
  /\ fileLock = [f \in Files |-> Free]
  /\ rowLock = [x \in Ids |-> Free]
  /\ req = [r \in Requests |-> Quiet]

Siblings(x) == {y \in Ids : EditionOf[y] = EditionOf[x] /\ rows[y] # NoExperience}
Reserves(y) == rows[y].status \in {"DRAFT", "PUBLISHED"}

\* ACTIVE_MEDIA_CLAIM_SQL: an active experience of another edition has one of the files.
ClaimedElsewhere(e, files) ==
  \E y \in Ids : EditionOf[y] # e /\ Reserves(y) /\ rows[y].files \cap files # {}

\* Ends the transaction of r, with or without effect.
Unlock(r) ==
  /\ editionLock' = [e \in Editions |-> IF editionLock[e] = r THEN Free ELSE editionLock[e]]
  /\ fileLock' = [f \in Files |-> IF fileLock[f] = r THEN Free ELSE fileLock[f]]
  /\ rowLock' = [x \in Ids |-> IF rowLock[x] = r THEN Free ELSE rowLock[x]]

Become(r, q) == req' = [req EXCEPT ![r] = q]

-----------------------------------------------------------------------------
\* Saving: createExperience (also a re-save under the same id) and updateExperience.

Create(r, x, files, mark) ==
  /\ req[r].step = "idle"
  /\ Become(r, [Quiet EXCEPT !.step = "edition", !.op = "create", !.id = x, !.files = files,
                             !.wanted = files, !.mark = mark])
  /\ UNCHANGED <<rows, release, locks>>

(***************************************************************************)
(* patchStatus on the row as it is read now, before any lock: what is      *)
(* asked for, if anything; only a published one is archived, and it alone  *)
(* cannot become a draft.                                                  *)
(***************************************************************************)
Asked == {"keep", "DRAFT", "ARCHIVED"}
MayBecome(status, asked) ==
  /\ asked = "ARCHIVED" => status = "PUBLISHED"
  /\ asked = "DRAFT" => status # "PUBLISHED"
Patched(status, asked) == IF asked = "keep" THEN status ELSE asked

\* A media configuration that is not sent is that of the row as it is read, designation included.
Unsent(x) == {<<rows[x].files, mark>> : mark \in IF rows[x].primary THEN {"set"} ELSE {"keep", "clear"}}

Update(r, x, files, mark, asked) ==
  /\ req[r].step = "idle"
  /\ rows[x] # NoExperience
  /\ MayBecome(rows[x].status, asked)
  /\ Become(r, [Quiet EXCEPT !.step = "edition", !.op = "update", !.id = x, !.files = files,
                             !.wanted = files, !.mark = mark,
                             !.status = Patched(rows[x].status, asked)])
  /\ UNCHANGED <<rows, release, locks>>

LockEdition(r) ==
  LET e == EditionOf[req[r].id]
  IN  /\ req[r].step = "edition" /\ editionLock[e] = Free
      /\ editionLock' = [editionLock EXCEPT ![e] = r]
      /\ Become(r, [req[r] EXCEPT !.step = "files"])
      /\ UNCHANGED <<rows, release, fileLock, rowLock>>

\* Mutant: a publication takes its locks in another order than a save.
NextFileListed(r) ==
  CHOOSE f \in req[r].wanted :
    \A g \in req[r].wanted : IF req[r].op = "publish" THEN f >= g ELSE f <= g

\* The locks of a request's files are taken one at a time, in the order of the files.
NextFile(r) == CHOOSE f \in req[r].wanted : \A g \in req[r].wanted : f <= g

LockFile(r) ==
  /\ req[r].step = "files" /\ req[r].wanted # {}
  /\ fileLock[NextFile(r)] = Free
  /\ fileLock' = [fileLock EXCEPT ![NextFile(r)] = r]
  /\ Become(r, [req[r] EXCEPT !.wanted = @ \ {NextFile(r)}])
  /\ UNCHANGED <<rows, release, editionLock, rowLock>>

(***************************************************************************)
(* The row a save writes: its own, or that of a sibling which already      *)
(* unlocks one of the files; a new one is a draft.                         *)
(***************************************************************************)
Targets(q) ==
  LET sharing == {y \in Siblings(q.id) : rows[y].files \cap q.files # {}}
  IN  IF q.op = "update" \/ rows[q.id] # NoExperience \/ sharing = {} THEN {q.id} ELSE sharing

Saved(q, y) ==
  [status |-> CASE q.op = "update" -> q.status
                [] q.op = "create" /\ rows[y] # NoExperience -> rows[y].status
                [] OTHER -> "DRAFT",
   files |-> q.files,
   primary |-> IF q.mark = "keep" THEN rows[y].primary ELSE q.mark = "set"]

\* Everything decided under the locks: the files, then the primary designation.
Allowed(q, y) ==
  /\ ~ClaimedElsewhere(EditionOf[q.id], q.files)
  /\ Saved(q, y).primary => \A z \in Siblings(q.id) \ {y} : ~rows[z].primary

Decide(r) ==
  LET q == req[r]
  IN  /\ q.step = "files" /\ q.wanted = {} /\ q.op \in {"create", "update"}
      /\ \E y \in Targets(q) :
           IF Allowed(q, y)
           THEN /\ Become(r, [q EXCEPT !.step = "write", !.id = y, !.row = Saved(q, y)])
                /\ UNCHANGED locks
           ELSE Become(r, Quiet) /\ Unlock(r)
      /\ UNCHANGED <<rows, release>>

\* saveExperience waits for a publication that holds the row.
Write(r) ==
  LET q == req[r]
  IN  /\ q.step = "write" /\ rowLock[q.id] = Free
      /\ rows' = [rows EXCEPT ![q.id] = q.row]
      /\ Become(r, Quiet)
      /\ Unlock(r)
      /\ UNCHANGED release

-----------------------------------------------------------------------------
\* Publication: the last part of confirmPublication.

(***************************************************************************)
(* saveRelease PUBLISHED, then the list of the release's experiences with  *)
(* the files they unlock at this moment.                                   *)
(***************************************************************************)
Confirm(r, e) ==
  /\ req[r].step = "idle"
  /\ release' = [release EXCEPT ![e] = "PUBLISHED"]
  /\ Become(r, [Quiet EXCEPT !.step = "loop", !.op = "publish",
                  !.todo = {[id |-> x, files |-> rows[x].files] :
                              x \in {y \in Ids : EditionOf[y] = e /\ rows[y] # NoExperience}}])
  /\ UNCHANGED <<rows, locks>>

PublishNext(r) ==
  LET q == req[r]
  IN  /\ q.step = "loop"
      /\ IF q.todo = {} THEN Become(r, Quiet)
         ELSE \E t \in q.todo :
                Become(r, [q EXCEPT !.step = "files", !.id = t.id, !.files = t.files, !.wanted = t.files,
                                    !.todo = @ \ {t}, !.tries = 1])
      /\ UNCHANGED <<rows, release, locks>>

\* SELECT ... FOR UPDATE, after the file locks.
LockRow(r) ==
  LET q == req[r]
  IN  /\ q.step = "files" /\ q.wanted = {} /\ q.op = "publish"
      /\ rowLock[q.id] = Free
      /\ rowLock' = [rowLock EXCEPT ![q.id] = r]
      /\ Become(r, [q EXCEPT !.step = "row"])
      /\ UNCHANGED <<rows, release, editionLock, fileLock>>

LacksLocks(q) == ~(rows[q.id].files \subseteq q.files)

(***************************************************************************)
(* The row as it is now decides: a file that is not locked sends it back   *)
(* for the locks of both sets, a file of another edition leaves it as it   *)
(* is, and otherwise it is PUBLISHED as it stands.                         *)
(***************************************************************************)
Publish(r) ==
  LET q == req[r]
      needed == rows[q.id].files
      again == q.files \cup needed
  IN  /\ q.step = "row"
      /\ Unlock(r)
      /\ IF LacksLocks(q)
         THEN /\ Become(r, IF q.tries = MaxTries THEN [q EXCEPT !.step = "loop"]
                           ELSE [q EXCEPT !.step = "files", !.files = again, !.wanted = again,
                                          !.tries = @ + 1])
              /\ UNCHANGED rows
         ELSE /\ Become(r, [q EXCEPT !.step = "loop"])
              /\ rows' = IF ClaimedElsewhere(EditionOf[q.id], needed) THEN rows
                         ELSE [rows EXCEPT ![q.id].status = "PUBLISHED"]
      /\ UNCHANGED release

-----------------------------------------------------------------------------
\* updateRelease with status ARCHIVED: the release, then its children in a statement of its own.

TakeOffSite(r, e) ==
  /\ req[r].step = "idle"
  /\ release[e] = "PUBLISHED"
  /\ release' = [release EXCEPT ![e] = "ARCHIVED"]
  /\ \E x \in Ids : EditionOf[x] = e /\ Become(r, [Quiet EXCEPT !.step = "archive", !.op = "archive", !.id = x])
  /\ UNCHANGED <<rows, locks>>

ArchiveChildren(r) ==
  LET mine == {x \in Ids : EditionOf[x] = EditionOf[req[r].id]}
  IN  /\ req[r].step = "archive"
      /\ \A x \in mine : rowLock[x] = Free
      /\ rows' = [x \in Ids |-> IF x \in mine /\ rows[x] # NoExperience
                                THEN [rows[x] EXCEPT !.status = "ARCHIVED"] ELSE rows[x]]
      /\ Become(r, Quiet)
      /\ UNCHANGED <<release, locks>>

\* A request fails or its process dies: the open transaction is rolled back.
Fail(r) ==
  /\ req[r].step # "idle"
  /\ Become(r, Quiet)
  /\ Unlock(r)
  /\ UNCHANGED <<rows, release>>

StudioNext ==
  \E r \in Requests :
    \/ \E x \in Ids :
         \/ \E form \in Forms[x] : Create(r, x, form[1], form[2])
         \/ \E form \in Forms[x] \cup Unsent(x), asked \in Asked : Update(r, x, form[1], form[2], asked)
    \/ LockEdition(r) \/ LockFile(r) \/ Decide(r) \/ Write(r)
    \/ \E e \in Editions : Confirm(r, e) \/ TakeOffSite(r, e)
    \/ PublishNext(r) \/ LockRow(r) \/ Publish(r) \/ ArchiveChildren(r)
    \/ Fail(r)

StudioSpec == StudioInit /\ [][StudioNext]_studioVars

-----------------------------------------------------------------------------
Request ==
  [step : {"idle", "edition", "files", "write", "loop", "row", "archive"}, op : {"none", "create", "update", "publish", "archive"},
   id : Ids, files : SUBSET Files, mark : {"keep", "set", "clear"}, status : Statuses, wanted : SUBSET Files,
   row : Experience \cup {NoExperience}, tries : 0..MaxTries, todo : SUBSET [id : Ids, files : SUBSET Files]]

StudioTypeOK ==
  /\ rows \in [Ids -> Experience \cup {NoExperience}]
  /\ release \in [Editions -> Statuses]
  /\ editionLock \in [Editions -> Requests \cup {Free}]
  /\ fileLock \in [Files -> Requests \cup {Free}]
  /\ rowLock \in [Ids -> Requests \cup {Free}]
  /\ req \in [Requests -> Request]

(***************************************************************************)
(* "A registered file belongs to one edition": no two active experiences   *)
(* of different editions unlock the same file, whatever is saved,          *)
(* published, archived and published again at the same time.               *)
(***************************************************************************)
FileInOneEdition ==
  \A x, y \in Ids :
    Reserves(x) /\ Reserves(y) /\ EditionOf[x] # EditionOf[y] => rows[x].files \cap rows[y].files = {}

\* "An edition has at most one primary experience."
OnePrimary ==
  \A x, y \in Ids : x # y /\ EditionOf[x] = EditionOf[y] => ~(rows[x].primary /\ rows[y].primary)

(***************************************************************************)
(* "No path can wait on a lock held by a path that is waiting on it": in   *)
(* every set of requests that wait for a lock, one waits for a request     *)
(* outside the set.                                                        *)
(***************************************************************************)
HolderAwaited(r) ==
  LET q == req[r]
  IN  CASE q.step = "edition" -> {editionLock[EditionOf[q.id]]}
        [] q.step = "files" /\ q.wanted # {} -> {fileLock[NextFile(r)]}
        [] q.step = "files" /\ q.wanted = {} /\ q.op = "publish" -> {rowLock[q.id]}
        [] q.step = "write" -> {rowLock[q.id]}
        [] OTHER -> {}

NoWaitCycle ==
  \A waiting \in SUBSET Requests :
    waiting # {} => \E r \in waiting : HolderAwaited(r) \cap waiting = {}

(***************************************************************************)
(* Why they hold.  The locks are those of the request that is at the step  *)
(* that took them, and what a save decided under them stays so until it is *)
(* written: another request would need one of its locks to disturb it.     *)
(***************************************************************************)
Saving(q) == q.step \in {"files", "write"} /\ q.op # "publish"
Locked(q) == IF q.step \in {"files", "write", "row"} THEN q.files \ q.wanted ELSE {}

LocksHeld ==
  \A r \in Requests :
    /\ \A e \in Editions : editionLock[e] = r <=> Saving(req[r]) /\ EditionOf[req[r].id] = e
    /\ \A f \in Files : fileLock[f] = r <=> f \in Locked(req[r])
    /\ \A x \in Ids : rowLock[x] = r <=> req[r].step = "row" /\ req[r].id = x

\* The files that are locked come before those that are not.
InOrder(q) == q.wanted \subseteq q.files /\ \A f \in q.files \ q.wanted, g \in q.wanted : f < g

StepsOfOps ==
  \A r \in Requests :
    LET q == req[r]
    IN  /\ q.step = "edition" => q.wanted = q.files /\ q.op # "publish"
        /\ q.step = "files" => InOrder(q)
        /\ q.step = "write" => q.wanted = {} /\ q.op # "publish"
        /\ q.step = "row" => q.wanted = {} /\ q.op = "publish"
        /\ q.step = "loop" => q.op = "publish"

Stands(q) ==
  /\ q.row \in Experience /\ q.row.files = q.files /\ ~ClaimedElsewhere(EditionOf[q.id], q.files)
  /\ q.row.primary => \A z \in Ids \ {q.id} : EditionOf[z] = EditionOf[q.id] => ~rows[z].primary
Decided == \A r \in Requests : req[r].step = "write" => Stands(req[r])

StudioIInv == StudioTypeOK /\ LocksHeld /\ StepsOfOps /\ Decided /\ FileInOneEdition /\ OnePrimary
=============================================================================
