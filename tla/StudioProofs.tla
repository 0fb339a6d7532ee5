----------------------------- MODULE StudioProofs -----------------------------
(***************************************************************************)
(* Proofs about Experiences, Publication and Provenance as MCRequests runs *)
(* them: what the Studio's rows promise while requests run at the same     *)
(* time, for every value of the constants.                                 *)
(***************************************************************************)
EXTENDS MCRequests, Sequences, FiniteSetTheorems, WellFoundedInduction, TLAPS

-----------------------------------------------------------------------------
(***************************************************************************)
(* Protected experiences.  What is locked is locked by the request that is *)
(* at that step, and what a save decided under its locks stands until it is *)
(* written.                                                                *)
(***************************************************************************)
LEMMA SavesStep ==
  part = "saves" /\ [NextOne]_allVars => part' = "saves" /\ [Saves!StudioNext]_(Saves!studioVars)
BY DEF NextOne, Steps, allVars, vVars, Saves!studioVars

LEMMA SavesQuiet ==
  Saves!ExperiencesAssumption => /\ Saves!Quiet \in Saves!Request /\ Saves!Quiet.step = "idle" /\ Saves!Quiet.op = "none"
                                 /\ Saves!Quiet.files = {} /\ Saves!Quiet.wanted = {} /\ Saves!Quiet.todo = {}
<1> SUFFICES ASSUME Saves!ExperiencesAssumption
             PROVE  /\ Saves!Quiet \in Saves!Request /\ Saves!Quiet.step = "idle" /\ Saves!Quiet.op = "none"
                    /\ Saves!Quiet.files = {} /\ Saves!Quiet.wanted = {} /\ Saves!Quiet.todo = {}
  OBVIOUS
<1>1. (CHOOSE x \in ExperienceIds : TRUE) \in ExperienceIds
  BY DEF Saves!ExperiencesAssumption
<1>2. 0 \in 0..Saves!MaxTries /\ "DRAFT" \in Saves!Statuses
  BY DEF Saves!MaxTries, Saves!Statuses
<1> QED BY <1>1, <1>2 DEF Saves!Quiet, Saves!Request

LEMMA SavesStarts == Saves!ExperiencesAssumption /\ Saves!StudioInit => Saves!StudioIInv
<1> SUFFICES ASSUME Saves!ExperiencesAssumption, Saves!StudioInit PROVE Saves!StudioIInv
  OBVIOUS
<1>1. Saves!StudioTypeOK
  BY SavesQuiet DEF Saves!StudioInit, Saves!StudioTypeOK, Saves!Statuses
<1>2. \A r \in Callers : v6[r].step = "idle"
  BY SavesQuiet DEF Saves!StudioInit
<1>3. Saves!LocksHeld
  BY <1>2 DEF Saves!StudioInit, Saves!LocksHeld, Saves!Saving, Saves!Locked, Saves!ExperiencesAssumption
<1>4. Saves!StepsOfOps /\ Saves!Decided
  BY <1>2 DEF Saves!StepsOfOps, Saves!Decided
<1>5. Saves!FileInOneEdition /\ Saves!OnePrimary
  BY DEF Saves!StudioInit, Saves!FileInOneEdition, Saves!OnePrimary, Saves!Reserves, Saves!NoExperience
<1> QED BY <1>1, <1>3, <1>4, <1>5 DEF Saves!StudioIInv

LEMMA SavesTypes ==
  ASSUME Saves!StudioIInv, NEW r \in Callers
  PROVE  /\ v1 \in [ExperienceIds -> Saves!Experience \cup {Saves!NoExperience}] /\ v2 \in [Editions -> Saves!Statuses]
         /\ v3 \in [Editions -> Callers \cup {Nobody}] /\ v4 \in [Files -> Callers \cup {Nobody}]
         /\ v5 \in [ExperienceIds -> Callers \cup {Nobody}]
         /\ v6 \in [Callers -> Saves!Request] /\ v6[r] \in Saves!Request
         /\ v6[r].id \in ExperienceIds /\ v6[r].files \subseteq Files /\ v6[r].wanted \subseteq Files
<1>1. v6 \in [Callers -> Saves!Request] /\ v6[r] \in Saves!Request
  BY DEF Saves!StudioIInv, Saves!StudioTypeOK
<1> QED BY <1>1 DEF Saves!StudioIInv, Saves!StudioTypeOK, Saves!Request

\* A request with one field changed is a request.
LEMMA SavesWith ==
  ASSUME NEW q \in Saves!Request
  PROVE  /\ \A v \in {"idle", "edition", "files", "write", "loop", "row", "archive"} : [q EXCEPT !.step = v] \in Saves!Request
         /\ \A v \in {"none", "create", "update", "publish", "archive"} : [q EXCEPT !.op = v] \in Saves!Request
         /\ \A v \in ExperienceIds : [q EXCEPT !.id = v] \in Saves!Request
         /\ \A v \in SUBSET Files : [q EXCEPT !.files = v] \in Saves!Request /\ [q EXCEPT !.wanted = v] \in Saves!Request
         /\ \A v \in {"keep", "set", "clear"} : [q EXCEPT !.mark = v] \in Saves!Request
         /\ \A v \in Saves!Statuses : [q EXCEPT !.status = v] \in Saves!Request
         /\ \A v \in Saves!Experience : [q EXCEPT !.row = v] \in Saves!Request
         /\ \A v \in 0..Saves!MaxTries : [q EXCEPT !.tries = v] \in Saves!Request
         /\ \A v \in SUBSET [id : ExperienceIds, files : SUBSET Files] : [q EXCEPT !.todo = v] \in Saves!Request
BY DEF Saves!Request

(***************************************************************************)
(* A step of r that leaves the rows alone.                                 *)
(***************************************************************************)
LEMMA SavesRowsSame ==
  ASSUME Saves!ExperiencesAssumption, Saves!StudioIInv, NEW r \in Callers, NEW q \in Saves!Request, v6' = [v6 EXCEPT ![r] = q],
         UNCHANGED v1, v2' \in [Editions -> Saves!Statuses],
         v3' \in [Editions -> Callers \cup {Nobody}], v4' \in [Files -> Callers \cup {Nobody}],
         v5' \in [ExperienceIds -> Callers \cup {Nobody}],
         Saves!LocksHeld',
         q.step = "edition" => q.wanted = q.files /\ q.op # "publish",
         q.step = "files" => Saves!InOrder(q),
         q.step = "write" => q.wanted = {} /\ q.op # "publish" /\ Saves!Stands(q),
         q.step = "row" => q.wanted = {} /\ q.op = "publish",
         q.step = "loop" => q.op = "publish"
  PROVE  Saves!StudioIInv'
<1>1. /\ v6' \in [Callers -> Saves!Request] /\ v6'[r] = q /\ \A s \in Callers : s # r => v6'[s] = v6[s]
  BY SavesTypes
<1>2. Saves!StudioTypeOK'
  BY <1>1 DEF Saves!StudioIInv, Saves!StudioTypeOK
<1>3. Saves!StepsOfOps'
  BY <1>1 DEF Saves!StudioIInv, Saves!StepsOfOps, Saves!InOrder
<1>4. \A s \in Callers : Saves!Stands(v6'[s]) => Saves!Stands(v6[s])'
  BY DEF Saves!Stands, Saves!ClaimedElsewhere, Saves!Reserves
<1>5. Saves!Decided'
  BY <1>1, <1>4 DEF Saves!StudioIInv, Saves!Decided
<1>6. Saves!FileInOneEdition' /\ Saves!OnePrimary'
  BY DEF Saves!StudioIInv, Saves!FileInOneEdition, Saves!OnePrimary, Saves!Reserves
<1> QED BY <1>2, <1>3, <1>5, <1>6 DEF Saves!StudioIInv

\* The locks of a request that goes on without taking or giving back any.
LEMMA SavesLocksSame ==
  ASSUME Saves!ExperiencesAssumption, Saves!StudioIInv, NEW r \in Callers, NEW q \in Saves!Request, v6' = [v6 EXCEPT ![r] = q],
         UNCHANGED <<v3, v4, v5>>,
         Saves!Saving(q) <=> Saves!Saving(v6[r]), EditionOf[q.id] = EditionOf[v6[r].id] \/ ~Saves!Saving(q),
         Saves!Locked(q) = Saves!Locked(v6[r]), q.step # "row", v6[r].step # "row"
  PROVE  Saves!LocksHeld'
<1>1. v6'[r] = q /\ \A s \in Callers : s # r => v6'[s] = v6[s]
  BY SavesTypes
<1>2. ASSUME NEW s \in Callers
      PROVE  /\ \A e \in Editions : v3'[e] = s <=> Saves!Saving(v6'[s]) /\ EditionOf[v6'[s].id] = e
             /\ \A f \in Files : v4'[f] = s <=> f \in Saves!Locked(v6'[s])
             /\ \A x \in ExperienceIds : v5'[x] = s <=> v6'[s].step = "row" /\ v6'[s].id = x
  BY <1>1 DEF Saves!StudioIInv, Saves!LocksHeld
<1> QED BY <1>2 DEF Saves!LocksHeld, Saves!Saving, Saves!Locked

\* A transaction that ends gives back what it held.
LEMMA SavesUnlocks ==
  ASSUME Saves!ExperiencesAssumption, Saves!StudioIInv, NEW r \in Callers, NEW q \in Saves!Request, v6' = [v6 EXCEPT ![r] = q],
         Saves!Unlock(r), ~Saves!Saving(q), Saves!Locked(q) = {}, q.step # "row"
  PROVE  /\ Saves!LocksHeld'
         /\ v3' \in [Editions -> Callers \cup {Nobody}] /\ v4' \in [Files -> Callers \cup {Nobody}]
         /\ v5' \in [ExperienceIds -> Callers \cup {Nobody}]
<1>0. Nobody \notin Callers /\ EditionOf \in [ExperienceIds -> Editions]
  BY DEF Saves!ExperiencesAssumption
<1>1. v6'[r] = q /\ \A s \in Callers : s # r => v6'[s] = v6[s]
  BY SavesTypes
<1>2. /\ v3 \in [Editions -> Callers \cup {Nobody}] /\ v4 \in [Files -> Callers \cup {Nobody}]
      /\ v5 \in [ExperienceIds -> Callers \cup {Nobody}]
  BY SavesTypes
<1>3. /\ v3' = [e \in Editions |-> IF v3[e] = r THEN Nobody ELSE v3[e]]
      /\ v4' = [f \in Files |-> IF v4[f] = r THEN Nobody ELSE v4[f]]
      /\ v5' = [x \in ExperienceIds |-> IF v5[x] = r THEN Nobody ELSE v5[x]]
  BY DEF Saves!Unlock
<1>4. /\ v3' \in [Editions -> Callers \cup {Nobody}] /\ v4' \in [Files -> Callers \cup {Nobody}]
      /\ v5' \in [ExperienceIds -> Callers \cup {Nobody}]
  BY <1>2, <1>3
<1>5. ASSUME NEW s \in Callers
      PROVE  /\ \A e \in Editions : v3'[e] = s <=> Saves!Saving(v6'[s]) /\ EditionOf[v6'[s].id] = e
             /\ \A f \in Files : v4'[f] = s <=> f \in Saves!Locked(v6'[s])
             /\ \A x \in ExperienceIds : v5'[x] = s <=> v6'[s].step = "row" /\ v6'[s].id = x
  <2>1. CASE s = r
    BY <1>0, <1>1, <1>3, <2>1
  <2>2. CASE s # r
    <3>1. /\ \A e \in Editions : v3'[e] = s <=> v3[e] = s
          /\ \A f \in Files : v4'[f] = s <=> v4[f] = s
          /\ \A x \in ExperienceIds : v5'[x] = s <=> v5[x] = s
      BY <1>0, <1>3, <2>2
    <3> QED BY <1>1, <2>2, <3>1 DEF Saves!StudioIInv, Saves!LocksHeld
  <2> QED BY <2>1, <2>2
<1> QED BY <1>4, <1>5 DEF Saves!LocksHeld, Saves!Saving, Saves!Locked

LEMMA SavesEnds ==
  ASSUME Saves!ExperiencesAssumption, Saves!StudioIInv, NEW r \in Callers, v6' = [v6 EXCEPT ![r] = Saves!Quiet],
         Saves!Unlock(r), UNCHANGED <<v1, v2>>
  PROVE  Saves!StudioIInv'
<1>1. Saves!Quiet \in Saves!Request /\ Saves!Quiet.step = "idle" /\ ~Saves!Saving(Saves!Quiet) /\ Saves!Locked(Saves!Quiet) = {}
  BY SavesQuiet DEF Saves!Saving, Saves!Locked
<1>2. /\ Saves!LocksHeld'
      /\ v3' \in [Editions -> Callers \cup {Nobody}] /\ v4' \in [Files -> Callers \cup {Nobody}]
      /\ v5' \in [ExperienceIds -> Callers \cup {Nobody}]
  BY <1>1, SavesUnlocks
<1>3. v2' \in [Editions -> Saves!Statuses]
  BY SavesTypes
<1> QED BY <1>1, <1>2, <1>3, SavesRowsSame

\* A request that starts, or goes on, with no lock.
LEMMA SavesGoes ==
  ASSUME Saves!ExperiencesAssumption, Saves!StudioIInv, NEW r \in Callers, NEW q \in Saves!Request, v6' = [v6 EXCEPT ![r] = q],
         UNCHANGED <<v1, v3, v4, v5>>, v2' \in [Editions -> Saves!Statuses],
         v6[r].step \notin {"files", "write", "row"}, q.step \notin {"write", "row"},
         q.step = "edition" => q.wanted = q.files /\ q.op # "publish",
         q.step = "files" => q.wanted = q.files /\ q.op = "publish",
         q.step = "loop" => q.op = "publish"
  PROVE  Saves!StudioIInv'
<1>1. Saves!LocksHeld'
  <2>1. ~Saves!Saving(q) /\ ~Saves!Saving(v6[r]) /\ Saves!Locked(q) = {} /\ Saves!Locked(v6[r]) = {}
    BY DEF Saves!Saving, Saves!Locked
  <2> QED BY <2>1, SavesLocksSame
<1>2. /\ v3' \in [Editions -> Callers \cup {Nobody}] /\ v4' \in [Files -> Callers \cup {Nobody}]
      /\ v5' \in [ExperienceIds -> Callers \cup {Nobody}]
  BY SavesTypes
<1>3. q.step = "files" => Saves!InOrder(q)
  BY DEF Saves!InOrder
<1> QED BY <1>1, <1>2, <1>3, SavesRowsSame

\* What is sent, or left as it is, is a set of files and a designation.
LEMMA SavesForms ==
  ASSUME Saves!ExperiencesAssumption, Saves!StudioIInv, NEW x \in ExperienceIds, NEW form \in Forms[x] \cup Saves!Unsent(x)
  PROVE  form[1] \in SUBSET Files /\ form[2] \in {"keep", "set", "clear"}
<1>1. Forms[x] \subseteq (SUBSET Files) \X {"keep", "set", "clear"}
  BY DEF Saves!ExperiencesAssumption
<1>2. v1[x].files \in SUBSET Files
  BY DEF Saves!StudioIInv, Saves!StudioTypeOK, Saves!Experience, Saves!NoExperience
<1>3. CASE form \in Forms[x]
  <2>1. form \in (SUBSET Files) \X {"keep", "set", "clear"}
    BY <1>1, <1>3
  <2> QED BY <2>1
<1>4. CASE form \in Saves!Unsent(x)
  <2>1. PICK mark \in {"set", "keep", "clear"} : form = <<v1[x].files, mark>>
    BY <1>4 DEF Saves!Unsent
  <2> QED BY <1>2, <2>1
<1> QED BY <1>3, <1>4

LEMMA SavesOpens ==
  ASSUME Saves!ExperiencesAssumption, Saves!StudioIInv, NEW r \in Callers, NEW x \in ExperienceIds,
         (\E form \in Forms[x] : Saves!Create(r, x, form[1], form[2]))
         \/ (\E form \in Forms[x] \cup Saves!Unsent(x), asked \in Saves!Asked : Saves!Update(r, x, form[1], form[2], asked))
  PROVE  Saves!StudioIInv'
<1> DEFINE Sent(op, files, mark) == [Saves!Quiet EXCEPT !.step = "edition", !.op = op, !.id = x, !.files = files,
                                                         !.wanted = files, !.mark = mark]
<1>0. v2 \in [Editions -> Saves!Statuses] /\ v1 \in [ExperienceIds -> Saves!Experience \cup {Saves!NoExperience}]
  BY SavesTypes
<1>1. ASSUME NEW op \in {"create", "update"}, NEW files \in SUBSET Files, NEW mark \in {"keep", "set", "clear"}
      PROVE  /\ Sent(op, files, mark) \in Saves!Request /\ Sent(op, files, mark).step = "edition"
             /\ Sent(op, files, mark).op = op /\ Sent(op, files, mark).wanted = Sent(op, files, mark).files
  <2> DEFINE q1 == [Saves!Quiet EXCEPT !.step = "edition"]
             q2 == [q1 EXCEPT !.op = op]
             q3 == [q2 EXCEPT !.id = x]
             q4 == [q3 EXCEPT !.files = files]
             q5 == [q4 EXCEPT !.wanted = files]
             q6 == [q5 EXCEPT !.mark = mark]
  <2>1. q1 \in Saves!Request
    BY SavesQuiet, SavesWith
  <2>2. q2 \in Saves!Request
    <3> HIDE DEF q1
    <3> QED BY <2>1, SavesWith
  <2>3. q3 \in Saves!Request
    <3> HIDE DEF q2
    <3> QED BY <2>2, SavesWith
  <2>4. q4 \in Saves!Request
    <3> HIDE DEF q3
    <3> QED BY <2>3, SavesWith
  <2>5. q5 \in Saves!Request
    <3> HIDE DEF q4
    <3> QED BY <2>4, SavesWith
  <2>6. q6 \in Saves!Request
    <3> HIDE DEF q5
    <3> QED BY <2>5, SavesWith
  <2>7. Sent(op, files, mark) = q6
    OBVIOUS
  <2>8. Sent(op, files, mark).step = "edition" /\ Sent(op, files, mark).op = op
        /\ Sent(op, files, mark).wanted = Sent(op, files, mark).files
    BY DEF Saves!Quiet
  <2> QED BY <2>6, <2>7, <2>8
<1>2. v6[r].step = "idle" /\ UNCHANGED <<v1, v2, v3, v4, v5>>
  BY DEF Saves!Create, Saves!Update, Saves!locks
<1>3. ASSUME NEW form \in Forms[x], Saves!Create(r, x, form[1], form[2]) PROVE Saves!StudioIInv'
  <2>1. form[1] \in SUBSET Files /\ form[2] \in {"keep", "set", "clear"}
    BY SavesForms
  <2>2. v6' = [v6 EXCEPT ![r] = Sent("create", form[1], form[2])]
    BY <1>3 DEF Saves!Create, Saves!Become
  <2> HIDE DEF Sent
  <2> QED BY <1>0, <1>1, <1>2, <2>1, <2>2, SavesGoes
<1>4. ASSUME NEW form \in Forms[x] \cup Saves!Unsent(x), NEW asked \in Saves!Asked, Saves!Update(r, x, form[1], form[2], asked)
      PROVE  Saves!StudioIInv'
  <2>1. form[1] \in SUBSET Files /\ form[2] \in {"keep", "set", "clear"}
    BY SavesForms
  <2> DEFINE status == Saves!Patched(v1[x].status, asked)
             base == Sent("update", form[1], form[2])
             q == [base EXCEPT !.status = status]
  <2>2. status \in Saves!Statuses
    <3>1. v1[x].status \in Saves!Statuses
      BY <1>0, <1>4 DEF Saves!Update, Saves!Experience
    <3> QED BY <3>1 DEF Saves!Patched, Saves!Asked, Saves!Statuses
  <2>3. v6' = [v6 EXCEPT ![r] = q]
    BY <1>4 DEF Saves!Update, Saves!Become
  <2> HIDE DEF Sent, status
  <2>4. base \in Saves!Request /\ base.step = "edition" /\ base.op = "update" /\ base.wanted = base.files
    BY <1>1, <2>1
  <2> HIDE DEF base
  <2>5. q \in Saves!Request
    BY <2>2, <2>4, SavesWith
  <2>6. q.step = "edition" /\ q.op = "update" /\ q.wanted = q.files
    BY <2>4 DEF Saves!Request
  <2> HIDE DEF q
  <2> QED BY <1>0, <1>2, <2>3, <2>5, <2>6, SavesGoes
<1> QED BY <1>3, <1>4

LEMMA SavesPublishes ==
  ASSUME Saves!ExperiencesAssumption, Saves!StudioIInv, NEW r \in Callers,
         (\E e \in Editions : Saves!Confirm(r, e) \/ Saves!TakeOffSite(r, e)) \/ Saves!PublishNext(r)
  PROVE  Saves!StudioIInv'
<1>0. /\ v2 \in [Editions -> Saves!Statuses] /\ v1 \in [ExperienceIds -> Saves!Experience \cup {Saves!NoExperience}]
      /\ v6[r] \in Saves!Request
  BY SavesTypes
<1>1. UNCHANGED <<v1, v3, v4, v5>> /\ v6[r].step \notin {"files", "write", "row"}
  BY DEF Saves!Confirm, Saves!TakeOffSite, Saves!PublishNext, Saves!locks
<1>2. ASSUME NEW e \in Editions, Saves!Confirm(r, e) PROVE Saves!StudioIInv'
  <2> DEFINE todo == {[id |-> x, files |-> v1[x].files] : x \in {y \in ExperienceIds : EditionOf[y] = e /\ v1[y] # Saves!NoExperience}}
             q1 == [Saves!Quiet EXCEPT !.step = "loop"]
             q2 == [q1 EXCEPT !.op = "publish"]
             q3 == [q2 EXCEPT !.todo = todo]
  <2>1. v6' = [v6 EXCEPT ![r] = q3] /\ v2' \in [Editions -> Saves!Statuses]
    BY <1>0, <1>2 DEF Saves!Confirm, Saves!Become, Saves!Statuses
  <2>2. todo \in SUBSET [id : ExperienceIds, files : SUBSET Files]
    <3>1. \A x \in ExperienceIds : v1[x].files \in SUBSET Files
      BY <1>0 DEF Saves!Experience, Saves!NoExperience
    <3> QED BY <3>1
  <2> HIDE DEF todo
  <2>3. q1 \in Saves!Request
    BY SavesQuiet, SavesWith
  <2>4. q2 \in Saves!Request
    <3> HIDE DEF q1
    <3> QED BY <2>3, SavesWith
  <2>5. q3 \in Saves!Request
    <3> HIDE DEF q2
    <3> QED BY <2>2, <2>4, SavesWith
  <2>6. q3.step = "loop" /\ q3.op = "publish"
    BY DEF Saves!Quiet
  <2> HIDE DEF q3
  <2> QED BY <1>1, <2>1, <2>5, <2>6, SavesGoes
<1>3. ASSUME NEW e \in Editions, Saves!TakeOffSite(r, e) PROVE Saves!StudioIInv'
  <2>1. PICK x \in ExperienceIds : v6' = [v6 EXCEPT ![r] = [Saves!Quiet EXCEPT !.step = "archive", !.op = "archive", !.id = x]]
    BY <1>3 DEF Saves!TakeOffSite, Saves!Become
  <2>2. v2' \in [Editions -> Saves!Statuses]
    BY <1>0, <1>3 DEF Saves!TakeOffSite, Saves!Statuses
  <2> DEFINE q1 == [Saves!Quiet EXCEPT !.step = "archive"]
             q2 == [q1 EXCEPT !.op = "archive"]
             q3 == [q2 EXCEPT !.id = x]
  <2>3. q1 \in Saves!Request
    BY SavesQuiet, SavesWith
  <2>4. q2 \in Saves!Request
    <3> HIDE DEF q1
    <3> QED BY <2>3, SavesWith
  <2>5. q3 \in Saves!Request
    <3> HIDE DEF q2
    <3> QED BY <2>4, SavesWith
  <2>6. q3.step = "archive"
    BY DEF Saves!Quiet
  <2>7. v6' = [v6 EXCEPT ![r] = q3]
    BY <2>1
  <2> HIDE DEF q3
  <2> QED BY <1>1, <2>2, <2>5, <2>6, <2>7, SavesGoes
<1>4. CASE Saves!PublishNext(r)
  <2>1. v2' \in [Editions -> Saves!Statuses]
    BY <1>0, <1>4 DEF Saves!PublishNext
  <2>2. CASE v6[r].todo = {}
    <3>1. v6' = [v6 EXCEPT ![r] = Saves!Quiet]
      BY <1>4, <2>2 DEF Saves!PublishNext, Saves!Become
    <3> QED BY <1>1, <2>1, <3>1, SavesQuiet, SavesGoes
  <2>3. CASE v6[r].todo # {}
    <3> DEFINE q1(t) == [v6[r] EXCEPT !.step = "files"]
               q2(t) == [q1(t) EXCEPT !.id = t.id]
               q3(t) == [q2(t) EXCEPT !.files = t.files]
               q4(t) == [q3(t) EXCEPT !.wanted = t.files]
               q5(t) == [q4(t) EXCEPT !.todo = v6[r].todo \ {t}]
               q6(t) == [q5(t) EXCEPT !.tries = 1]
    <3>1. PICK t \in v6[r].todo : v6' = [v6 EXCEPT ![r] = q6(t)]
      <4> DEFINE N(t) == [v6[r] EXCEPT !.step = "files", !.id = t.id, !.files = t.files, !.wanted = t.files,
                                       !.todo = @ \ {t}, !.tries = 1]
      <4>1. PICK t \in v6[r].todo : v6' = [v6 EXCEPT ![r] = N(t)]
        BY <1>4, <2>3 DEF Saves!PublishNext, Saves!Become
      <4>2. N(t) = q6(t)
        BY <1>0 DEF Saves!Request
      <4> HIDE DEF N, q6
      <4> QED BY <4>1, <4>2
    <3>2. t.id \in ExperienceIds /\ t.files \in SUBSET Files
      BY <1>0 DEF Saves!Request
    <3>3. q1(t) \in Saves!Request
      BY <1>0, SavesWith
    <3>4. q2(t) \in Saves!Request
      <4> HIDE DEF q1
      <4> QED BY <3>2, <3>3, SavesWith
    <3>5. q3(t) \in Saves!Request
      <4> HIDE DEF q2
      <4> QED BY <3>2, <3>4, SavesWith
    <3>6. q4(t) \in Saves!Request
      <4> HIDE DEF q3
      <4> QED BY <3>2, <3>5, SavesWith
    <3>7. q5(t) \in Saves!Request
      <4>1. v6[r].todo \ {t} \in SUBSET [id : ExperienceIds, files : SUBSET Files]
        BY <1>0 DEF Saves!Request
      <4> HIDE DEF q4
      <4> QED BY <3>6, <4>1, SavesWith
    <3>8. q6(t) \in Saves!Request
      <4>1. 1 \in 0..Saves!MaxTries
        BY DEF Saves!MaxTries
      <4> HIDE DEF q5
      <4> QED BY <3>7, <4>1, SavesWith
    <3>9. q6(t).step = "files" /\ q6(t).wanted = q6(t).files /\ q6(t).op = v6[r].op
      BY <1>0 DEF Saves!Request
    <3>10. v6[r].op = "publish"
      BY <1>4 DEF Saves!PublishNext, Saves!StudioIInv, Saves!StepsOfOps
    <3> HIDE DEF q6
    <3> QED BY <1>1, <2>1, <3>1, <3>8, <3>9, <3>10, SavesGoes
  <2> QED BY <2>2, <2>3
<1> QED BY <1>2, <1>3, <1>4
(***************************************************************************)
(* The locks are taken.                                                    *)
(***************************************************************************)
LEMMA SavesEdition ==
  ASSUME Saves!ExperiencesAssumption, Saves!StudioIInv, NEW r \in Callers, Saves!LockEdition(r) PROVE Saves!StudioIInv'
<1> DEFINE q == [v6[r] EXCEPT !.step = "files"]
           e == EditionOf[v6[r].id]
<1>0. /\ v6[r] \in Saves!Request /\ v3 \in [Editions -> Callers \cup {Nobody}] /\ v4 \in [Files -> Callers \cup {Nobody}]
      /\ v5 \in [ExperienceIds -> Callers \cup {Nobody}] /\ v2 \in [Editions -> Saves!Statuses] /\ v6[r].id \in ExperienceIds
  BY SavesTypes
<1>1. /\ v6[r].step = "edition" /\ v3[e] = Nobody /\ v3' = [v3 EXCEPT ![e] = r] /\ v6' = [v6 EXCEPT ![r] = q]
      /\ UNCHANGED <<v1, v2, v4, v5>>
  BY DEF Saves!LockEdition, Saves!Become
<1>2. v6[r].wanted = v6[r].files /\ v6[r].op # "publish"
  BY <1>1 DEF Saves!StudioIInv, Saves!StepsOfOps
<1>3. q \in Saves!Request
  BY <1>0, SavesWith
<1>4. q.step = "files" /\ q.op = v6[r].op /\ q.id = v6[r].id /\ q.files = v6[r].files /\ q.wanted = v6[r].wanted
  BY <1>0 DEF Saves!Request
<1> HIDE DEF q
<1>5. e \in Editions /\ Nobody \notin Callers
  BY <1>0 DEF Saves!ExperiencesAssumption
<1>6. v6'[r] = q /\ \A s \in Callers : s # r => v6'[s] = v6[s]
  BY <1>1, SavesTypes
<1>7. Saves!Saving(q) /\ Saves!Locked(q) = {} /\ ~Saves!Saving(v6[r]) /\ Saves!Locked(v6[r]) = {}
  BY <1>1, <1>2, <1>4 DEF Saves!Saving, Saves!Locked
<1>8. ASSUME NEW s \in Callers
      PROVE  /\ \A d \in Editions : v3'[d] = s <=> Saves!Saving(v6'[s]) /\ EditionOf[v6'[s].id] = d
             /\ \A f \in Files : v4'[f] = s <=> f \in Saves!Locked(v6'[s])
             /\ \A x \in ExperienceIds : v5'[x] = s <=> v6'[s].step = "row" /\ v6'[s].id = x
  <2>0. /\ \A d \in Editions : v3[d] = s <=> Saves!Saving(v6[s]) /\ EditionOf[v6[s].id] = d
        /\ \A f \in Files : v4[f] = s <=> f \in Saves!Locked(v6[s])
        /\ \A x \in ExperienceIds : v5[x] = s <=> v6[s].step = "row" /\ v6[s].id = x
    BY DEF Saves!StudioIInv, Saves!LocksHeld
  <2>1. \A d \in Editions : d # e => v3'[d] = v3[d]
    BY <1>0, <1>1
  <2>2. v3'[e] = r
    BY <1>0, <1>1, <1>5
  <2>3. CASE s = r
    BY <1>1, <1>4, <1>6, <1>7, <2>0, <2>1, <2>2, <2>3
  <2>4. CASE s # r
    BY <1>1, <1>5, <1>6, <2>0, <2>1, <2>2, <2>4
  <2> QED BY <2>3, <2>4
<1>9. Saves!LocksHeld'
  BY <1>8 DEF Saves!LocksHeld, Saves!Saving, Saves!Locked
<1>10. v3' \in [Editions -> Callers \cup {Nobody}]
  BY <1>0, <1>1
<1>11. Saves!InOrder(q)
  BY <1>2, <1>4 DEF Saves!InOrder
<1> QED BY <1>0, <1>1, <1>3, <1>4, <1>9, <1>10, <1>11, SavesRowsSame

\* A set of files has a first one: there is one no other wanted file is before.
LEMMA LeastOfNaturals ==
  ASSUME NEW T, T \subseteq Nat, T # {} PROVE \E x \in T : \A y \in T : x <= y
<1> DEFINE R == StrictSubsetOrdering(Nat)
           U == {1..n : n \in T}
<1>1. U \subseteq FiniteSubsetsOf(Nat)
  <2> SUFFICES ASSUME NEW n \in T PROVE 1..n \in FiniteSubsetsOf(Nat)
    OBVIOUS
  <2>1. 1 \in Int /\ n \in Int
    OBVIOUS
  <2>2. IsFiniteSet(1..n)
    BY <2>1, FS_Interval
  <2>3. 1..n \in SUBSET Nat
    OBVIOUS
  <2> QED BY <2>2, <2>3 DEF FiniteSubsetsOf
<1>2. U # {}
  OBVIOUS
<1>3. IsWellFoundedOn(R, FiniteSubsetsOf(Nat))
  BY FS_StrictSubsetOrderingWellFounded
<1> HIDE DEF R
<1>4. PICK u \in U : \A v \in U : ~ (<<v, u>> \in R)
  BY <1>1, <1>2, <1>3, WFMin
<1>5. PICK x \in T : u = 1..x
  OBVIOUS
<1>6. ASSUME NEW y \in T, ~(x <= y) PROVE FALSE
  <2>1. 1..y \in U /\ x \in Nat /\ y \in Nat /\ y < x
    BY <1>6
  <2>2. 1..y \subseteq 1..x /\ x \in 1..x /\ x \notin 1..y
    BY <2>1
  <2>3. <<1..y, 1..x>> \in R
    <3>1. 1..y \in SUBSET Nat /\ 1..x \in SUBSET Nat /\ 1..y # 1..x
      BY <2>2
    <3>2. <<1..y, 1..x>> \in (SUBSET Nat) \X (SUBSET Nat)
      BY <3>1
    <3> QED BY <2>2, <3>1, <3>2 DEF R, StrictSubsetOrdering
  <2> QED BY <1>4, <1>5, <2>1, <2>3
<1> QED BY <1>6

\* And, being finite, a last one: the one with the fewest after it.
LEMMA GreatestOfFinite ==
  ASSUME NEW T, T \subseteq Nat, IsFiniteSet(T), T # {} PROVE \E x \in T : \A y \in T : y <= x
<1> DEFINE R == StrictSubsetOrdering(T)
           After(n) == {k \in T : k > n}
           U == {After(n) : n \in T}
<1>1. U \subseteq FiniteSubsetsOf(T)
  <2> SUFFICES ASSUME NEW n \in T PROVE After(n) \in FiniteSubsetsOf(T)
    OBVIOUS
  <2>1. After(n) \in SUBSET T
    OBVIOUS
  <2>2. IsFiniteSet(After(n))
    BY <2>1, FS_Subset
  <2> QED BY <2>1, <2>2 DEF FiniteSubsetsOf
<1>2. U # {}
  OBVIOUS
<1>3. IsWellFoundedOn(R, FiniteSubsetsOf(T))
  BY FS_StrictSubsetOrderingWellFounded
<1> HIDE DEF R
<1>4. PICK u \in U : \A v \in U : ~ (<<v, u>> \in R)
  BY <1>1, <1>2, <1>3, WFMin
<1>5. PICK x \in T : u = After(x)
  OBVIOUS
<1>6. ASSUME NEW y \in T, ~(y <= x) PROVE FALSE
  <2>1. After(y) \in U /\ x \in Nat /\ y \in Nat /\ x < y
    BY <1>6
  <2>2. After(y) \subseteq After(x) /\ y \in After(x) /\ y \notin After(y)
    <3>1. \A k \in T : k \in Nat /\ (k > y => k > x)
      BY <2>1
    <3>2. y > x /\ ~(y > y) /\ y \in T
      BY <2>1
    <3> HIDE <2>1
    <3> QED BY <3>1, <3>2
  <2>3. <<After(y), After(x)>> \in R
    <3>1. After(y) \in SUBSET T /\ After(x) \in SUBSET T /\ After(y) # After(x)
      BY <2>2
    <3> HIDE DEF After
    <3>2. <<After(y), After(x)>> \in (SUBSET T) \X (SUBSET T)
      BY <3>1
    <3> QED BY <2>2, <3>1, <3>2 DEF R, StrictSubsetOrdering
  <2> QED BY <1>4, <1>5, <2>1, <2>3
<1> QED BY <1>6

LEMMA SavesFirst ==
  ASSUME Saves!ExperiencesAssumption, Saves!StudioIInv, NEW r \in Callers, v6[r].wanted # {}
  PROVE  Saves!NextFile(r) \in v6[r].wanted /\ (\A g \in v6[r].wanted : Saves!NextFile(r) <= g) /\ Saves!NextFile(r) \in Files
<1>1. v6[r].wanted \subseteq Files /\ Files \subseteq Nat
  BY SavesTypes DEF Saves!ExperiencesAssumption
<1>2. \E f \in v6[r].wanted : \A g \in v6[r].wanted : f <= g
  <2>1. v6[r].wanted \subseteq Nat
    BY <1>1
  <2> QED BY <2>1, LeastOfNaturals
<1> QED BY <1>1, <1>2 DEF Saves!NextFile

LEMMA SavesFile ==
  ASSUME Saves!ExperiencesAssumption, Saves!StudioIInv, NEW r \in Callers, Saves!LockFile(r) PROVE Saves!StudioIInv'
<1> DEFINE n == Saves!NextFile(r)
           q == [v6[r] EXCEPT !.wanted = v6[r].wanted \ {n}]
<1>0. /\ v6[r] \in Saves!Request /\ v3 \in [Editions -> Callers \cup {Nobody}] /\ v4 \in [Files -> Callers \cup {Nobody}]
      /\ v5 \in [ExperienceIds -> Callers \cup {Nobody}] /\ v2 \in [Editions -> Saves!Statuses] /\ v6[r].wanted \subseteq Files
  BY SavesTypes
<1>1. /\ v6[r].step = "files" /\ v6[r].wanted # {} /\ v4[n] = Nobody /\ v4' = [v4 EXCEPT ![n] = r] /\ v6' = [v6 EXCEPT ![r] = q]
      /\ UNCHANGED <<v1, v2, v3, v5>>
  BY <1>0 DEF Saves!LockFile, Saves!Become, Saves!Request
<1>2. n \in v6[r].wanted /\ n \in Files /\ Nobody \notin Callers
  BY <1>1, SavesFirst DEF Saves!ExperiencesAssumption
<1> HIDE DEF n
<1>3. q \in Saves!Request
  BY <1>0, SavesWith
<1>4. q.step = "files" /\ q.op = v6[r].op /\ q.id = v6[r].id /\ q.files = v6[r].files /\ q.wanted = v6[r].wanted \ {n}
  BY <1>0, <1>1 DEF Saves!Request
<1> HIDE DEF q
<1>5. v6'[r] = q /\ \A s \in Callers : s # r => v6'[s] = v6[s]
  BY <1>1, SavesTypes
<1>6. Saves!Saving(q) <=> Saves!Saving(v6[r])
  BY <1>1, <1>4 DEF Saves!Saving
<1>7. \A f \in Files : f # n => (f \in Saves!Locked(q) <=> f \in Saves!Locked(v6[r]))
  BY <1>1, <1>4 DEF Saves!Locked
<1>8. n \in Saves!Locked(q)
  <2>1. v6[r].wanted \subseteq v6[r].files
    BY <1>1 DEF Saves!StudioIInv, Saves!StepsOfOps, Saves!InOrder
  <2> QED BY <1>2, <1>4, <2>1 DEF Saves!Locked
<1>9. ASSUME NEW s \in Callers
      PROVE  /\ \A d \in Editions : v3'[d] = s <=> Saves!Saving(v6'[s]) /\ EditionOf[v6'[s].id] = d
             /\ \A f \in Files : v4'[f] = s <=> f \in Saves!Locked(v6'[s])
             /\ \A x \in ExperienceIds : v5'[x] = s <=> v6'[s].step = "row" /\ v6'[s].id = x
  <2>0. /\ \A d \in Editions : v3[d] = s <=> Saves!Saving(v6[s]) /\ EditionOf[v6[s].id] = d
        /\ \A f \in Files : v4[f] = s <=> f \in Saves!Locked(v6[s])
        /\ \A x \in ExperienceIds : v5[x] = s <=> v6[s].step = "row" /\ v6[s].id = x
    BY DEF Saves!StudioIInv, Saves!LocksHeld
  <2>1. \A f \in Files : f # n => v4'[f] = v4[f]
    BY <1>0, <1>1
  <2>2. v4'[n] = r
    BY <1>0, <1>1, <1>2
  <2>3. CASE s = r
    BY <1>1, <1>4, <1>5, <1>6, <1>7, <1>8, <2>0, <2>1, <2>2, <2>3
  <2>4. CASE s # r
    BY <1>1, <1>2, <1>5, <2>0, <2>1, <2>2, <2>4
  <2> QED BY <2>3, <2>4
<1>10. Saves!LocksHeld'
  BY <1>9 DEF Saves!LocksHeld, Saves!Saving, Saves!Locked
<1>11. v4' \in [Files -> Callers \cup {Nobody}]
  BY <1>0, <1>1
<1>12. Saves!InOrder(q)
  <2>1. v6[r].wanted \subseteq v6[r].files /\ \A f \in v6[r].files \ v6[r].wanted, g \in v6[r].wanted : f < g
    BY <1>1 DEF Saves!StudioIInv, Saves!StepsOfOps, Saves!InOrder
  <2>2. \A g \in v6[r].wanted : g \in Nat
    BY <1>0 DEF Saves!ExperiencesAssumption
  <2>3. \A g \in v6[r].wanted : n <= g
    BY <1>1, SavesFirst DEF n
  <2>4. \A g \in v6[r].wanted \ {n} : n < g
    BY <1>2, <2>2, <2>3
  <2> QED BY <1>2, <1>4, <2>1, <2>4 DEF Saves!InOrder
<1> QED BY <1>0, <1>1, <1>3, <1>4, <1>10, <1>11, <1>12, SavesRowsSame

LEMMA SavesRow ==
  ASSUME Saves!ExperiencesAssumption, Saves!StudioIInv, NEW r \in Callers, Saves!LockRow(r) PROVE Saves!StudioIInv'
<1> DEFINE q == [v6[r] EXCEPT !.step = "row"]
           i == v6[r].id
<1>0. /\ v6[r] \in Saves!Request /\ v3 \in [Editions -> Callers \cup {Nobody}] /\ v4 \in [Files -> Callers \cup {Nobody}]
      /\ v5 \in [ExperienceIds -> Callers \cup {Nobody}] /\ v2 \in [Editions -> Saves!Statuses] /\ i \in ExperienceIds
  BY SavesTypes
<1>1. /\ v6[r].step = "files" /\ v6[r].wanted = {} /\ v6[r].op = "publish" /\ v5[i] = Nobody /\ v5' = [v5 EXCEPT ![i] = r]
      /\ v6' = [v6 EXCEPT ![r] = q] /\ UNCHANGED <<v1, v2, v3, v4>>
  BY DEF Saves!LockRow, Saves!Become
<1>2. q \in Saves!Request
  BY <1>0, SavesWith
<1>3. q.step = "row" /\ q.op = "publish" /\ q.id = i /\ q.files = v6[r].files /\ q.wanted = {}
  BY <1>0, <1>1 DEF Saves!Request
<1> HIDE DEF q
<1>4. Nobody \notin Callers
  BY DEF Saves!ExperiencesAssumption
<1>5. v6'[r] = q /\ \A s \in Callers : s # r => v6'[s] = v6[s]
  BY <1>1, SavesTypes
<1>6. ~Saves!Saving(q) /\ ~Saves!Saving(v6[r]) /\ Saves!Locked(q) = Saves!Locked(v6[r])
  BY <1>1, <1>3 DEF Saves!Saving, Saves!Locked
<1>7. ASSUME NEW s \in Callers
      PROVE  /\ \A d \in Editions : v3'[d] = s <=> Saves!Saving(v6'[s]) /\ EditionOf[v6'[s].id] = d
             /\ \A f \in Files : v4'[f] = s <=> f \in Saves!Locked(v6'[s])
             /\ \A x \in ExperienceIds : v5'[x] = s <=> v6'[s].step = "row" /\ v6'[s].id = x
  <2>0. /\ \A d \in Editions : v3[d] = s <=> Saves!Saving(v6[s]) /\ EditionOf[v6[s].id] = d
        /\ \A f \in Files : v4[f] = s <=> f \in Saves!Locked(v6[s])
        /\ \A x \in ExperienceIds : v5[x] = s <=> v6[s].step = "row" /\ v6[s].id = x
    BY DEF Saves!StudioIInv, Saves!LocksHeld
  <2>1. \A x \in ExperienceIds : x # i => v5'[x] = v5[x]
    BY <1>0, <1>1
  <2>2. v5'[i] = r
    BY <1>0, <1>1
  <2>3. CASE s = r
    BY <1>1, <1>3, <1>5, <1>6, <2>0, <2>1, <2>2, <2>3
  <2>4. CASE s # r
    BY <1>1, <1>4, <1>5, <2>0, <2>1, <2>2, <2>4
  <2> QED BY <2>3, <2>4
<1>8. Saves!LocksHeld'
  BY <1>7 DEF Saves!LocksHeld, Saves!Saving, Saves!Locked
<1>9. v5' \in [ExperienceIds -> Callers \cup {Nobody}]
  BY <1>0, <1>1
<1> QED BY <1>0, <1>1, <1>2, <1>3, <1>8, <1>9, SavesRowsSame

(***************************************************************************)
(* A save decides under its locks.                                         *)
(***************************************************************************)
LEMMA SavesTarget ==
  ASSUME Saves!ExperiencesAssumption, Saves!StudioIInv, NEW r \in Callers, NEW y \in Saves!Targets(v6[r])
  PROVE  y \in ExperienceIds /\ EditionOf[y] = EditionOf[v6[r].id]
<1>1. v6[r].id \in ExperienceIds
  BY SavesTypes
<1> QED BY <1>1 DEF Saves!Targets, Saves!Siblings

LEMMA SavesStands ==
  ASSUME Saves!ExperiencesAssumption, Saves!StudioIInv, NEW r \in Callers, NEW y \in Saves!Targets(v6[r]),
         v6[r].op \in {"create", "update"}, Saves!Allowed(v6[r], y)
  PROVE  LET row == Saves!Saved(v6[r], y)
         IN  /\ row \in Saves!Experience /\ row.files = v6[r].files
             /\ row.primary => \A z \in ExperienceIds \ {y} : EditionOf[z] = EditionOf[y] => ~v1[z].primary
<1> DEFINE row == Saves!Saved(v6[r], y)
<1>1. /\ v6[r].files \subseteq Files /\ v6[r].status \in Saves!Statuses
      /\ v1 \in [ExperienceIds -> Saves!Experience \cup {Saves!NoExperience}]
  BY SavesTypes DEF Saves!Request
<1>2. y \in ExperienceIds /\ EditionOf[y] = EditionOf[v6[r].id]
  BY SavesTarget
<1>3. row.files = v6[r].files
  BY DEF Saves!Saved
<1>4. row \in Saves!Experience
  <2>1. v1[y] # Saves!NoExperience => v1[y].status \in Saves!Statuses
    BY <1>1, <1>2 DEF Saves!Experience
  <2>2. v1[y].primary \in BOOLEAN
    <3>1. CASE v1[y] \in Saves!Experience
      BY <3>1 DEF Saves!Experience
    <3>2. CASE v1[y] = Saves!NoExperience
      BY <3>2 DEF Saves!NoExperience
    <3> QED BY <1>1, <1>2, <3>1, <3>2
  <2>3. row.status \in Saves!Statuses
    BY <1>1, <2>1 DEF Saves!Saved, Saves!Statuses
  <2>4. row.primary \in BOOLEAN
    <3>1. CASE v6[r].mark = "keep"
      BY <2>2, <3>1 DEF Saves!Saved
    <3>2. CASE v6[r].mark # "keep"
      BY <3>2 DEF Saves!Saved
    <3> QED BY <3>1, <3>2
  <2>5. row = [status |-> row.status, files |-> row.files, primary |-> row.primary]
    BY DEF Saves!Saved
  <2> HIDE DEF row
  <2>6. [status |-> row.status, files |-> row.files, primary |-> row.primary] \in Saves!Experience
    BY <1>1, <1>3, <2>3, <2>4 DEF Saves!Experience
  <2> QED BY <2>5, <2>6
<1>5. ASSUME row.primary, NEW z \in ExperienceIds \ {y}, EditionOf[z] = EditionOf[y] PROVE ~v1[z].primary
  <2>1. CASE v1[z] = Saves!NoExperience
    BY <2>1 DEF Saves!NoExperience
  <2>2. CASE v1[z] # Saves!NoExperience
    <3>1. z \in Saves!Siblings(v6[r].id) \ {y}
      BY <1>2, <1>5, <2>2 DEF Saves!Siblings
    <3>2. Saves!Saved(v6[r], y).primary
      BY <1>5
    <3> HIDE DEF row
    <3> QED BY <3>1, <3>2 DEF Saves!Allowed
  <2> QED BY <2>1, <2>2
<1> HIDE DEF row
<1>6. row \in Saves!Experience /\ row.files = v6[r].files
      /\ (row.primary => \A z \in ExperienceIds \ {y} : EditionOf[z] = EditionOf[y] => ~v1[z].primary)
  BY <1>3, <1>4, <1>5
<1> QED BY <1>6 DEF row

LEMMA SavesDecides ==
  ASSUME Saves!ExperiencesAssumption, Saves!StudioIInv, NEW r \in Callers, Saves!Decide(r) PROVE Saves!StudioIInv'
<1>0. /\ v6[r] \in Saves!Request /\ v3 \in [Editions -> Callers \cup {Nobody}] /\ v4 \in [Files -> Callers \cup {Nobody}]
      /\ v5 \in [ExperienceIds -> Callers \cup {Nobody}] /\ v2 \in [Editions -> Saves!Statuses]
  BY SavesTypes
<1>1. v6[r].step = "files" /\ v6[r].wanted = {} /\ v6[r].op \in {"create", "update"} /\ UNCHANGED <<v1, v2>>
  BY DEF Saves!Decide
<1>2. PICK y \in Saves!Targets(v6[r]) :
        IF Saves!Allowed(v6[r], y)
        THEN /\ Saves!Become(r, [v6[r] EXCEPT !.step = "write", !.id = y, !.row = Saves!Saved(v6[r], y)])
             /\ UNCHANGED Saves!locks
        ELSE Saves!Become(r, Saves!Quiet) /\ Saves!Unlock(r)
  BY DEF Saves!Decide
<1>3. CASE ~Saves!Allowed(v6[r], y)
  BY <1>1, <1>2, <1>3, SavesEnds DEF Saves!Become
<1>4. CASE Saves!Allowed(v6[r], y)
  <2> DEFINE row == Saves!Saved(v6[r], y)
             q1 == [v6[r] EXCEPT !.step = "write"]
             q2 == [q1 EXCEPT !.id = y]
             q == [q2 EXCEPT !.row = row]
  <2>1. v6' = [v6 EXCEPT ![r] = q] /\ UNCHANGED <<v3, v4, v5>>
    BY <1>2, <1>4 DEF Saves!Become, Saves!locks
  <2>2. y \in ExperienceIds /\ EditionOf[y] = EditionOf[v6[r].id]
    BY SavesTarget
  <2>3. /\ row \in Saves!Experience /\ row.files = v6[r].files
        /\ row.primary => \A z \in ExperienceIds \ {y} : EditionOf[z] = EditionOf[y] => ~v1[z].primary
    BY <1>1, <1>4, SavesStands
  <2>4. ~Saves!ClaimedElsewhere(EditionOf[y], v6[r].files)
    BY <1>4, <2>2 DEF Saves!Allowed
  <2> HIDE DEF row
  <2>5. q1 \in Saves!Request
    BY <1>0, SavesWith
  <2>6. q2 \in Saves!Request
    <3> HIDE DEF q1
    <3> QED BY <2>2, <2>5, SavesWith
  <2>7. q \in Saves!Request
    <3> HIDE DEF q2
    <3> QED BY <2>3, <2>6, SavesWith
  <2>8. q.step = "write" /\ q.op = v6[r].op /\ q.id = y /\ q.files = v6[r].files /\ q.wanted = {} /\ q.row = row
    BY <1>0, <1>1 DEF Saves!Request
  <2> HIDE DEF q
  <2>9. Saves!Stands(q)
    BY <2>3, <2>4, <2>8 DEF Saves!Stands
  <2>10. Saves!LocksHeld'
    <3>1. Saves!Saving(q) /\ Saves!Saving(v6[r]) /\ Saves!Locked(q) = Saves!Locked(v6[r])
      BY <1>1, <2>8 DEF Saves!Saving, Saves!Locked
    <3> QED BY <1>1, <2>1, <2>2, <2>7, <2>8, <3>1, SavesLocksSame
  <2> QED BY <1>0, <1>1, <2>1, <2>7, <2>8, <2>9, <2>10, SavesRowsSame
<1> QED BY <1>3, <1>4

(***************************************************************************)
(* The rows change: what was decided stands, for it takes a lock to disturb *)
(* it.                                                                     *)
(***************************************************************************)
LEMMA SavesRowsChange ==
  ASSUME Saves!ExperiencesAssumption, Saves!StudioIInv, NEW r \in Callers, NEW q \in Saves!Request, v6' = [v6 EXCEPT ![r] = q],
         q.step \in {"idle", "loop"}, q.step = "loop" => q.op = "publish",
         v1' \in [ExperienceIds -> Saves!Experience \cup {Saves!NoExperience}], UNCHANGED v2,
         v3' \in [Editions -> Callers \cup {Nobody}], v4' \in [Files -> Callers \cup {Nobody}],
         v5' \in [ExperienceIds -> Callers \cup {Nobody}], Saves!LocksHeld',
         Saves!FileInOneEdition', Saves!OnePrimary',
         \A s \in Callers \ {r} : v6[s].step = "write" /\ Saves!Stands(v6[s]) /\ v6'[s] = v6[s] => Saves!Stands(v6[s])'
  PROVE  Saves!StudioIInv'
<1>1. /\ v6' \in [Callers -> Saves!Request] /\ v6'[r] = q /\ \A s \in Callers : s # r => v6'[s] = v6[s]
  BY SavesTypes
<1>2. Saves!StudioTypeOK'
  BY <1>1 DEF Saves!StudioIInv, Saves!StudioTypeOK
<1>3. Saves!StepsOfOps'
  BY <1>1 DEF Saves!StudioIInv, Saves!StepsOfOps, Saves!InOrder
<1>4. Saves!Decided'
  BY <1>1 DEF Saves!StudioIInv, Saves!Decided
<1> QED BY <1>2, <1>3, <1>4 DEF Saves!StudioIInv

\* Requests at "write" have locked different files, and are of different editions.
LEMMA SavesApart ==
  ASSUME Saves!ExperiencesAssumption, Saves!StudioIInv, NEW r \in Callers, NEW s \in Callers, r # s
  PROVE  /\ Saves!Saving(v6[r]) /\ Saves!Saving(v6[s]) => EditionOf[v6[r].id] # EditionOf[v6[s].id]
         /\ Saves!Locked(v6[r]) \cap Saves!Locked(v6[s]) = {}
<1>1. /\ v6[r].id \in ExperienceIds /\ v6[s].id \in ExperienceIds /\ EditionOf[v6[r].id] \in Editions
      /\ v6[r].files \subseteq Files /\ v6[s].files \subseteq Files
  BY SavesTypes DEF Saves!ExperiencesAssumption
<1>2. \A e \in Editions : (v3[e] = r <=> Saves!Saving(v6[r]) /\ EditionOf[v6[r].id] = e)
                          /\ (v3[e] = s <=> Saves!Saving(v6[s]) /\ EditionOf[v6[s].id] = e)
  BY DEF Saves!StudioIInv, Saves!LocksHeld
<1>3. \A f \in Files : (v4[f] = r <=> f \in Saves!Locked(v6[r])) /\ (v4[f] = s <=> f \in Saves!Locked(v6[s]))
  BY DEF Saves!StudioIInv, Saves!LocksHeld
<1>4. Saves!Locked(v6[r]) \subseteq Files
  BY <1>1 DEF Saves!Locked
<1> QED BY <1>1, <1>2, <1>3, <1>4

LEMMA SavesWrites ==
  ASSUME Saves!ExperiencesAssumption, Saves!StudioIInv, NEW r \in Callers, Saves!Write(r) PROVE Saves!StudioIInv'
<1> DEFINE i == v6[r].id
           row == v6[r].row
<1>0. /\ v1 \in [ExperienceIds -> Saves!Experience \cup {Saves!NoExperience}] /\ i \in ExperienceIds
  BY SavesTypes
<1>1. /\ v6[r].step = "write" /\ v1' = [v1 EXCEPT ![i] = row] /\ v6' = [v6 EXCEPT ![r] = Saves!Quiet]
      /\ Saves!Unlock(r) /\ UNCHANGED v2
  BY DEF Saves!Write, Saves!Become
<1>2. /\ row \in Saves!Experience /\ row.files = v6[r].files /\ ~Saves!ClaimedElsewhere(EditionOf[i], v6[r].files)
      /\ row.primary => \A z \in ExperienceIds \ {i} : EditionOf[z] = EditionOf[i] => ~v1[z].primary
  <2>1. Saves!Stands(v6[r])
    BY <1>1 DEF Saves!StudioIInv, Saves!Decided
  <2> QED BY <2>1 DEF Saves!Stands
<1>3. Saves!Quiet \in Saves!Request /\ Saves!Quiet.step = "idle" /\ ~Saves!Saving(Saves!Quiet) /\ Saves!Locked(Saves!Quiet) = {}
  BY SavesQuiet DEF Saves!Saving, Saves!Locked
<1>4. /\ Saves!LocksHeld'
      /\ v3' \in [Editions -> Callers \cup {Nobody}] /\ v4' \in [Files -> Callers \cup {Nobody}]
      /\ v5' \in [ExperienceIds -> Callers \cup {Nobody}]
  BY <1>1, <1>3, SavesUnlocks
<1>5. v1' \in [ExperienceIds -> Saves!Experience \cup {Saves!NoExperience}]
  BY <1>0, <1>1, <1>2
<1>6. v1'[i] = row /\ \A x \in ExperienceIds : x # i => v1'[x] = v1[x]
  BY <1>0, <1>1
<1>7. Saves!FileInOneEdition'
  <2>1. \A y \in ExperienceIds : EditionOf[y] # EditionOf[i] /\ v1[y].status \in {"DRAFT", "PUBLISHED"}
                                 => v1[y].files \cap row.files = {}
    BY <1>2 DEF Saves!ClaimedElsewhere, Saves!Reserves
  <2>2. \A x, y \in ExperienceIds :
          v1[x].status \in {"DRAFT", "PUBLISHED"} /\ v1[y].status \in {"DRAFT", "PUBLISHED"} /\ EditionOf[x] # EditionOf[y]
            => v1[x].files \cap v1[y].files = {}
    BY DEF Saves!StudioIInv, Saves!FileInOneEdition, Saves!Reserves
  <2>3. ASSUME NEW x \in ExperienceIds, NEW y \in ExperienceIds, v1'[x].status \in {"DRAFT", "PUBLISHED"},
               v1'[y].status \in {"DRAFT", "PUBLISHED"}, EditionOf[x] # EditionOf[y]
        PROVE  v1'[x].files \cap v1'[y].files = {}
    <3>1. CASE x = i
      BY <1>6, <2>1, <2>3, <3>1
    <3>2. CASE y = i
      BY <1>6, <2>1, <2>3, <3>2
    <3>3. CASE x # i /\ y # i
      BY <1>6, <2>2, <2>3, <3>3
    <3> QED BY <3>1, <3>2, <3>3
  <2> QED BY <2>3 DEF Saves!FileInOneEdition, Saves!Reserves
<1>8. Saves!OnePrimary'
  <2>1. \A x, y \in ExperienceIds : x # y /\ EditionOf[x] = EditionOf[y] => ~(v1[x].primary /\ v1[y].primary)
    BY DEF Saves!StudioIInv, Saves!OnePrimary
  <2>2. \A x, y \in ExperienceIds : x # y /\ EditionOf[x] = EditionOf[y] => ~(v1'[x].primary /\ v1'[y].primary)
    BY <1>2, <1>6, <2>1
  <2> QED BY <2>2 DEF Saves!OnePrimary
<1>9. ASSUME NEW s \in Callers \ {r}, v6[s].step = "write", Saves!Stands(v6[s]), v6'[s] = v6[s] PROVE Saves!Stands(v6[s])'
  <2>1. v6[s].wanted = {} /\ v6[r].wanted = {} /\ Saves!Saving(v6[s]) /\ Saves!Saving(v6[r])
    BY <1>1, <1>9 DEF Saves!StudioIInv, Saves!StepsOfOps, Saves!Saving
  <2>2. EditionOf[i] # EditionOf[v6[s].id] /\ v6[r].files \cap v6[s].files = {}
    BY <1>1, <1>9, <2>1, SavesApart DEF Saves!Locked
  <2>3. /\ v6[s].row \in Saves!Experience /\ v6[s].row.files = v6[s].files
        /\ \A y \in ExperienceIds : EditionOf[y] # EditionOf[v6[s].id] /\ v1[y].status \in {"DRAFT", "PUBLISHED"}
                                     => v1[y].files \cap v6[s].files = {}
        /\ v6[s].row.primary => \A z \in ExperienceIds \ {v6[s].id} : EditionOf[z] = EditionOf[v6[s].id] => ~v1[z].primary
    BY <1>9 DEF Saves!Stands, Saves!ClaimedElsewhere, Saves!Reserves
  <2>4. ASSUME NEW y \in ExperienceIds, EditionOf[y] # EditionOf[v6[s].id], v1'[y].status \in {"DRAFT", "PUBLISHED"}
        PROVE  v1'[y].files \cap v6[s].files = {}
    BY <1>2, <1>6, <2>2, <2>3, <2>4
  <2>5. ASSUME v6[s].row.primary, NEW z \in ExperienceIds \ {v6[s].id}, EditionOf[z] = EditionOf[v6[s].id] PROVE ~v1'[z].primary
    BY <1>6, <2>2, <2>3, <2>5
  <2> QED BY <1>9, <2>3, <2>4, <2>5 DEF Saves!Stands, Saves!ClaimedElsewhere, Saves!Reserves
<1> QED BY <1>1, <1>3, <1>4, <1>5, <1>7, <1>8, <1>9, SavesRowsChange

\* Status and nothing else: rows that keep their files and designation, and reserve no more.
LEMMA SavesArchives ==
  ASSUME Saves!ExperiencesAssumption, Saves!StudioIInv, NEW r \in Callers, Saves!ArchiveChildren(r) PROVE Saves!StudioIInv'
<1> DEFINE mine == {x \in ExperienceIds : EditionOf[x] = EditionOf[v6[r].id]}
<1>0. v1 \in [ExperienceIds -> Saves!Experience \cup {Saves!NoExperience}]
  BY SavesTypes
<1>1. /\ v6[r].step = "archive" /\ v6' = [v6 EXCEPT ![r] = Saves!Quiet] /\ UNCHANGED <<v2, v3, v4, v5>>
      /\ v1' = [x \in ExperienceIds |-> IF x \in mine /\ v1[x] # Saves!NoExperience
                                        THEN [v1[x] EXCEPT !.status = "ARCHIVED"] ELSE v1[x]]
  BY DEF Saves!ArchiveChildren, Saves!Become, Saves!locks
<1> HIDE DEF mine
<1>2. ASSUME NEW x \in ExperienceIds
      PROVE  /\ v1'[x] \in Saves!Experience \cup {Saves!NoExperience}
             /\ v1'[x].files = v1[x].files /\ v1'[x].primary = v1[x].primary
             /\ v1'[x].status \in {"DRAFT", "PUBLISHED"} => v1[x].status \in {"DRAFT", "PUBLISHED"}
  <2>1. CASE x \in mine /\ v1[x] # Saves!NoExperience
    <3>1. v1[x] \in Saves!Experience /\ v1'[x] = [v1[x] EXCEPT !.status = "ARCHIVED"]
      BY <1>0, <1>1, <2>1
    <3> QED BY <3>1 DEF Saves!Experience, Saves!Statuses
  <2>2. CASE ~(x \in mine /\ v1[x] # Saves!NoExperience)
    <3>1. v1'[x] = v1[x]
      BY <1>1, <2>2
    <3> QED BY <1>0, <3>1
  <2> QED BY <2>1, <2>2
<1>3. v1' \in [ExperienceIds -> Saves!Experience \cup {Saves!NoExperience}]
  <2>1. v1' = [x \in ExperienceIds |-> v1'[x]]
    BY <1>1
  <2> QED BY <1>2, <2>1
<1>4. Saves!Quiet \in Saves!Request /\ Saves!Quiet.step = "idle" /\ ~Saves!Saving(Saves!Quiet) /\ Saves!Locked(Saves!Quiet) = {}
  BY SavesQuiet DEF Saves!Saving, Saves!Locked
<1>5. /\ v3' \in [Editions -> Callers \cup {Nobody}] /\ v4' \in [Files -> Callers \cup {Nobody}]
      /\ v5' \in [ExperienceIds -> Callers \cup {Nobody}]
  BY <1>1, SavesTypes
<1>6. Saves!LocksHeld'
  <2>1. ~Saves!Saving(v6[r]) /\ Saves!Locked(v6[r]) = {}
    BY <1>1 DEF Saves!Saving, Saves!Locked
  <2> QED BY <1>1, <1>4, <2>1, SavesLocksSame
<1>7. Saves!FileInOneEdition'
  BY <1>2 DEF Saves!StudioIInv, Saves!FileInOneEdition, Saves!Reserves
<1>8. Saves!OnePrimary'
  BY <1>2 DEF Saves!StudioIInv, Saves!OnePrimary
<1>9. ASSUME NEW s \in Callers \ {r}, v6[s].step = "write", Saves!Stands(v6[s]), v6'[s] = v6[s] PROVE Saves!Stands(v6[s])'
  <2>1. ~Saves!ClaimedElsewhere(EditionOf[v6[s].id], v6[s].files) => ~Saves!ClaimedElsewhere(EditionOf[v6[s].id], v6[s].files)'
    BY <1>2, <1>9 DEF Saves!ClaimedElsewhere, Saves!Reserves
  <2> QED BY <1>2, <1>9, <2>1 DEF Saves!Stands
<1> QED BY <1>1, <1>3, <1>4, <1>5, <1>6, <1>7, <1>8, <1>9, SavesRowsChange

\* A publication that lacks a lock goes back for it, or gives up on this experience.
LEMMA SavesAgain ==
  ASSUME Saves!ExperiencesAssumption, Saves!StudioIInv, NEW r \in Callers, Saves!Publish(r), Saves!LacksLocks(v6[r])
  PROVE  Saves!StudioIInv'
<1>0. /\ v6[r] \in Saves!Request /\ v2 \in [Editions -> Saves!Statuses] /\ v6[r].id \in ExperienceIds /\ v6[r].files \subseteq Files
      /\ v1 \in [ExperienceIds -> Saves!Experience \cup {Saves!NoExperience}]
  BY SavesTypes
<1>1. v6[r].op = "publish" /\ v6[r].wanted = {} /\ Saves!Unlock(r) /\ UNCHANGED <<v1, v2>>
  BY DEF Saves!Publish, Saves!StudioIInv, Saves!StepsOfOps
<1>2. ASSUME NEW q \in Saves!Request, v6' = [v6 EXCEPT ![r] = q], q.op = "publish", q.step \in {"loop", "files"},
             q.step = "files" => q.wanted = q.files
      PROVE  Saves!StudioIInv'
  <2>1. ~Saves!Saving(q) /\ Saves!Locked(q) = {}
    BY <1>2 DEF Saves!Saving, Saves!Locked
  <2>2. /\ Saves!LocksHeld'
        /\ v3' \in [Editions -> Callers \cup {Nobody}] /\ v4' \in [Files -> Callers \cup {Nobody}]
        /\ v5' \in [ExperienceIds -> Callers \cup {Nobody}]
    BY <1>1, <1>2, <2>1, SavesUnlocks
  <2>3. v2' \in [Editions -> Saves!Statuses]
    BY <1>0, <1>1
  <2>4. q.step = "files" => Saves!InOrder(q)
    BY <1>2 DEF Saves!InOrder
  <2> QED BY <1>1, <1>2, <2>2, <2>3, <2>4, SavesRowsSame
<1>3. CASE v6[r].tries = Saves!MaxTries
  <2> DEFINE q == [v6[r] EXCEPT !.step = "loop"]
  <2>1. v6' = [v6 EXCEPT ![r] = q]
    BY <1>3 DEF Saves!Publish, Saves!Become
  <2>2. q \in Saves!Request
    BY <1>0, SavesWith
  <2>3. q.op = "publish" /\ q.step = "loop"
    BY <1>0, <1>1 DEF Saves!Request
  <2> HIDE DEF q
  <2> QED BY <1>2, <2>1, <2>2, <2>3
<1>4. CASE v6[r].tries # Saves!MaxTries
  <2> DEFINE again == v6[r].files \cup v1[v6[r].id].files
             more == v6[r].tries + 1
             q1 == [v6[r] EXCEPT !.step = "files"]
             q2 == [q1 EXCEPT !.files = again]
             q3 == [q2 EXCEPT !.wanted = again]
             q == [q3 EXCEPT !.tries = more]
  <2>1. v6' = [v6 EXCEPT ![r] = q]
    <3> DEFINE N == [v6[r] EXCEPT !.step = "files", !.files = again, !.wanted = again, !.tries = @ + 1]
    <3>1. v6' = [v6 EXCEPT ![r] = N]
      BY <1>4 DEF Saves!Publish, Saves!Become
    <3>2. N = q
      BY <1>0 DEF Saves!Request
    <3> HIDE DEF N, q
    <3> QED BY <3>1, <3>2
  <2>2. again \in SUBSET Files
    BY <1>0 DEF Saves!Experience, Saves!NoExperience
  <2>3. more \in 0..Saves!MaxTries
    <3>1. v6[r].tries \in 0..3 /\ v6[r].tries # 3
      BY <1>0, <1>4 DEF Saves!Request, Saves!MaxTries
    <3> QED BY <3>1 DEF Saves!MaxTries
  <2> HIDE DEF again, more
  <2>4. q1 \in Saves!Request
    BY <1>0, SavesWith
  <2>5. q2 \in Saves!Request
    <3> HIDE DEF q1
    <3> QED BY <2>2, <2>4, SavesWith
  <2>6. q3 \in Saves!Request
    <3> HIDE DEF q2
    <3> QED BY <2>2, <2>5, SavesWith
  <2>7. q \in Saves!Request
    <3> HIDE DEF q3
    <3> QED BY <2>3, <2>6, SavesWith
  <2>8. q.op = "publish" /\ q.step = "files" /\ q.wanted = q.files
    BY <1>0, <1>1 DEF Saves!Request
  <2> HIDE DEF q
  <2> QED BY <1>2, <2>1, <2>7, <2>8
<1> QED BY <1>3, <1>4

\* One that holds the locks of all its files publishes the row as it stands.
LEMMA SavesPublished ==
  ASSUME Saves!ExperiencesAssumption, Saves!StudioIInv, NEW r \in Callers, Saves!Publish(r), ~Saves!LacksLocks(v6[r])
  PROVE  Saves!StudioIInv'
<1> DEFINE i == v6[r].id
           q == [v6[r] EXCEPT !.step = "loop"]
<1>0. /\ v6[r] \in Saves!Request /\ i \in ExperienceIds /\ v2 \in [Editions -> Saves!Statuses]
      /\ v1 \in [ExperienceIds -> Saves!Experience \cup {Saves!NoExperience}]
  BY SavesTypes
<1>1. /\ v6[r].step = "row" /\ v6[r].op = "publish" /\ v6[r].wanted = {} /\ Saves!Unlock(r) /\ UNCHANGED v2
      /\ v6' = [v6 EXCEPT ![r] = q]
      /\ v1' = IF Saves!ClaimedElsewhere(EditionOf[i], v1[i].files) THEN v1 ELSE [v1 EXCEPT ![i].status = "PUBLISHED"]
  BY DEF Saves!Publish, Saves!Become, Saves!StudioIInv, Saves!StepsOfOps
<1>2. v1[i].files \subseteq v6[r].files
  BY DEF Saves!LacksLocks
<1>3. q \in Saves!Request
  BY <1>0, SavesWith
<1>4. q.step = "loop" /\ q.op = "publish"
  BY <1>0, <1>1 DEF Saves!Request
<1>5. ~Saves!Saving(q) /\ Saves!Locked(q) = {}
  BY <1>4 DEF Saves!Saving, Saves!Locked
<1> HIDE DEF q
<1>6. /\ Saves!LocksHeld'
      /\ v3' \in [Editions -> Callers \cup {Nobody}] /\ v4' \in [Files -> Callers \cup {Nobody}]
      /\ v5' \in [ExperienceIds -> Callers \cup {Nobody}]
  BY <1>1, <1>3, <1>4, <1>5, SavesUnlocks
<1>7. CASE Saves!ClaimedElsewhere(EditionOf[i], v1[i].files)
  <2>1. UNCHANGED v1 /\ v2' \in [Editions -> Saves!Statuses]
    BY <1>0, <1>1, <1>7
  <2> QED BY <1>1, <1>3, <1>4, <1>6, <2>1, SavesRowsSame
<1>8. CASE ~Saves!ClaimedElsewhere(EditionOf[i], v1[i].files)
  <2>1. v1' = [v1 EXCEPT ![i].status = "PUBLISHED"]
    BY <1>1, <1>8
  <2>2. ASSUME NEW x \in ExperienceIds
        PROVE  v1'[x].files = v1[x].files /\ v1'[x].primary = v1[x].primary /\ (x # i => v1'[x] = v1[x])
    <3>1. v1[x] \in Saves!Experience \cup {Saves!NoExperience}
      BY <1>0
    <3>2. CASE x = i
      BY <1>0, <2>1, <3>1, <3>2 DEF Saves!Experience, Saves!NoExperience
    <3>3. CASE x # i
      BY <1>0, <2>1, <3>3
    <3> QED BY <3>2, <3>3
  <2>3. v1' \in [ExperienceIds -> Saves!Experience \cup {Saves!NoExperience}]
    <3>1. [v1[i] EXCEPT !.status = "PUBLISHED"] \in Saves!Experience
      <4>1. CASE v1[i] \in Saves!Experience
        BY <4>1 DEF Saves!Experience, Saves!Statuses
      <4>2. CASE v1[i] = Saves!NoExperience
        <5>1. Saves!NoExperience \in [status : {"NONE"}, files : SUBSET Files, primary : BOOLEAN]
          BY DEF Saves!NoExperience
        <5>2. \A e \in [status : {"NONE"}, files : SUBSET Files, primary : BOOLEAN] :
                [e EXCEPT !.status = "PUBLISHED"] \in Saves!Experience
          BY DEF Saves!Experience, Saves!Statuses
        <5> QED BY <4>2, <5>1, <5>2
      <4> QED BY <1>0, <4>1, <4>2
    <3>2. v1' = [v1 EXCEPT ![i] = [v1[i] EXCEPT !.status = "PUBLISHED"]]
      BY <2>1
    <3> QED BY <1>0, <3>1, <3>2
  <2>4. \A y \in ExperienceIds : EditionOf[y] # EditionOf[i] /\ v1[y].status \in {"DRAFT", "PUBLISHED"}
                                 => v1[y].files \cap v1[i].files = {}
    BY <1>8 DEF Saves!ClaimedElsewhere, Saves!Reserves
  <2>5. Saves!FileInOneEdition'
    <3>2. \A x, y \in ExperienceIds :
            v1[x].status \in {"DRAFT", "PUBLISHED"} /\ v1[y].status \in {"DRAFT", "PUBLISHED"} /\ EditionOf[x] # EditionOf[y]
              => v1[x].files \cap v1[y].files = {}
      BY DEF Saves!StudioIInv, Saves!FileInOneEdition, Saves!Reserves
    <3>3. ASSUME NEW x \in ExperienceIds, NEW y \in ExperienceIds, v1'[x].status \in {"DRAFT", "PUBLISHED"},
                 v1'[y].status \in {"DRAFT", "PUBLISHED"}, EditionOf[x] # EditionOf[y]
          PROVE  v1'[x].files \cap v1'[y].files = {}
      <4>1. CASE x = i
        BY <2>2, <2>4, <3>3, <4>1
      <4>2. CASE y = i
        BY <2>2, <2>4, <3>3, <4>2
      <4>3. CASE x # i /\ y # i
        BY <2>2, <3>2, <3>3, <4>3
      <4> QED BY <4>1, <4>2, <4>3
    <3> QED BY <3>3 DEF Saves!FileInOneEdition, Saves!Reserves
  <2>6. Saves!OnePrimary'
    BY <2>2 DEF Saves!StudioIInv, Saves!OnePrimary
  <2>7. ASSUME NEW s \in Callers \ {r}, v6[s].step = "write", Saves!Stands(v6[s]), v6'[s] = v6[s] PROVE Saves!Stands(v6[s])'
    <3>1. v6[s].wanted = {} /\ v6[s].step = "write"
      BY <2>7 DEF Saves!StudioIInv, Saves!StepsOfOps
    <3>2. v6[r].files \cap v6[s].files = {}
      BY <1>1, <2>7, <3>1, SavesApart DEF Saves!Locked
    <3>3. /\ v6[s].row \in Saves!Experience /\ v6[s].row.files = v6[s].files
          /\ \A y \in ExperienceIds : EditionOf[y] # EditionOf[v6[s].id] /\ v1[y].status \in {"DRAFT", "PUBLISHED"}
                                       => v1[y].files \cap v6[s].files = {}
          /\ v6[s].row.primary => \A z \in ExperienceIds \ {v6[s].id} : EditionOf[z] = EditionOf[v6[s].id] => ~v1[z].primary
      BY <2>7 DEF Saves!Stands, Saves!ClaimedElsewhere, Saves!Reserves
    <3>4. ASSUME NEW y \in ExperienceIds, EditionOf[y] # EditionOf[v6[s].id], v1'[y].status \in {"DRAFT", "PUBLISHED"}
          PROVE  v1'[y].files \cap v6[s].files = {}
      BY <1>2, <2>2, <3>2, <3>3, <3>4
    <3>5. ASSUME v6[s].row.primary, NEW z \in ExperienceIds \ {v6[s].id}, EditionOf[z] = EditionOf[v6[s].id] PROVE ~v1'[z].primary
      BY <2>2, <3>3, <3>5
    <3> QED BY <2>7, <3>3, <3>4, <3>5 DEF Saves!Stands, Saves!ClaimedElsewhere, Saves!Reserves
  <2> QED BY <1>1, <1>3, <1>4, <1>6, <2>3, <2>5, <2>6, <2>7, SavesRowsChange
<1> QED BY <1>7, <1>8

LEMMA SavesKept == Saves!ExperiencesAssumption /\ Saves!StudioIInv /\ [Saves!StudioNext]_(Saves!studioVars) => Saves!StudioIInv'
<1> SUFFICES ASSUME Saves!ExperiencesAssumption, Saves!StudioIInv, [Saves!StudioNext]_(Saves!studioVars) PROVE Saves!StudioIInv'
  OBVIOUS
<1>1. CASE UNCHANGED Saves!studioVars
  BY <1>1 DEF Saves!studioVars, Saves!StudioIInv, Saves!StudioTypeOK, Saves!LocksHeld, Saves!StepsOfOps, Saves!InOrder, Saves!Decided, Saves!Stands,
              Saves!ClaimedElsewhere, Saves!Reserves, Saves!FileInOneEdition, Saves!OnePrimary
<1>2. CASE Saves!StudioNext
  <2> SUFFICES ASSUME NEW r \in Callers,
         \/ \E x \in ExperienceIds :
              \/ \E form \in Forms[x] : Saves!Create(r, x, form[1], form[2])
              \/ \E form \in Forms[x] \cup Saves!Unsent(x), asked \in Saves!Asked : Saves!Update(r, x, form[1], form[2], asked)
         \/ Saves!LockEdition(r) \/ Saves!LockFile(r) \/ Saves!Decide(r) \/ Saves!Write(r)
         \/ (\E e \in Editions : Saves!Confirm(r, e) \/ Saves!TakeOffSite(r, e)) \/ Saves!PublishNext(r)
         \/ Saves!LockRow(r) \/ Saves!Publish(r) \/ Saves!ArchiveChildren(r) \/ Saves!Fail(r)
       PROVE Saves!StudioIInv'
    BY <1>2 DEF Saves!StudioNext
  <2>1. CASE Saves!Publish(r)
    BY <2>1, SavesAgain, SavesPublished
  <2>2. CASE Saves!Fail(r)
    BY <2>2, SavesEnds DEF Saves!Fail, Saves!Become
  <2> QED BY <2>1, <2>2, SavesOpens, SavesPublishes, SavesEdition, SavesFile, SavesRow, SavesDecides, SavesWrites, SavesArchives
<1> QED BY <1>1, <1>2

(***************************************************************************)
(* No cycle of waiting: who holds a row waits for nothing, who holds an    *)
(* edition waits for files at most, and who holds a file waits for a later *)
(* one.                                                                    *)
(***************************************************************************)
LEMMA SavesHolders ==
  ASSUME Saves!ExperiencesAssumption, Saves!StudioIInv, NEW s \in Callers
  PROVE  /\ \A e \in Editions : v3[e] = s => v6[s].step \in {"files", "write"} /\ v6[s].op # "publish"
         /\ \A f \in Files : v4[f] = s => v6[s].step \in {"files", "write", "row"} /\ f \in v6[s].files \ v6[s].wanted
         /\ \A x \in ExperienceIds : v5[x] = s => v6[s].step = "row"
BY DEF Saves!StudioIInv, Saves!LocksHeld, Saves!Saving, Saves!Locked

LEMMA SavesNoCycle == Saves!ExperiencesAssumption /\ Saves!StudioIInv => Saves!NoWaitCycle
<1> SUFFICES ASSUME Saves!ExperiencesAssumption, Saves!StudioIInv, NEW W \in SUBSET Callers, W # {},
                    \A r \in W : Saves!HolderAwaited(r) \cap W # {}
             PROVE  FALSE
  BY DEF Saves!NoWaitCycle
<1> DEFINE WaitsForFile(r) == v6[r].step = "files" /\ v6[r].wanted # {}
           F == {r \in W : WaitsForFile(r)}
           T == {Saves!NextFile(r) : r \in F}
<1>1. \A r \in W : v6[r].step # "row"
  BY DEF Saves!HolderAwaited
<1>2. \A r \in W : v6[r].id \in ExperienceIds /\ EditionOf[v6[r].id] \in Editions
  BY SavesTypes DEF Saves!ExperiencesAssumption
<1>3. \A r \in W : ~(v6[r].step = "write") /\ (v6[r].step = "files" => v6[r].wanted # {})
  <2> SUFFICES ASSUME NEW r \in W, v6[r].step = "write" \/ (v6[r].step = "files" /\ v6[r].wanted = {}) PROVE FALSE
    OBVIOUS
  <2>1. Saves!HolderAwaited(r) \subseteq {v5[v6[r].id]}
    BY DEF Saves!HolderAwaited
  <2>2. v5[v6[r].id] \in W
    BY <2>1
  <2> QED BY <1>1, <1>2, <2>2, SavesHolders
<1>4. \A r \in W : ~WaitsForFile(r) => v6[r].step = "edition"
  BY <1>1, <1>3 DEF Saves!HolderAwaited
<1>5. F # {}
  <2> SUFFICES ASSUME NEW r \in W, v6[r].step = "edition" PROVE \E s \in W : WaitsForFile(s)
    BY <1>4
  <2>1. v3[EditionOf[v6[r].id]] \in W
    BY DEF Saves!HolderAwaited
  <2> DEFINE s == v3[EditionOf[v6[r].id]]
  <2>2. v6[s].step \in {"files", "write"}
    BY <1>2, <2>1, SavesHolders
  <2> QED BY <1>3, <2>1, <2>2
<1>6. \A r \in F : Saves!NextFile(r) \in Files /\ v4[Saves!NextFile(r)] \in W
  <2> SUFFICES ASSUME NEW r \in F PROVE Saves!NextFile(r) \in Files /\ v4[Saves!NextFile(r)] \in W
    OBVIOUS
  <2>1. r \in W /\ v6[r].step = "files" /\ v6[r].wanted # {}
    OBVIOUS
  <2> HIDE DEF F
  <2>2. Saves!HolderAwaited(r) \subseteq {v4[Saves!NextFile(r)]}
    BY <2>1 DEF Saves!HolderAwaited
  <2>3. v4[Saves!NextFile(r)] \in W
    BY <2>1, <2>2
  <2> QED BY <2>1, <2>3, SavesFirst
<1>7. T \subseteq Nat /\ IsFiniteSet(T) /\ T # {}
  <2>1. T \subseteq Files
    BY <1>6
  <2> HIDE DEF T
  <2>2. IsFiniteSet(T)
    <3>1. IsFiniteSet(Files)
      BY DEF Saves!ExperiencesAssumption, Saves!IsFiniteSet, IsFiniteSet
    <3> QED BY <2>1, <3>1, FS_Subset
  <2>3. T # {}
    BY <1>5 DEF T
  <2> QED BY <2>1, <2>2, <2>3 DEF Saves!ExperiencesAssumption
<1>8. PICK r \in F : \A s \in F : Saves!NextFile(s) <= Saves!NextFile(r)
  <2>1. PICK t \in T : \A u \in T : u <= t
    <3> HIDE DEF T
    <3> QED BY <1>7, GreatestOfFinite
  <2> QED BY <2>1
<1> DEFINE s == v4[Saves!NextFile(r)]
<1>9. s \in W /\ s \in Callers
  BY <1>6
<1>10. v6[s].step \in {"files", "write", "row"} /\ Saves!NextFile(r) \in v6[s].files \ v6[s].wanted
  BY <1>6, <1>9, SavesHolders
<1>11. s \in F /\ v6[s].step = "files" /\ v6[s].wanted # {}
  BY <1>1, <1>3, <1>9, <1>10
<1> HIDE DEF s, F, T
<1>12. Saves!NextFile(s) \in v6[s].wanted /\ Saves!NextFile(s) \in Files
  BY <1>9, <1>11, SavesFirst
<1>13. Saves!NextFile(r) < Saves!NextFile(s)
  BY <1>9, <1>10, <1>11, <1>12 DEF Saves!StudioIInv, Saves!StepsOfOps, Saves!InOrder
<1>14. Saves!NextFile(s) <= Saves!NextFile(r)
  BY <1>8, <1>11
<1>15. Saves!NextFile(r) \in Nat /\ Saves!NextFile(s) \in Nat
  BY <1>6, <1>8, <1>12 DEF Saves!ExperiencesAssumption
<1> QED BY <1>13, <1>14, <1>15

-----------------------------------------------------------------------------
(***************************************************************************)
(* Publication.  A track keeps the number it was given, and whoever is about *)
(* to save a published row has seen the stored URI on chain.               *)
(***************************************************************************)
LEMMA TracksStep ==
  part = "tracks" /\ [NextOne]_allVars => part' = "tracks" /\ [Release!PubNext]_(Release!pubVars)
BY DEF NextOne, Steps, allVars, vVars, Release!pubVars

USE DEF Release!Orderly

LEMMA TracksResting ==
  /\ Release!Resting \in Release!Work /\ Release!NoEdition \in Release!EditionRow /\ Release!NoAttempt.uri = NoUri
  /\ Release!Resting.step = "idle" /\ Release!NoEdition.status = "NONE"
<1>1. Release!NoEdition \in Release!EditionRow
  BY DEF Release!NoEdition, Release!NoAttempt, Release!EditionRow
<1> QED BY <1>1 DEF Release!Resting, Release!Work, Release!NoEdition, Release!NoAttempt

LEMMA TracksStart == Release!PublicationAssumption /\ Release!PubInit => Release!PubIInv
<1> SUFFICES ASSUME Release!PublicationAssumption, Release!PubInit PROVE Release!PubIInv
  OBVIOUS
<1>1. /\ \A e \in Instances : v1[e] = Release!NoEdition
      /\ \A t \in Callers : v8[t] = Release!Resting
      /\ v2 = <<>> /\ v5 = <<>>
  BY DEF Release!PubInit
<1>2. Release!PubTypeOK
  BY TracksResting DEF Release!PubInit, Release!PubTypeOK
<1>3. Release!NumbersGiven
  BY <1>1, TracksResting DEF Release!NumbersGiven
<1>4. \A t \in Callers : Release!Grounded(v8[t]) /\ v8[t].step # "creating"
  BY <1>1, TracksResting DEF Release!Grounded
<1>5. \A e \in Instances : Release!StandsOnChain(e, v1[e])
  BY <1>1, TracksResting DEF Release!StandsOnChain
<1> QED BY <1>2, <1>3, <1>4, <1>5 DEF Release!PubIInv

LEMMA TracksTypes ==
  ASSUME Release!PubIInv, NEW t \in Callers
  PROVE  /\ v1 \in [Instances -> Release!EditionRow] /\ v2 \in Seq(Release!TokenRow) /\ v3 \in {"DRAFT", "PUBLISHED"}
         /\ v4 \in Callers \cup {Nobody} /\ v5 \in Seq(XUsers) /\ v6 \subseteq [n : Nat, uri : XUsers] /\ v7 \in Nat
         /\ v8 \in [Callers -> Release!Work] /\ v8[t] \in Release!Work /\ Release!Grounded(v8[t])
         /\ DOMAIN v2 = 1..Len(v2) /\ Len(v2) \in Nat /\ DOMAIN v5 = 1..Len(v5) /\ Len(v5) \in Nat
BY DEF Release!PubIInv, Release!PubTypeOK

\* A request with one field changed is one.
LEMMA TracksWith ==
  ASSUME NEW q \in Release!Work
  PROVE  /\ \A v \in {"idle", "new", "creating", "repost", "update", "metadata", "store", "sign", "sent",
                      "verify", "adopt", "edition", "release"} : [q EXCEPT !.step = v] \in Release!Work
         /\ \A v \in Instances : [q EXCEPT !.e = v] \in Release!Work
         /\ \A v \in Nat : [q EXCEPT !.n = v] \in Release!Work
         /\ \A v \in Release!EditionRow : [q EXCEPT !.row = v] \in Release!Work
         /\ \A v \in XUsers \cup {NoUri} : [q EXCEPT !.uri = v] \in Release!Work
BY DEF Release!Work

(***************************************************************************)
(* What a step must respect: numbers stay with their editions, and what is *)
(* on chain and stored stays so.                                           *)
(***************************************************************************)
Respects(t, q) ==
  /\ v1' \in [Instances -> Release!EditionRow] /\ v2' \in Seq(Release!TokenRow) /\ v3' \in {"DRAFT", "PUBLISHED"}
  /\ v4' \in Callers \cup {Nobody} /\ v5' = v5 /\ v6' \subseteq [n : Nat, uri : XUsers] /\ v7' \in Nat
  /\ Release!NumbersGiven'
  /\ \A n \in DOMAIN v2 : n \in DOMAIN v2' /\ v2'[n].edition = v2[n].edition /\ (Release!Stored(n) => Release!Stored(n)')
  /\ \A e \in Instances : v1[e].status # "NONE" => v1'[e].status # "NONE"
  /\ \A s \in Callers \ {t} :
       /\ v8[s].step = "creating" =>
          v4' = s /\ Len(v2') = Len(v2) /\ (v1'[v8[s].e].status = "NONE" <=> v1[v8[s].e].status = "NONE")
       /\ v8[s].step = "verify" => v2'[v8[s].n].uri = v2[v8[s].n].uri \/ Release!Stored(v8[s].n)'
  /\ Release!Grounded(q)' /\ (q.step = "creating" => v4' = t)
  /\ \A e \in Instances : Release!StandsOnChain(e, v1[e])'

LEMMA TracksFrame ==
  ASSUME Release!PublicationAssumption, Release!PubIInv, NEW t \in Callers, NEW q \in Release!Work, v8' = [v8 EXCEPT ![t] = q],
         Respects(t, q)
  PROVE  Release!PubIInv'
<1> USE DEF Respects
<1>1. /\ v8' \in [Callers -> Release!Work] /\ v8'[t] = q /\ \A s \in Callers : s # t => v8'[s] = v8[s]
  BY TracksTypes
<1>2. Release!PubTypeOK'
  BY <1>1, TracksTypes DEF Release!PubTypeOK
<1>3. \A n : Release!OnChain(n)' <=> Release!OnChain(n)
  BY DEF Release!OnChain
<1>4. ASSUME NEW s \in Callers \ {t} PROVE Release!Grounded(v8[s])'
  <2> DEFINE p == v8[s]
  <2>1. Release!Grounded(p) /\ p \in Release!Work
    BY TracksTypes
  <2>0. p' = p
    BY <1>1
  <2> HIDE DEF p
  <2>2. Release!OfTrack(p) => Release!OfTrack(p)'
    BY <2>0 DEF Release!OfTrack
  <2>3. p.step = "creating" => p.e \in Instances /\ IF v1'[p.e].status = "NONE" THEN p.n = Len(v2') + 1 ELSE Release!OfTrack(p)'
    BY <2>0, <2>1, <2>2 DEF Release!Grounded, p
  <2>4. p.step \in {"repost", "metadata", "store", "sign", "verify", "adopt", "edition", "release"} => Release!OfTrack(p)'
    BY <2>1, <2>2 DEF Release!Grounded
  <2>5. p.step = "sent" => v2' # <<>>
    <3>1. p.step = "sent" => v2 # <<>>
      BY <2>1 DEF Release!Grounded
    <3>2. v2 # <<>> => 1 \in DOMAIN v2
      BY TracksTypes
    <3>3. 1 \in DOMAIN v2' => v2' # <<>>
      OBVIOUS
    <3> QED BY <3>1, <3>2, <3>3
  <2>6. p.step = "verify" => Release!Stored(p.n)' \/ p.uri = v2'[p.n].uri
    <3> SUFFICES ASSUME p.step = "verify" PROVE Release!Stored(p.n)' \/ p.uri = v2'[p.n].uri
      OBVIOUS
    <3>1. p.n \in DOMAIN v2 /\ (Release!Stored(p.n) \/ p.uri = v2[p.n].uri)
      BY <2>1 DEF Release!Grounded, Release!OfTrack
    <3>2. v2'[p.n].uri = v2[p.n].uri \/ Release!Stored(p.n)'
      BY <2>0 DEF p
    <3> QED BY <2>0, <3>1, <3>2
  <2>7. p.step \in {"adopt", "edition"} => (Release!OnChain(p.n) /\ p.uri = v5[p.n])'
    BY <1>3, <2>0, <2>1 DEF Release!Grounded
  <2>8. p.step = "edition" => Release!Stored(p.n)'
    <3>1. p.step = "edition" => p.n \in DOMAIN v2 /\ Release!Stored(p.n)
      BY <2>1 DEF Release!Grounded, Release!OfTrack
    <3> QED BY <2>0, <3>1
  <2>9. p.step = "update" => /\ p.e \in Instances /\ v1'[p.e].status # "NONE" /\ p.row.status # "NONE"
                             /\ Release!StandsOnChain(p.e, p.row)'
    <3> SUFFICES ASSUME p.step = "update"
                 PROVE  p.e \in Instances /\ v1'[p.e].status # "NONE" /\ p.row.status # "NONE" /\ Release!StandsOnChain(p.e, p.row)'
      OBVIOUS
    <3>1. p.e \in Instances /\ v1[p.e].status # "NONE" /\ p.row.status # "NONE" /\ Release!StandsOnChain(p.e, p.row)
      BY <2>1 DEF Release!Grounded
    <3>2. ASSUME p.row.status = "PUBLISHED", NEW n \in DOMAIN v2', v2'[n].edition = p.e
          PROVE  Release!Stored(n)' /\ (Release!Orderly => p.row.attempt = Release!NoAttempt \/ p.row.attempt.uri = v5[n])
      <4>1. PICK m \in DOMAIN v2 : v2[m].edition = p.e
        BY <3>1 DEF Release!PubIInv, Release!NumbersGiven
      <4>2. m = n
        BY <3>2, <4>1 DEF Release!NumbersGiven
      <4>3. Release!Stored(m) /\ (Release!Orderly => p.row.attempt = Release!NoAttempt \/ p.row.attempt.uri = v5[m])
        BY <3>1, <3>2, <4>1 DEF Release!StandsOnChain
      <4> QED BY <4>1, <4>2, <4>3
    <3>3. Release!StandsOnChain(p.e, p.row)'
      BY <2>0, <3>2 DEF Release!StandsOnChain
    <3> QED BY <3>1, <3>3
  <2>10. p.step = "new" => p.e \in Instances
    BY <2>1 DEF Release!Grounded
  <2>11. p.step = "sign" => p.uri \in XUsers
    BY <2>1 DEF Release!Grounded
  <2>12. Release!Grounded(p)'
    BY <2>0, <2>3, <2>4, <2>5, <2>6, <2>7, <2>8, <2>9, <2>10, <2>11 DEF Release!Grounded
  <2> QED BY <2>12 DEF p
<1>5. ASSUME NEW s \in Callers PROVE Release!Grounded(v8[s])' /\ (v8'[s].step = "creating" => v4' = s)
  <2>1. CASE s = t
    BY <1>1, <2>1 DEF Release!PubIInv
  <2>2. CASE s # t
    BY <1>1, <1>4, <2>2 DEF Release!PubIInv
  <2> QED BY <2>1, <2>2
<1> QED BY <1>2, <1>5 DEF Release!PubIInv

\* A step that reads: rows, numbers and the chain are as before.
LEMMA TracksReads ==
  ASSUME Release!PublicationAssumption, Release!PubIInv, NEW t \in Callers, NEW q \in Release!Work, v8' = [v8 EXCEPT ![t] = q],
         UNCHANGED <<v1, v2, v5>>, v3' \in {"DRAFT", "PUBLISHED"},
         v4' \in Callers \cup {Nobody}, v6' \subseteq [n : Nat, uri : XUsers], v7' \in Nat,
         \A s \in Callers \ {t} : v8[s].step = "creating" => v4' = s,
         Release!Grounded(q), q.step = "creating" => v4' = t
  PROVE  Release!PubIInv'
<1>1. v1' \in [Instances -> Release!EditionRow] /\ v2' \in Seq(Release!TokenRow) /\ v5' = v5
  BY TracksTypes
<1>2. Release!NumbersGiven'
  BY DEF Release!PubIInv, Release!NumbersGiven
<1>3. \A n \in DOMAIN v2 : n \in DOMAIN v2' /\ v2'[n].edition = v2[n].edition /\ (Release!Stored(n) => Release!Stored(n)')
  BY DEF Release!Stored, Release!OnChain
<1>4. Release!Grounded(q)'
  BY DEF Release!Grounded, Release!OfTrack, Release!Stored, Release!OnChain, Release!StandsOnChain
<1>5. \A e \in Instances : Release!StandsOnChain(e, v1[e])'
  BY DEF Release!PubIInv, Release!StandsOnChain, Release!Stored, Release!OnChain
<1>6. \A s \in Callers \ {t} : v8[s].step = "creating" =>
          v4' = s /\ Len(v2') = Len(v2) /\ (v1'[v8[s].e].status = "NONE" <=> v1[v8[s].e].status = "NONE")
  OBVIOUS
<1>7. Respects(t, q)
  BY <1>1, <1>2, <1>3, <1>4, <1>5, <1>6 DEF Respects
<1> QED BY <1>7, TracksFrame

LEMMA TracksNumber ==
  ASSUME Release!PubIInv, NEW e \in Instances, v1[e].status # "NONE"
  PROVE  Release!NumberOf(e) \in DOMAIN v2 /\ v2[Release!NumberOf(e)].edition = e
<1>1. \E n \in DOMAIN v2 : v2[n].edition = e
  BY DEF Release!PubIInv, Release!NumbersGiven
<1> QED BY <1>1 DEF Release!NumberOf

LEMMA TracksCandidate ==
  ASSUME Release!PubIInv, v2 # <<>> \/ Release!OpenNumbers # {}
  PROVE  LET n == Release!Candidate
         IN  n \in DOMAIN v2 /\ n \in Nat /\ v2[n].edition \in Instances /\ v1[v2[n].edition].status # "NONE"
<1>0. v2 \in Seq(Release!TokenRow) /\ DOMAIN v2 = 1..Len(v2) /\ Len(v2) \in Nat
  BY DEF Release!PubIInv, Release!PubTypeOK
<1>1. Release!Candidate \in DOMAIN v2
  <2>1. CASE Release!OpenNumbers = {}
    <3>1. Len(v2) \in DOMAIN v2
      BY <1>0, <2>1
    <3> QED BY <2>1, <3>1 DEF Release!Candidate
  <2>2. CASE Release!OpenNumbers # {}
    <3>1. Release!OpenNumbers \subseteq Nat /\ Release!OpenNumbers \subseteq DOMAIN v2
      BY <1>0 DEF Release!OpenNumbers
    <3>2. \E n \in Release!OpenNumbers : \A m \in Release!OpenNumbers : n <= m
      BY <2>2, <3>1, LeastOfNaturals
    <3>3. Release!Candidate \in Release!OpenNumbers
      BY <2>2, <3>2 DEF Release!Candidate
    <3> QED BY <3>1, <3>3
  <2> QED BY <2>1, <2>2
<1>2. ASSUME NEW n \in DOMAIN v2 PROVE n \in Nat /\ v2[n].edition \in Instances
  <2>1. n \in Nat /\ v2[n] \in Release!TokenRow
    BY <1>0
  <2> QED BY <2>1 DEF Release!TokenRow
<1>3. \A n \in DOMAIN v2 : v1[v2[n].edition].status # "NONE"
  BY <1>2 DEF Release!PubIInv, Release!NumbersGiven
<1> QED BY <1>1, <1>2, <1>3

LEMMA TracksCreates ==
  ASSUME Release!PublicationAssumption, Release!PubIInv, NEW t \in Callers,
         (\E e \in Instances : Release!CreateRead(t, e)) \/ Release!CreateLock(t)
  PROVE  Release!PubIInv'
<1>1. ASSUME NEW e \in Instances, Release!CreateRead(t, e) PROVE Release!PubIInv'
  <2> DEFINE q1 == [Release!Resting EXCEPT !.step = "new"]
             q == [q1 EXCEPT !.e = e]
  <2>1. v8' = [v8 EXCEPT ![t] = q] /\ UNCHANGED <<v1, v2, v3, v4, v5, v6, v7>>
    BY <1>1 DEF Release!CreateRead, Release!Go, Release!database, Release!chainState
  <2>2. q1 \in Release!Work
    BY TracksResting, TracksWith
  <2>3. q \in Release!Work
    <3> HIDE DEF q1
    <3> QED BY <2>2, TracksWith
  <2>4. q.step = "new" /\ q.e = e
    BY DEF Release!Resting
  <2> HIDE DEF q
  <2>5. Release!Grounded(q)
    BY <2>4 DEF Release!Grounded
  <2>6. /\ v3' \in {"DRAFT", "PUBLISHED"} /\ v4' \in Callers \cup {Nobody} /\ v6' \subseteq [n : Nat, uri : XUsers] /\ v7' \in Nat
        /\ \A s \in Callers : v8[s].step = "creating" => v4' = s
    BY <2>1, TracksTypes DEF Release!PubIInv
  <2> QED BY <2>1, <2>3, <2>4, <2>5, <2>6, TracksReads
<1>2. CASE Release!CreateLock(t)
  <2> DEFINE e == v8[t].e
             k == Release!Reserved(e)
             q1 == [v8[t] EXCEPT !.step = "creating"]
             q == [q1 EXCEPT !.n = k]
  <2>1. /\ v8[t].step = "new" /\ v4 = Nobody /\ v4' = t /\ v8' = [v8 EXCEPT ![t] = q]
        /\ UNCHANGED <<v1, v2, v3, v5, v6, v7>>
    BY <1>2 DEF Release!CreateLock, Release!Go, Release!chainState
  <2>2. e \in Instances
    BY <2>1, TracksTypes DEF Release!Grounded
  <2>3. k \in Nat /\ IF v1[e].status = "NONE" THEN k = Len(v2) + 1 ELSE k \in DOMAIN v2 /\ v2[k].edition = e
    BY <2>2, TracksNumber, TracksTypes DEF Release!Reserved
  <2> HIDE DEF k
  <2>4. q1 \in Release!Work
    BY TracksTypes, TracksWith
  <2>5. q \in Release!Work
    <3> HIDE DEF q1
    <3> QED BY <2>3, <2>4, TracksWith
  <2>6. q.step = "creating" /\ q.e = e /\ q.n = k
    BY TracksTypes DEF Release!Work
  <2> HIDE DEF q
  <2>7. Release!Grounded(q)
    BY <2>2, <2>3, <2>6 DEF Release!Grounded, Release!OfTrack
  <2>8. /\ v3' \in {"DRAFT", "PUBLISHED"} /\ v4' \in Callers \cup {Nobody} /\ v6' \subseteq [n : Nat, uri : XUsers] /\ v7' \in Nat
    BY <2>1, TracksTypes
  <2>9. \A s \in Callers : v8[s].step # "creating"
    BY <2>1 DEF Release!PubIInv, Release!PublicationAssumption
  <2> QED BY <2>1, <2>5, <2>6, <2>7, <2>8, <2>9, TracksReads
<1> QED BY <1>1, <1>2

\* Steps of one tab that leave the database and the chain alone.
LEMMA TracksGoes ==
  ASSUME Release!PublicationAssumption, Release!PubIInv, NEW t \in Callers, NEW q \in Release!Work, v8' = [v8 EXCEPT ![t] = q],
         UNCHANGED <<v1, v2, v3, v4, v5, v6, v7>>, Release!Grounded(q), q.step # "creating"
  PROVE  Release!PubIInv'
<1>1. /\ v3' \in {"DRAFT", "PUBLISHED"} /\ v4' \in Callers \cup {Nobody} /\ v6' \subseteq [n : Nat, uri : XUsers] /\ v7' \in Nat
      /\ \A s \in Callers : v8[s].step = "creating" => v4' = s
  BY TracksTypes DEF Release!PubIInv
<1> QED BY <1>1, TracksReads

LEMMA TracksRests ==
  ASSUME Release!PublicationAssumption, Release!PubIInv, NEW t \in Callers, v8' = [v8 EXCEPT ![t] = Release!Resting],
         UNCHANGED <<v1, v2, v3, v4, v5, v6, v7>>
  PROVE  Release!PubIInv'
<1>1. Release!Grounded(Release!Resting)
  BY TracksResting DEF Release!Grounded
<1> QED BY <1>1, TracksResting, TracksGoes

\* A row read with another field in its attempt is a row.
LEMMA TracksRow ==
  ASSUME NEW row \in Release!EditionRow
  PROVE  /\ [row EXCEPT !.attempt = Release!NoAttempt] \in Release!EditionRow
         /\ [row EXCEPT !.attempt = Release!NoAttempt].status = row.status
         /\ [row EXCEPT !.attempt = Release!NoAttempt].attempt = Release!NoAttempt
         /\ \A u \in XUsers \cup {NoUri} : /\ [row EXCEPT !.attempt.uri = u] \in Release!EditionRow
                                           /\ [row EXCEPT !.attempt.uri = u].status = row.status
                                           /\ [row EXCEPT !.attempt.uri = u].attempt.uri = u
BY DEF Release!EditionRow, Release!NoAttempt

LEMMA TracksTokens ==
  ASSUME Release!PubIInv, NEW n \in DOMAIN v2
  PROVE  n \in Nat /\ v2[n] \in Release!TokenRow /\ v2[n].edition \in Instances /\ v2[n].uri \in XUsers \cup {NoUri}
<1>1. v2 \in Seq(Release!TokenRow) /\ DOMAIN v2 = 1..Len(v2) /\ Len(v2) \in Nat
  BY DEF Release!PubIInv, Release!PubTypeOK
<1>2. n \in Nat /\ v2[n] \in Release!TokenRow
  BY <1>1
<1> QED BY <1>2 DEF Release!TokenRow

LEMMA TracksReposts ==
  ASSUME Release!PublicationAssumption, Release!PubIInv, NEW t \in Callers, NEW e \in Instances, Release!RepostRead(t, e)
  PROVE  Release!PubIInv'
<1> DEFINE k == Release!NumberOf(e)
           q1 == [Release!Resting EXCEPT !.step = "repost"]
           q2 == [q1 EXCEPT !.e = e]
           q == [q2 EXCEPT !.n = k]
<1>1. v1[e].status = "DRAFT" /\ v8' = [v8 EXCEPT ![t] = q] /\ UNCHANGED <<v1, v2, v3, v4, v5, v6, v7>>
  BY DEF Release!RepostRead, Release!Go, Release!database, Release!chainState
<1>2. k \in DOMAIN v2 /\ v2[k].edition = e
  BY <1>1, TracksNumber
<1>3. k \in Nat
  BY <1>2, TracksTokens
<1> HIDE DEF k
<1>4. q1 \in Release!Work
  BY TracksResting, TracksWith
<1>5. q2 \in Release!Work
  <2> HIDE DEF q1
  <2> QED BY <1>4, TracksWith
<1>6. q \in Release!Work
  <2> HIDE DEF q2
  <2> QED BY <1>3, <1>5, TracksWith
<1>7. q.step = "repost" /\ q.e = e /\ q.n = k
  BY DEF Release!Resting
<1> HIDE DEF q
<1>8. Release!Grounded(q)
  BY <1>2, <1>7 DEF Release!Grounded, Release!OfTrack
<1> QED BY <1>1, <1>6, <1>7, <1>8, TracksGoes

\* A request that will save the row of e as given.
LEMMA TracksSaves ==
  ASSUME Release!PublicationAssumption, Release!PubIInv, NEW t \in Callers, NEW e \in Instances, NEW row \in Release!EditionRow,
         v8' = [v8 EXCEPT ![t] = [Release!Resting EXCEPT !.step = "update", !.e = e, !.row = row]],
         UNCHANGED <<v1, v2, v3, v4, v5, v6, v7>>, v1[e].status # "NONE", row.status # "NONE", Release!StandsOnChain(e, row)
  PROVE  Release!PubIInv'
<1> DEFINE q1 == [Release!Resting EXCEPT !.step = "update"]
           q2 == [q1 EXCEPT !.e = e]
           q == [q2 EXCEPT !.row = row]
<1>1. v8' = [v8 EXCEPT ![t] = q]
  OBVIOUS
<1>2. q1 \in Release!Work
  BY TracksResting, TracksWith
<1>3. q2 \in Release!Work
  <2> HIDE DEF q1
  <2> QED BY <1>2, TracksWith
<1>4. q \in Release!Work
  <2> HIDE DEF q2
  <2> QED BY <1>3, TracksWith
<1>5. q.step = "update" /\ q.e = e /\ q.row = row
  BY DEF Release!Resting
<1> HIDE DEF q
<1>6. Release!Grounded(q)
  BY <1>5 DEF Release!Grounded
<1> QED BY <1>1, <1>4, <1>5, <1>6, TracksGoes

LEMMA TracksUpdates ==
  ASSUME Release!PublicationAssumption, Release!PubIInv, NEW t \in Callers, NEW e \in Instances, NEW replace \in BOOLEAN,
         Release!UpdateRead(t, e, replace)
  PROVE  Release!PubIInv'
<1> DEFINE row == IF replace THEN [v1[e] EXCEPT !.attempt = Release!NoAttempt] ELSE v1[e]
<1>1. /\ v1[e].status # "NONE" /\ (replace => v1[e].status = "DRAFT")
      /\ v8' = [v8 EXCEPT ![t] = [Release!Resting EXCEPT !.step = "update", !.e = e, !.row = row]]
      /\ UNCHANGED <<v1, v2, v3, v4, v5, v6, v7>>
  BY DEF Release!UpdateRead, Release!Go, Release!database, Release!chainState
<1>2. v1[e] \in Release!EditionRow /\ Release!StandsOnChain(e, v1[e])
  BY TracksTypes DEF Release!PubIInv
<1>3. row \in Release!EditionRow /\ row.status = v1[e].status
  BY <1>2, TracksRow
<1>4. Release!StandsOnChain(e, row)
  <2>1. CASE replace
    BY <1>1, <1>3, <2>1 DEF Release!StandsOnChain
  <2>2. CASE ~replace
    BY <1>2, <2>2
  <2> QED BY <2>1, <2>2
<1> HIDE DEF row
<1> QED BY <1>1, <1>3, <1>4, TracksSaves

LEMMA TracksRecords ==
  ASSUME Release!PublicationAssumption, Release!PubIInv, NEW t \in Callers, Release!RecordRead(t)
  PROVE  Release!PubIInv'
<1> DEFINE k == Release!Candidate
           e == v2[k].edition
           row == [v1[e] EXCEPT !.attempt.uri = v2[k].uri]
<1>1. UNCHANGED <<v1, v2, v3, v4, v5, v6, v7>> /\ v8[t].step = "sent"
  BY DEF Release!RecordRead, Release!database, Release!chainState
<1>2. v2 # <<>>
  BY <1>1, TracksTypes DEF Release!Grounded
<1>3. k \in DOMAIN v2 /\ e \in Instances /\ v1[e].status # "NONE"
  BY <1>2, TracksCandidate
<1>4. CASE v2[k].uri = NoUri \/ v1[e].attempt # Release!NoAttempt
  <2>1. v8' = [v8 EXCEPT ![t] = Release!Resting]
    BY <1>4 DEF Release!RecordRead, Release!Rest, Release!Go
  <2> QED BY <1>1, <2>1, TracksRests
<1>5. CASE ~(v2[k].uri = NoUri \/ v1[e].attempt # Release!NoAttempt)
  <2>1. v8' = [v8 EXCEPT ![t] = [Release!Resting EXCEPT !.step = "update", !.e = e, !.row = row]]
    BY <1>5 DEF Release!RecordRead, Release!Go
  <2>2. v2[k].uri \in XUsers \cup {NoUri} /\ v1[e] \in Release!EditionRow /\ Release!StandsOnChain(e, v1[e])
    BY <1>3, TracksTokens, TracksTypes DEF Release!PubIInv
  <2>3. row \in Release!EditionRow /\ row.status = v1[e].status /\ row.attempt.uri = v2[k].uri
    BY <2>2, TracksRow
  <2> HIDE DEF k
  <2>4. Release!StandsOnChain(e, row)
    <3> HIDE DEF row
    <3>1. ASSUME row.status = "PUBLISHED", NEW n \in DOMAIN v2, v2[n].edition = e
          PROVE  Release!Stored(n) /\ (Release!Orderly => row.attempt.uri = v5[n])
      <4>1. n = k
        BY <1>3, <3>1 DEF Release!PubIInv, Release!NumbersGiven
      <4>2. Release!Stored(n)
        BY <2>2, <2>3, <3>1 DEF Release!StandsOnChain
      <4> QED BY <2>3, <4>1, <4>2 DEF Release!Stored
    <3> QED BY <3>1 DEF Release!StandsOnChain
  <2> HIDE DEF row, e
  <2> QED BY <1>1, <1>3, <2>1, <2>3, <2>4, TracksSaves
<1> QED BY <1>4, <1>5

LEMMA TracksMetadata ==
  ASSUME Release!PublicationAssumption, Release!PubIInv, NEW t \in Callers,
         Release!MetadataRead(t) \/ \E readable \in BOOLEAN : Release!MetadataCheck(t, readable)
  PROVE  Release!PubIInv'
<1>1. UNCHANGED <<v1, v2, v3, v4, v5, v6, v7>>
  BY DEF Release!MetadataRead, Release!MetadataCheck, Release!database, Release!chainState
<1>2. CASE Release!MetadataRead(t)
  <2> DEFINE k == Release!Candidate
             e == v2[k].edition
             q1 == [Release!Resting EXCEPT !.step = "metadata"]
             q2 == [q1 EXCEPT !.e = e]
             q == [q2 EXCEPT !.n = k]
  <2>1. Release!OpenNumbers # {} /\ v8' = [v8 EXCEPT ![t] = q]
    BY <1>2 DEF Release!MetadataRead, Release!Go
  <2>2. k \in DOMAIN v2 /\ k \in Nat /\ e \in Instances
    BY <2>1, TracksCandidate
  <2> HIDE DEF k
  <2>3. q1 \in Release!Work
    BY TracksResting, TracksWith
  <2>4. q2 \in Release!Work
    <3> HIDE DEF q1
    <3> QED BY <2>2, <2>3, TracksWith
  <2>5. q \in Release!Work
    <3> HIDE DEF q2
    <3> QED BY <2>2, <2>4, TracksWith
  <2>6. q.step = "metadata" /\ q.e = e /\ q.n = k
    BY DEF Release!Resting
  <2> HIDE DEF q
  <2>7. Release!Grounded(q)
    BY <2>2, <2>6 DEF Release!Grounded, Release!OfTrack
  <2> QED BY <1>1, <2>1, <2>5, <2>6, <2>7, TracksGoes
<1>3. CASE \E readable \in BOOLEAN : Release!MetadataCheck(t, readable)
  <2> DEFINE q == [v8[t] EXCEPT !.step = "store"]
  <2>1. v8[t].step = "metadata" /\ (v8' = [v8 EXCEPT ![t] = q] \/ v8' = [v8 EXCEPT ![t] = Release!Resting])
    BY <1>3 DEF Release!MetadataCheck, Release!Go, Release!Rest
  <2>2. v8[t] \in Release!Work /\ Release!Grounded(v8[t])
    BY TracksTypes
  <2>3. q.step = "store" /\ q.n = v8[t].n /\ q.e = v8[t].e
    BY <2>2 DEF Release!Work
  <2>5. q \in Release!Work
    BY <2>2, TracksWith
  <2> HIDE DEF q
  <2>4. Release!Grounded(q)
    BY <2>1, <2>2, <2>3 DEF Release!Grounded, Release!OfTrack
  <2> QED BY <1>1, <2>1, <2>3, <2>4, <2>5, TracksGoes, TracksRests
<1> QED BY <1>2, <1>3

LEMMA TracksSigns ==
  ASSUME Release!PublicationAssumption, Release!PubIInv, NEW t \in Callers, Release!Sign(t)
  PROVE  Release!PubIInv'
<1> DEFINE q == [Release!Resting EXCEPT !.step = "sent"]
<1>1. /\ v8[t].step = "sign" /\ v8' = [v8 EXCEPT ![t] = q] /\ v6' = v6 \cup {[n |-> v8[t].n, uri |-> v8[t].uri]} /\ v7' = v7 + 1
      /\ UNCHANGED <<v1, v2, v3, v4, v5>>
  BY DEF Release!Sign, Release!Go, Release!database
<1>2. v8[t] \in Release!Work /\ Release!Grounded(v8[t]) /\ v6 \subseteq [n : Nat, uri : XUsers] /\ v7 \in Nat
  BY TracksTypes
<1>3. v8[t].n \in Nat /\ v8[t].n \in DOMAIN v2 /\ v8[t].uri \in XUsers
  BY <1>1, <1>2 DEF Release!Grounded, Release!OfTrack, Release!Work
<1>4. v6' \subseteq [n : Nat, uri : XUsers] /\ v7' \in Nat
  BY <1>1, <1>2, <1>3
<1>5. q \in Release!Work
  BY TracksResting, TracksWith
<1>6. q.step = "sent"
  BY DEF Release!Resting
<1> HIDE DEF q
<1>7. Release!Grounded(q)
  BY <1>3, <1>6 DEF Release!Grounded
<1>8. /\ v3' \in {"DRAFT", "PUBLISHED"} /\ v4' \in Callers \cup {Nobody}
      /\ \A s \in Callers : v8[s].step = "creating" => v4' = s
  BY <1>1, TracksTypes DEF Release!PubIInv
<1> QED BY <1>1, <1>4, <1>5, <1>6, <1>7, <1>8, TracksReads

LEMMA TracksConfirms ==
  ASSUME Release!PublicationAssumption, Release!PubIInv, NEW t \in Callers,
         (\E accept \in BOOLEAN : Release!ConfirmRead(t, accept)) \/ Release!Verify(t)
  PROVE  Release!PubIInv'
<1>1. UNCHANGED <<v1, v2, v3, v4, v5, v6, v7>>
  BY DEF Release!ConfirmRead, Release!Verify, Release!database, Release!chainState
<1>2. ASSUME NEW accept \in BOOLEAN, Release!ConfirmRead(t, accept) PROVE Release!PubIInv'
  <2> DEFINE k == Release!Candidate
             e == v2[k].edition
             q == [step |-> "verify", e |-> e, n |-> k, row |-> v1[e], uri |-> v2[k].uri, accept |-> accept]
  <2>1. v2 # <<>> /\ v8' = [v8 EXCEPT ![t] = q]
    BY <1>2 DEF Release!ConfirmRead, Release!Go
  <2>2. k \in DOMAIN v2 /\ k \in Nat /\ e \in Instances
    BY <2>1, TracksCandidate
  <2> HIDE DEF k
  <2>3. v2[k].uri \in XUsers \cup {NoUri} /\ v1[e] \in Release!EditionRow
    BY <2>2, TracksTokens, TracksTypes
  <2>4. q \in Release!Work
    BY <2>2, <2>3 DEF Release!Work
  <2>5. q.step = "verify" /\ q.e = v2[q.n].edition /\ q.n = k /\ q.uri = v2[q.n].uri
    OBVIOUS
  <2> HIDE DEF q
  <2>6. Release!Grounded(q)
    BY <2>2, <2>5 DEF Release!Grounded, Release!OfTrack
  <2> QED BY <1>1, <2>1, <2>4, <2>5, <2>6, TracksGoes
<1>3. CASE Release!Verify(t)
  <2> DEFINE p == v8[t]
             next == IF v5[p.n] = p.uri THEN "edition" ELSE "adopt"
             q1 == [p EXCEPT !.step = next]
             q == [q1 EXCEPT !.uri = v5[p.n]]
  <2>1. p.step = "verify" /\ p \in Release!Work /\ Release!Grounded(p)
    BY <1>3, TracksTypes DEF Release!Verify
  <2>2. CASE ~Release!Verified(p)
    <3>1. v8' = [v8 EXCEPT ![t] = Release!Resting]
      BY <1>3, <2>2 DEF Release!Verify, Release!Rest, Release!Go
    <3> QED BY <1>1, <3>1, TracksRests
  <2>3. CASE Release!Verified(p)
    <3>1. v8' = [v8 EXCEPT ![t] = q]
      BY <1>3, <2>3 DEF Release!Verify, Release!Go
    <3>2. p.n \in DOMAIN v2 /\ p.n \in Nat /\ v2[p.n].edition = p.e /\ Release!OnChain(p.n)
          /\ (Release!Stored(p.n) \/ p.uri = v2[p.n].uri)
      BY <2>1, <2>3, TracksTokens DEF Release!Grounded, Release!OfTrack, Release!Verified
    <3>3. v5[p.n] \in XUsers
      <4>1. v5 \in Seq(XUsers) /\ Len(v5) \in Nat /\ p.n \in 1..Len(v5)
        BY <3>2, TracksTypes DEF Release!OnChain
      <4> QED BY <4>1
    <3> HIDE DEF p
    <3>4. q1 \in Release!Work
      <4>1. next \in {"edition", "adopt"}
        OBVIOUS
      <4> HIDE DEF next
      <4> QED BY <2>1, <4>1, TracksWith
    <3>5. q \in Release!Work
      <4> HIDE DEF q1
      <4> QED BY <3>3, <3>4, TracksWith
    <3>6. q.step = next /\ q.e = p.e /\ q.n = p.n /\ q.uri = v5[p.n]
      BY <2>1 DEF Release!Work
    <3> HIDE DEF q
    <3>7. v5[p.n] = p.uri => Release!Stored(p.n)
      BY <3>2 DEF Release!Stored
    <3>8. Release!Grounded(q)
      BY <3>2, <3>6, <3>7 DEF Release!Grounded, Release!OfTrack
    <3> QED BY <1>1, <3>1, <3>5, <3>6, <3>8, TracksGoes
  <2> QED BY <2>2, <2>3
<1> QED BY <1>2, <1>3

LEMMA TracksEnds ==
  ASSUME Release!PublicationAssumption, Release!PubIInv, NEW t \in Callers, Release!SaveRelease(t) \/ Release!Close(t)
  PROVE  Release!PubIInv'
<1>1. UNCHANGED <<v1, v2, v5, v6, v7>> /\ v8' = [v8 EXCEPT ![t] = Release!Resting]
  BY DEF Release!SaveRelease, Release!Close, Release!Rest, Release!Go, Release!database, Release!chainState
<1>2. v3' \in {"DRAFT", "PUBLISHED"} /\ v4' \in Callers \cup {Nobody} /\ v6' \subseteq [n : Nat, uri : XUsers] /\ v7' \in Nat
  BY <1>1, TracksTypes DEF Release!SaveRelease, Release!Close
<1>3. \A s \in Callers \ {t} : v8[s].step = "creating" => v4' = s
  <2>1. \A s \in Callers : v8[s].step = "creating" => v4 = s
    BY DEF Release!PubIInv
  <2> QED BY <2>1 DEF Release!SaveRelease, Release!Close
<1>4. Release!Grounded(Release!Resting)
  BY TracksResting DEF Release!Grounded
<1> QED BY <1>1, <1>2, <1>3, <1>4, TracksResting, TracksReads

(***************************************************************************)
(* Rows are saved.                                                         *)
(***************************************************************************)
LEMMA TracksSaved ==
  ASSUME Release!PublicationAssumption, Release!PubIInv, NEW t \in Callers, NEW q \in Release!Work, v8' = [v8 EXCEPT ![t] = q],
         NEW e \in Instances, NEW row \in Release!EditionRow, v1' = [v1 EXCEPT ![e] = row],
         UNCHANGED <<v2, v3, v4, v5, v6, v7>>, v1[e].status # "NONE", row.status # "NONE", Release!StandsOnChain(e, row),
         q.step \in {"idle", "release"}, q.step = "release" => Release!OfTrack(q)
  PROVE  Release!PubIInv'
<1>1. v1 \in [Instances -> Release!EditionRow]
  BY TracksTypes
<1>2. v1'[e] = row /\ \A d \in Instances : d # e => v1'[d] = v1[d]
  BY <1>1
<1>3. v1' \in [Instances -> Release!EditionRow]
  BY <1>1
<1>4. /\ v2' \in Seq(Release!TokenRow) /\ v3' \in {"DRAFT", "PUBLISHED"} /\ v4' \in Callers \cup {Nobody} /\ v5' = v5
      /\ v6' \subseteq [n : Nat, uri : XUsers] /\ v7' \in Nat
  BY TracksTypes
<1>5. \A d \in Instances : v1'[d].status = "NONE" <=> v1[d].status = "NONE"
  BY <1>2
<1>6. Release!NumbersGiven'
  BY <1>5 DEF Release!PubIInv, Release!NumbersGiven
<1>7. \A n \in DOMAIN v2 : n \in DOMAIN v2' /\ v2'[n].edition = v2[n].edition /\ (Release!Stored(n) => Release!Stored(n)')
  BY DEF Release!Stored, Release!OnChain
<1>8. \A s \in Callers \ {t} : v8[s].step = "creating" =>
          v4' = s /\ Len(v2') = Len(v2) /\ (v1'[v8[s].e].status = "NONE" <=> v1[v8[s].e].status = "NONE")
  <2> SUFFICES ASSUME NEW s \in Callers \ {t}, v8[s].step = "creating" PROVE v4' = s /\ v8[s].e \in Instances
    BY <1>5
  <2>1. Release!Grounded(v8[s])
    BY TracksTypes
  <2> QED BY <2>1 DEF Release!Grounded, Release!PubIInv
<1>9. Release!Grounded(q)'
  BY DEF Release!Grounded, Release!OfTrack
<1>10. \A d \in Instances : Release!StandsOnChain(d, v1[d])'
  BY <1>2 DEF Release!PubIInv, Release!StandsOnChain, Release!Stored, Release!OnChain
<1>11. /\ \A d \in Instances : v1[d].status # "NONE" => v1'[d].status # "NONE"
       /\ \A s \in Callers \ {t} : v8[s].step = "verify" => v2'[v8[s].n].uri = v2[v8[s].n].uri \/ Release!Stored(v8[s].n)'
       /\ (q.step = "creating" => v4' = t)
  BY <1>5
<1>12. Respects(t, q)
  BY <1>3, <1>4, <1>6, <1>7, <1>8, <1>9, <1>10, <1>11 DEF Respects
<1> QED BY <1>12, TracksFrame

LEMMA TracksSavesEdition ==
  ASSUME Release!PublicationAssumption, Release!PubIInv, NEW t \in Callers, Release!SaveEdition(t)
  PROVE  Release!PubIInv'
<1>1. /\ v8[t].step = "update" /\ v1' = [v1 EXCEPT ![v8[t].e] = v8[t].row] /\ v8' = [v8 EXCEPT ![t] = Release!Resting]
      /\ UNCHANGED <<v2, v3, v4, v5, v6, v7>>
  BY DEF Release!SaveEdition, Release!Rest, Release!Go, Release!chainState
<1>2. v8[t].row \in Release!EditionRow
  BY TracksTypes DEF Release!Work
<1>3. v8[t].e \in Instances /\ v1[v8[t].e].status # "NONE" /\ v8[t].row.status # "NONE"
      /\ Release!StandsOnChain(v8[t].e, v8[t].row)
  BY <1>1, TracksTypes DEF Release!Grounded
<1> QED BY <1>1, <1>2, <1>3, TracksResting, TracksSaved

LEMMA TracksPublishes ==
  ASSUME Release!PublicationAssumption, Release!PubIInv, NEW t \in Callers, Release!SavePublished(t)
  PROVE  Release!PubIInv'
<1> DEFINE p == v8[t]
           row == Release!Confirmed(p.row, p.uri)
           q == [p EXCEPT !.step = "release"]
<1>1. /\ p.step = "edition" /\ v1' = [v1 EXCEPT ![p.e] = row] /\ v8' = [v8 EXCEPT ![t] = q]
      /\ UNCHANGED <<v2, v3, v4, v5, v6, v7>>
  BY DEF Release!SavePublished, Release!Go, Release!chainState
<1>2. p \in Release!Work /\ Release!Grounded(p)
  BY TracksTypes
<1>3. /\ p.n \in DOMAIN v2 /\ v2[p.n].edition = p.e /\ Release!Stored(p.n) /\ p.uri = v5[p.n] /\ p.uri \in XUsers \cup {NoUri}
  BY <1>1, <1>2 DEF Release!Grounded, Release!OfTrack, Release!Work
<1>4. p.e \in Instances
  BY <1>3, TracksTokens
<1>5. v1[p.e].status # "NONE"
  BY <1>3, <1>4 DEF Release!PubIInv, Release!NumbersGiven
<1> HIDE DEF p
<1>6. row \in Release!EditionRow /\ row.status = "PUBLISHED" /\ row.attempt.uri = p.uri
  BY <1>3 DEF Release!Confirmed, Release!EditionRow
<1> HIDE DEF row
<1>7. Release!StandsOnChain(p.e, row)
  BY <1>3, <1>6 DEF Release!StandsOnChain, Release!PubIInv, Release!NumbersGiven
<1>8. q.step = "release" /\ q.n = p.n /\ q.e = p.e
  BY <1>2 DEF Release!Work
<1>9. q \in Release!Work
  BY <1>2, TracksWith
<1> HIDE DEF q
<1>10. Release!OfTrack(q)
  BY <1>3, <1>8 DEF Release!OfTrack
<1> QED BY <1>1, <1>4, <1>5, <1>6, <1>7, <1>8, <1>9, <1>10, TracksSaved

(***************************************************************************)
(* Numbers are given and their metadata stored.                            *)
(***************************************************************************)
LEMMA TracksToken ==
  ASSUME Release!PubIInv, NEW n \in DOMAIN v2, NEW uri \in XUsers \cup {NoUri}, Release!SaveToken(n, v2[n].edition, uri)
  PROVE  /\ v2' \in Seq(Release!TokenRow) /\ DOMAIN v2' = DOMAIN v2 /\ Len(v2') = Len(v2)
         /\ \A m \in DOMAIN v2 : v2'[m].edition = v2[m].edition /\ (m # n => v2'[m] = v2[m])
         /\ v2'[n].uri = uri
<1> DEFINE token == [edition |-> v2[n].edition, uri |-> uri]
<1>1. v2 \in Seq(Release!TokenRow) /\ DOMAIN v2 = 1..Len(v2) /\ Len(v2) \in Nat
  BY DEF Release!PubIInv, Release!PubTypeOK
<1>2. token \in Release!TokenRow
  BY TracksTokens DEF Release!TokenRow
<1>3. v2' = [v2 EXCEPT ![n] = token]
  BY DEF Release!SaveToken
<1>4. token.edition = v2[n].edition /\ token.uri = uri
  OBVIOUS
<1> HIDE DEF token
<1>5. v2' \in Seq(Release!TokenRow) /\ DOMAIN v2' = DOMAIN v2 /\ Len(v2') = Len(v2)
  BY <1>1, <1>2, <1>3
<1>6. v2'[n] = token /\ \A m \in DOMAIN v2 : m # n => v2'[m] = v2[m]
  BY <1>1, <1>3
<1> QED BY <1>4, <1>5, <1>6

\* The number n of an edition is written anew, with uri, and the row of the edition, by t which goes on as q.
Rewriting(t, q, n, uri, row) ==
  /\ Release!SaveToken(n, v2[n].edition, uri)
  /\ Release!Orderly => Release!Undisturbed(n) \/ (Release!OnChain(n) /\ uri = v5[n])
  /\ v1' = [v1 EXCEPT ![v2[n].edition] = row]
  /\ row = v1[v2[n].edition] \/ row.status = "DRAFT"
  /\ v3' = v3 /\ v5' = v5 /\ v6' = v6 /\ v7' = v7 /\ v4' \in Callers \cup {Nobody}
  /\ \A s \in Callers \ {t} : v8[s].step = "creating" => v4' = s
  /\ q.step \in {"idle", "sign", "edition"} /\ (q.step # "idle" => q.n = n /\ q.e = v2[n].edition)
  /\ q.step = "sign" => q.uri \in XUsers
  /\ q.step = "edition" => Release!OnChain(n) /\ q.uri = v5[n] /\ uri = v5[n]

LEMMA TracksRewrites ==
  ASSUME Release!PublicationAssumption, Release!PubIInv, NEW t \in Callers, NEW q \in Release!Work, v8' = [v8 EXCEPT ![t] = q],
         NEW n \in DOMAIN v2, NEW uri \in XUsers \cup {NoUri}, NEW row \in Release!EditionRow, Rewriting(t, q, n, uri, row)
  PROVE  Release!PubIInv'
<1> USE DEF Rewriting
<1> DEFINE e == v2[n].edition
<1>0. e \in Instances /\ n \in Nat
  BY TracksTokens
<1>1. /\ v2' \in Seq(Release!TokenRow) /\ DOMAIN v2' = DOMAIN v2 /\ Len(v2') = Len(v2)
      /\ \A m \in DOMAIN v2 : v2'[m].edition = v2[m].edition /\ (m # n => v2'[m] = v2[m])
      /\ v2'[n].uri = uri
  BY TracksToken
<1>2. v1 \in [Instances -> Release!EditionRow]
  BY TracksTypes
<1>3. PICK d0 \in Instances : d0 = e
  BY <1>0
<1>4. v1'[d0] = row /\ v1' \in [Instances -> Release!EditionRow] /\ \A d \in Instances : d # d0 => v1'[d] = v1[d]
  BY <1>2, <1>3
<1>5. row.status # "NONE" /\ v1[d0].status # "NONE"
  BY <1>3 DEF Release!PubIInv, Release!NumbersGiven
<1>6. \A d \in Instances : v1'[d].status = "NONE" <=> v1[d].status = "NONE"
  BY <1>4, <1>5
<1>7. Release!NumbersGiven'
  BY <1>1, <1>6 DEF Release!PubIInv, Release!NumbersGiven
<1>8. \A m \in DOMAIN v2 : m \in DOMAIN v2' /\ v2'[m].edition = v2[m].edition /\ (Release!Stored(m) => Release!Stored(m)')
  BY <1>1 DEF Release!Stored, Release!OnChain, Release!Undisturbed
<1>9. ASSUME NEW s \in Callers \ {t}
      PROVE  /\ v8[s].step = "creating" => v8[s].e \in Instances
             /\ v8[s].step = "verify" => v2'[v8[s].n].uri = v2[v8[s].n].uri \/ Release!Stored(v8[s].n)'
  <2>1. Release!Grounded(v8[s])
    BY TracksTypes
  <2>2. v8[s].step = "verify" => v8[s].n \in DOMAIN v2
    BY <2>1 DEF Release!Grounded, Release!OfTrack
  <2>3. Release!Orderly /\ v8[s].step = "verify" /\ v8[s].n = n => Release!OnChain(n) /\ uri = v5[n]
    BY DEF Release!Undisturbed
  <2>4. Release!Orderly /\ v8[s].step = "verify" =>
          v2'[v8[s].n].uri = v2[v8[s].n].uri \/ (Release!OnChain(v8[s].n) /\ v2'[v8[s].n].uri = v5[v8[s].n])
    BY <1>1, <2>2, <2>3
  <2>5. v8'[s] = v8[s]
    BY TracksTypes
  <2> QED BY <2>1, <2>4, <2>5 DEF Release!Grounded, Release!Stored, Release!OnChain
<1>10. \A s \in Callers \ {t} :
         /\ v8[s].step = "creating" =>
              v4' = s /\ Len(v2') = Len(v2) /\ (v1'[v8[s].e].status = "NONE" <=> v1[v8[s].e].status = "NONE")
         /\ v8[s].step = "verify" => v2'[v8[s].n].uri = v2[v8[s].n].uri \/ Release!Stored(v8[s].n)'
  BY <1>1, <1>6, <1>9
<1>11. Release!Grounded(q)'
  <2>1. q.step # "idle" => Release!OfTrack(q)'
    BY <1>1 DEF Release!OfTrack
  <2>2. q.step = "edition" => Release!OnChain(q.n)' /\ q.uri = v5'[q.n] /\ Release!Stored(q.n)'
    BY <1>1 DEF Release!Stored, Release!OnChain
  <2> QED BY <2>1, <2>2 DEF Release!Grounded
<1>12. \A d \in Instances : Release!StandsOnChain(d, v1[d])'
  <2> SUFFICES ASSUME NEW d \in Instances, v1'[d].status = "PUBLISHED", NEW m \in DOMAIN v2', v2'[m].edition = d
               PROVE  Release!Stored(m)' /\ (Release!Orderly => v1'[d].attempt = Release!NoAttempt \/ v1'[d].attempt.uri = v5[m])
    BY DEF Release!StandsOnChain
  <2>1. m \in DOMAIN v2 /\ v2[m].edition = d
    BY <1>1
  <2>2. Release!StandsOnChain(d, v1[d])
    BY DEF Release!PubIInv
  <2>3. v1'[d] = v1[d]
    <3>1. CASE d # d0
      BY <1>4, <3>1
    <3>2. CASE d = d0
      <4>1. m = n
        BY <1>3, <2>1, <3>2 DEF Release!PubIInv, Release!NumbersGiven
      <4>2. v1'[d] = row
        BY <1>4, <3>2
      <4>3. row.status = "PUBLISHED"
        BY <4>2
      <4> QED BY <1>3, <3>2, <4>2, <4>3
    <3> QED BY <3>1, <3>2
  <2>4. Release!Stored(m) /\ (Release!Orderly => v1[d].attempt = Release!NoAttempt \/ v1[d].attempt.uri = v5[m])
    BY <2>1, <2>2, <2>3 DEF Release!StandsOnChain
  <2> QED BY <1>8, <2>1, <2>3, <2>4
<1>13. v3' \in {"DRAFT", "PUBLISHED"} /\ v6' \subseteq [n : Nat, uri : XUsers] /\ v7' \in Nat
  BY TracksTypes
<1>14. Respects(t, q)
  BY <1>1, <1>4, <1>6, <1>7, <1>8, <1>10, <1>11, <1>12, <1>13 DEF Respects
<1> QED BY <1>14, TracksFrame

LEMMA TracksSameRow ==
  ASSUME Release!PubIInv, NEW n \in DOMAIN v2, UNCHANGED v1
  PROVE  v1[v2[n].edition] \in Release!EditionRow /\ v1' = [v1 EXCEPT ![v2[n].edition] = v1[v2[n].edition]]
<1>1. v1 \in [Instances -> Release!EditionRow]
  BY DEF Release!PubIInv, Release!PubTypeOK
<1> QED BY <1>1, TracksTokens

LEMMA TracksStores ==
  ASSUME Release!PublicationAssumption, Release!PubIInv, NEW t \in Callers, NEW uri \in XUsers, Release!MetadataStore(t, uri)
  PROVE  Release!PubIInv'
<1> DEFINE p == v8[t]
           q1 == [p EXCEPT !.step = "sign"]
           q == [q1 EXCEPT !.uri = uri]
<1>1. /\ p.step = "store" /\ (Release!Orderly => Release!Undisturbed(p.n)) /\ Release!SaveToken(p.n, p.e, uri) /\ v8' = [v8 EXCEPT ![t] = q]
      /\ UNCHANGED <<v1, v3, v4, v5, v6, v7>>
  BY DEF Release!MetadataStore, Release!Go, Release!chainState
<1>2. p \in Release!Work /\ Release!Grounded(p)
  BY TracksTypes
<1>3. p.n \in DOMAIN v2 /\ p.e = v2[p.n].edition
  BY <1>1, <1>2 DEF Release!Grounded, Release!OfTrack
<1> HIDE DEF p
<1>4. q1 \in Release!Work
  BY <1>2, TracksWith
<1>5. q \in Release!Work
  <2> HIDE DEF q1
  <2> QED BY <1>4, TracksWith
<1>6. q.step = "sign" /\ q.n = p.n /\ q.e = p.e /\ q.uri = uri
  BY <1>2 DEF Release!Work
<1> HIDE DEF q
<1>7. v4' \in Callers \cup {Nobody} /\ \A s \in Callers \ {t} : v8[s].step = "creating" => v4' = s
  BY <1>1, TracksTypes DEF Release!PubIInv
<1>8. v1[v2[p.n].edition] \in Release!EditionRow /\ v1' = [v1 EXCEPT ![v2[p.n].edition] = v1[v2[p.n].edition]]
  BY <1>1, <1>3, TracksSameRow
<1>9. PICK n \in DOMAIN v2 : n = p.n
  BY <1>3
<1>10. PICK row \in Release!EditionRow : row = v1[v2[n].edition]
  BY <1>8, <1>9
<1>11. Rewriting(t, q, n, uri, row)
  BY <1>1, <1>3, <1>6, <1>7, <1>8, <1>9, <1>10 DEF Rewriting
<1> QED BY <1>1, <1>5, <1>11, TracksRewrites

LEMMA TracksAdopts ==
  ASSUME Release!PublicationAssumption, Release!PubIInv, NEW t \in Callers, Release!Adopt(t)
  PROVE  Release!PubIInv'
<1> DEFINE p == v8[t]
           q == [p EXCEPT !.step = "edition"]
<1>1. /\ p.step = "adopt" /\ Release!SaveToken(p.n, p.e, p.uri) /\ v8' = [v8 EXCEPT ![t] = q]
      /\ UNCHANGED <<v1, v3, v4, v5, v6, v7>>
  BY DEF Release!Adopt, Release!Go, Release!chainState
<1>2. p \in Release!Work /\ Release!Grounded(p)
  BY TracksTypes
<1>3. /\ p.n \in DOMAIN v2 /\ p.e = v2[p.n].edition /\ Release!OnChain(p.n) /\ p.uri = v5[p.n] /\ p.uri \in XUsers \cup {NoUri}
  BY <1>1, <1>2 DEF Release!Grounded, Release!OfTrack, Release!Work
<1> HIDE DEF p
<1>4. q \in Release!Work
  BY <1>2, TracksWith
<1>5. q.step = "edition" /\ q.n = p.n /\ q.e = p.e /\ q.uri = p.uri
  BY <1>2 DEF Release!Work
<1> HIDE DEF q
<1>6. v4' \in Callers \cup {Nobody} /\ \A s \in Callers \ {t} : v8[s].step = "creating" => v4' = s
  BY <1>1, TracksTypes DEF Release!PubIInv
<1>7. v1[v2[p.n].edition] \in Release!EditionRow /\ v1' = [v1 EXCEPT ![v2[p.n].edition] = v1[v2[p.n].edition]]
  BY <1>1, <1>3, TracksSameRow
<1>8. PICK n \in DOMAIN v2 : n = p.n
  BY <1>3
<1>9. PICK uri \in XUsers \cup {NoUri} : uri = p.uri
  BY <1>3
<1>10. PICK row \in Release!EditionRow : row = v1[v2[n].edition]
  BY <1>7, <1>8
<1>11. Rewriting(t, q, n, uri, row)
  BY <1>1, <1>3, <1>5, <1>6, <1>7, <1>8, <1>9, <1>10 DEF Rewriting
<1> QED BY <1>1, <1>4, <1>11, TracksRewrites

\* An open draft is posted again.
LEMMA TracksAnew ==
  ASSUME Release!PublicationAssumption, Release!PubIInv, NEW t \in Callers, NEW n \in DOMAIN v2, Release!Anew(n),
         v1' = [v1 EXCEPT ![v2[n].edition] = [Release!NoEdition EXCEPT !.status = "DRAFT"]],
         Release!SaveToken(n, v2[n].edition, NoUri), v8' = [v8 EXCEPT ![t] = Release!Resting],
         UNCHANGED <<v3, v5, v6, v7>>, v4' \in Callers \cup {Nobody},
         \A s \in Callers \ {t} : v8[s].step = "creating" => v4' = s
  PROVE  Release!PubIInv'
<1> DEFINE row == [Release!NoEdition EXCEPT !.status = "DRAFT"]
<1>1. row \in Release!EditionRow /\ row.status = "DRAFT"
  BY TracksResting DEF Release!EditionRow
<1>2. Release!Orderly => Release!Undisturbed(n)
  BY DEF Release!Anew
<1>3. v1' = [v1 EXCEPT ![v2[n].edition] = row]
  OBVIOUS
<1> HIDE DEF row
<1>4. Rewriting(t, Release!Resting, n, NoUri, row)
  BY <1>1, <1>2, <1>3, TracksResting DEF Rewriting
<1> QED BY <1>1, <1>4, TracksResting, TracksRewrites

LEMMA TracksReposted ==
  ASSUME Release!PublicationAssumption, Release!PubIInv, NEW t \in Callers, Release!RepostSave(t)
  PROVE  Release!PubIInv'
<1>1. /\ v8[t].step = "repost" /\ Release!Anew(v8[t].n) /\ Release!SaveToken(v8[t].n, v8[t].e, NoUri)
      /\ v1' = [v1 EXCEPT ![v8[t].e] = [Release!NoEdition EXCEPT !.status = "DRAFT"]]
      /\ v8' = [v8 EXCEPT ![t] = Release!Resting] /\ UNCHANGED <<v3, v4, v5, v6, v7>>
  BY DEF Release!RepostSave, Release!Rest, Release!Go, Release!chainState
<1>2. v8[t].n \in DOMAIN v2 /\ v8[t].e = v2[v8[t].n].edition
  BY <1>1, TracksTypes DEF Release!Grounded, Release!OfTrack
<1>3. v4' \in Callers \cup {Nobody} /\ \A s \in Callers \ {t} : v8[s].step = "creating" => v4' = s
  BY <1>1, TracksTypes DEF Release!PubIInv
<1>4. PICK n \in DOMAIN v2 : n = v8[t].n
  BY <1>2
<1> QED BY <1>1, <1>2, <1>3, <1>4, TracksAnew

\* The number after every other is given to a track that has none.
LEMMA TracksGiven ==
  ASSUME Release!PublicationAssumption, Release!PubIInv, NEW t \in Callers, NEW e \in Instances, v1[e].status = "NONE",
         v1' = [v1 EXCEPT ![e] = [Release!NoEdition EXCEPT !.status = "DRAFT"]],
         Release!SaveToken(Len(v2) + 1, e, NoUri), v8' = [v8 EXCEPT ![t] = Release!Resting],
         UNCHANGED <<v3, v5, v6, v7>>, v4' \in Callers \cup {Nobody},
         \A s \in Callers \ {t} : v8[s].step # "creating"
  PROVE  Release!PubIInv'
<1> DEFINE row == [Release!NoEdition EXCEPT !.status = "DRAFT"]
           token == [edition |-> e, uri |-> NoUri]
           k == Len(v2) + 1
<1>1. row \in Release!EditionRow /\ row.status = "DRAFT" /\ row.status # "NONE"
  BY TracksResting DEF Release!EditionRow
<1>2. v1 \in [Instances -> Release!EditionRow] /\ v2 \in Seq(Release!TokenRow) /\ DOMAIN v2 = 1..Len(v2) /\ Len(v2) \in Nat
  BY TracksTypes
<1>3. v1' = [v1 EXCEPT ![e] = row]
  OBVIOUS
<1>4. token \in Release!TokenRow /\ token.edition = e
  BY DEF Release!TokenRow
<1>5. v2' = Append(v2, token)
  BY <1>2 DEF Release!SaveToken
<1> HIDE DEF row, token
<1>6. v1' \in [Instances -> Release!EditionRow] /\ v1'[e] = row /\ \A d \in Instances : d # e => v1'[d] = v1[d]
  BY <1>1, <1>2, <1>3
<1>7. v2' \in Seq(Release!TokenRow) /\ Len(v2') = Len(v2) + 1
  BY <1>2, <1>4, <1>5
<1>8. v2'[k] = token /\ \A m \in DOMAIN v2 : m \in DOMAIN v2' /\ v2'[m] = v2[m]
  BY <1>2, <1>4, <1>5
<1>9. \A m \in DOMAIN v2' : m \in DOMAIN v2 \/ m = k
  BY <1>2, <1>7
<1>10. k \in DOMAIN v2'
  BY <1>2, <1>7
<1> HIDE DEF k
<1>11. \A m \in DOMAIN v2 : v2[m].edition # e
  BY DEF Release!PubIInv, Release!NumbersGiven
<1>12. Release!NumbersGiven'
  <2>1. \A d \in Instances : v1'[d].status # "NONE" <=> \E n \in DOMAIN v2' : v2'[n].edition = d
    <3>1. \A d \in Instances : v1[d].status # "NONE" <=> \E n \in DOMAIN v2 : v2[n].edition = d
      BY DEF Release!PubIInv, Release!NumbersGiven
    <3>2. v1'[e].status # "NONE" /\ v2'[k].edition = e
      BY <1>1, <1>4, <1>6, <1>8
    <3> QED BY <1>4, <1>6, <1>8, <1>9, <1>10, <3>1, <3>2
  <2>2. \A n, m \in DOMAIN v2' : v2'[n].edition = v2'[m].edition => n = m
    <3>1. \A n, m \in DOMAIN v2 : v2[n].edition = v2[m].edition => n = m
      BY DEF Release!PubIInv, Release!NumbersGiven
    <3> QED BY <1>4, <1>8, <1>9, <1>11, <3>1
  <2> QED BY <2>1, <2>2 DEF Release!NumbersGiven
<1>13. \A m \in DOMAIN v2 : m \in DOMAIN v2' /\ v2'[m].edition = v2[m].edition /\ (Release!Stored(m) => Release!Stored(m)')
  BY <1>8 DEF Release!Stored, Release!OnChain
<1>14. \A d \in Instances : v1[d].status # "NONE" => v1'[d].status # "NONE"
  BY <1>6
<1>15. ASSUME NEW s \in Callers \ {t}, v8[s].step = "verify" PROVE v2'[v8[s].n].uri = v2[v8[s].n].uri
  <2>1. v8[s].n \in DOMAIN v2
    BY <1>15, TracksTypes DEF Release!Grounded, Release!OfTrack
  <2> QED BY <1>8, <2>1
<1>16. Release!Grounded(Release!Resting)'
  BY TracksResting DEF Release!Grounded
<1>17. \A d \in Instances : Release!StandsOnChain(d, v1[d])'
  <2> SUFFICES ASSUME NEW d \in Instances, v1'[d].status = "PUBLISHED", NEW m \in DOMAIN v2', v2'[m].edition = d
               PROVE  Release!Stored(m)' /\ (Release!Orderly => v1'[d].attempt = Release!NoAttempt \/ v1'[d].attempt.uri = v5[m])
    BY DEF Release!StandsOnChain
  <2>1. d # e
    BY <1>1, <1>6
  <2>2. v1'[d] = v1[d] /\ m \in DOMAIN v2 /\ v2[m].edition = d
    BY <1>4, <1>6, <1>8, <1>9, <2>1
  <2>3. Release!StandsOnChain(d, v1[d])
    BY DEF Release!PubIInv
  <2>4. Release!Stored(m) /\ (Release!Orderly => v1[d].attempt = Release!NoAttempt \/ v1[d].attempt.uri = v5[m])
    BY <2>2, <2>3 DEF Release!StandsOnChain
  <2> QED BY <1>13, <2>2, <2>4
<1>18. v3' \in {"DRAFT", "PUBLISHED"} /\ v6' \subseteq [n : Nat, uri : XUsers] /\ v7' \in Nat
  BY TracksTypes
<1>19. Respects(t, Release!Resting)
  BY <1>6, <1>7, <1>12, <1>13, <1>14, <1>15, <1>16, <1>17, <1>18, TracksResting DEF Respects
<1> QED BY <1>19, TracksResting, TracksFrame

LEMMA TracksCommits ==
  ASSUME Release!PublicationAssumption, Release!PubIInv, NEW t \in Callers, Release!CreateCommit(t)
  PROVE  Release!PubIInv'
<1> DEFINE e == v8[t].e
           k == v8[t].n
<1>1. /\ v8[t].step = "creating" /\ (v1[e].status # "NONE" => Release!Anew(k)) /\ Release!SaveToken(k, e, NoUri)
      /\ v1' = [v1 EXCEPT ![e] = [Release!NoEdition EXCEPT !.status = "DRAFT"]]
      /\ v8' = [v8 EXCEPT ![t] = Release!Resting] /\ v4' = (IF v4 = t THEN Nobody ELSE v4) /\ UNCHANGED <<v3, v5, v6, v7>>
  BY DEF Release!CreateCommit, Release!Rest, Release!Go, Release!chainState
<1>2. v4 = t /\ \A s \in Callers : v8[s].step = "creating" => v4 = s
  BY <1>1 DEF Release!PubIInv
<1>3. v4' \in Callers \cup {Nobody} /\ \A s \in Callers \ {t} : v8[s].step # "creating"
  BY <1>1, <1>2
<1>4. e \in Instances /\ IF v1[e].status = "NONE" THEN k = Len(v2) + 1 ELSE k \in DOMAIN v2 /\ v2[k].edition = e
  BY <1>1, TracksTypes DEF Release!Grounded, Release!OfTrack
<1>5. CASE v1[e].status = "NONE"
  <2>1. PICK d \in Instances : d = e
    BY <1>4
  <2> QED BY <1>1, <1>3, <1>4, <1>5, <2>1, TracksGiven
<1>6. CASE v1[e].status # "NONE"
  <2>1. PICK n \in DOMAIN v2 : n = k
    BY <1>4, <1>6
  <2> QED BY <1>1, <1>3, <1>4, <1>6, <2>1, TracksAnew
<1> QED BY <1>5, <1>6

(***************************************************************************)
(* The chain only grows, and what it holds of a number stays.              *)
(***************************************************************************)
LEMMA TracksMines ==
  ASSUME Release!PublicationAssumption, Release!PubIInv, NEW tx \in v6, Release!Mine(tx)
  PROVE  Release!PubIInv'
<1>1. /\ UNCHANGED <<v1, v2, v3, v4, v7, v8>> /\ v6' = v6 \ {tx}
      /\ v5' = v5 \/ v5' = Append(v5, tx.uri)
  BY DEF Release!Mine, Release!database
<1>2. v5 \in Seq(XUsers) /\ v6 \subseteq [n : Nat, uri : XUsers]
  BY DEF Release!PubIInv, Release!PubTypeOK
<1>3. tx.uri \in XUsers
  BY <1>2
<1>4. v5' \in Seq(XUsers) /\ Len(v5) \in Nat /\ Len(v5') \in Nat /\ Len(v5) <= Len(v5') /\ \A n \in 1..Len(v5) : v5'[n] = v5[n]
  BY <1>1, <1>2, <1>3
<1>5. ASSUME NEW n \in Nat, n >= 1, Release!OnChain(n) PROVE Release!OnChain(n)' /\ v5'[n] = v5[n]
  <2>1. n <= Len(v5)
    BY <1>5 DEF Release!OnChain
  <2> QED BY <1>4, <1>5, <2>1 DEF Release!OnChain
<1>6. \A n \in DOMAIN v2 : n \in Nat /\ n >= 1
  <2>1. v2 \in Seq(Release!TokenRow)
    BY DEF Release!PubIInv, Release!PubTypeOK
  <2> QED BY <2>1
<1>7. \A n \in DOMAIN v2 : Release!Stored(n) => Release!Stored(n)' /\ (Release!Orderly => v5'[n] = v5[n])
  BY <1>1, <1>5, <1>6 DEF Release!Stored
<1>8. Release!PubTypeOK' /\ Release!NumbersGiven'
  BY <1>1, <1>2, <1>4 DEF Release!PubIInv, Release!PubTypeOK, Release!NumbersGiven
<1>9. ASSUME NEW e \in Instances, NEW row, Release!StandsOnChain(e, row)
      PROVE  row.status = "PUBLISHED" => \A n \in DOMAIN v2 : v2[n].edition = e =>
               Release!Stored(n)' /\ (Release!Orderly => row.attempt = Release!NoAttempt \/ row.attempt.uri = v5'[n])
  BY <1>7, <1>9 DEF Release!StandsOnChain
<1>10. \A e \in Instances : Release!StandsOnChain(e, v1[e])'
  <2> SUFFICES ASSUME NEW e \in Instances PROVE Release!StandsOnChain(e, v1[e])'
    OBVIOUS
  <2>1. Release!StandsOnChain(e, v1[e])
    BY DEF Release!PubIInv
  <2>2. v1[e].status = "PUBLISHED" => \A n \in DOMAIN v2 : v2[n].edition = e =>
               Release!Stored(n)' /\ (Release!Orderly => v1[e].attempt = Release!NoAttempt \/ v1[e].attempt.uri = v5'[n])
    BY <1>9, <2>1
  <2> QED BY <1>1, <2>2 DEF Release!StandsOnChain
<1>11. ASSUME NEW s \in Callers PROVE Release!Grounded(v8[s])'
  <2> DEFINE p == v8[s]
  <2>0. p' = p /\ Release!Grounded(p)
    BY <1>1 DEF Release!PubIInv
  <2> HIDE DEF p
  <2>1. p.step = "creating" => p.e \in Instances /\ IF v1'[p.e].status = "NONE" THEN p.n = Len(v2') + 1 ELSE Release!OfTrack(p)'
    BY <1>1, <2>0 DEF Release!Grounded, Release!OfTrack
  <2>2. p.step \in {"repost", "metadata", "store", "sign", "verify", "adopt", "edition", "release"} =>
          p.n \in DOMAIN v2 /\ Release!OfTrack(p)'
    BY <1>1, <2>0 DEF Release!Grounded, Release!OfTrack
  <2>3. p.step = "verify" => Release!Stored(p.n)' \/ p.uri = v2'[p.n].uri
    BY <1>1, <1>7, <2>0, <2>2 DEF Release!Grounded
  <2>4. p.step \in {"adopt", "edition"} => Release!OnChain(p.n)' /\ p.uri = v5'[p.n]
    BY <1>5, <1>6, <2>0, <2>2 DEF Release!Grounded
  <2>5. p.step = "edition" => Release!Stored(p.n)'
    BY <1>7, <2>0, <2>2 DEF Release!Grounded
  <2>6. p.step = "update" => /\ p.e \in Instances /\ v1'[p.e].status # "NONE" /\ p.row.status # "NONE"
                             /\ Release!StandsOnChain(p.e, p.row)'
    <3> SUFFICES ASSUME p.step = "update"
                 PROVE  p.e \in Instances /\ v1'[p.e].status # "NONE" /\ p.row.status # "NONE" /\ Release!StandsOnChain(p.e, p.row)'
      OBVIOUS
    <3>1. p.e \in Instances /\ v1[p.e].status # "NONE" /\ p.row.status # "NONE" /\ Release!StandsOnChain(p.e, p.row)
      BY <2>0 DEF Release!Grounded
    <3>2. p.row.status = "PUBLISHED" => \A n \in DOMAIN v2 : v2[n].edition = p.e =>
            Release!Stored(n)' /\ (Release!Orderly => p.row.attempt = Release!NoAttempt \/ p.row.attempt.uri = v5'[n])
      BY <1>9, <3>1
    <3>3. Release!StandsOnChain(p.e, p.row)'
      BY <1>1, <2>0, <3>2 DEF Release!StandsOnChain
    <3> QED BY <1>1, <3>1, <3>3
  <2>7. /\ p.step = "new" => p.e \in Instances
        /\ p.step = "sign" => p.uri \in XUsers
        /\ p.step = "sent" => v2' # <<>>
    BY <1>1, <2>0 DEF Release!Grounded
  <2>8. Release!Grounded(p)'
    BY <2>0, <2>1, <2>2, <2>3, <2>4, <2>5, <2>6, <2>7 DEF Release!Grounded
  <2> QED BY <2>8 DEF p
<1>12. \A s \in Callers : v8'[s].step = "creating" => v4' = s
  BY <1>1 DEF Release!PubIInv
<1> QED BY <1>8, <1>10, <1>11, <1>12 DEF Release!PubIInv

LEMMA TracksKept ==
  Release!PublicationAssumption /\ Release!PubIInv /\ [Release!PubNext]_(Release!pubVars) => Release!PubIInv'
<1> SUFFICES ASSUME Release!PublicationAssumption, Release!PubIInv, [Release!PubNext]_(Release!pubVars)
             PROVE  Release!PubIInv'
  OBVIOUS
<1>1. CASE UNCHANGED Release!pubVars
  BY <1>1 DEF Release!pubVars, Release!PubIInv, Release!PubTypeOK, Release!NumbersGiven, Release!Grounded, Release!OfTrack,
              Release!Stored, Release!OnChain, Release!StandsOnChain
<1>2. CASE \E tx \in v6 : Release!Mine(tx)
  BY <1>2, TracksMines
<1>3. ASSUME NEW t \in Callers,
        \/ \E e \in Instances : \/ Release!CreateRead(t, e) \/ Release!RepostRead(t, e)
                                \/ \E replace \in BOOLEAN : Release!UpdateRead(t, e, replace)
        \/ Release!CreateLock(t) \/ Release!CreateCommit(t) \/ Release!RepostSave(t) \/ Release!RecordRead(t) \/ Release!SaveEdition(t)
        \/ Release!MetadataRead(t) \/ Release!Sign(t)
        \/ \E readable \in BOOLEAN : Release!MetadataCheck(t, readable)
        \/ \E uri \in XUsers : Release!MetadataStore(t, uri)
        \/ \E accept \in BOOLEAN : Release!ConfirmRead(t, accept)
        \/ Release!Verify(t) \/ Release!Adopt(t) \/ Release!SavePublished(t) \/ Release!SaveRelease(t)
        \/ Release!Close(t)
      PROVE  Release!PubIInv'
  BY <1>3, TracksCreates, TracksReposts, TracksUpdates, TracksCommits, TracksReposted, TracksRecords, TracksSavesEdition,
     TracksMetadata, TracksSigns, TracksStores, TracksConfirms, TracksAdopts, TracksPublishes, TracksEnds
<1> QED BY <1>1, <1>2, <1>3 DEF Release!PubNext

(***************************************************************************)
(* What the invariant says of the numbers and of what is published.        *)
(***************************************************************************)
LEMMA TracksOneNumber == Release!PubIInv => Release!OneNumberEach
<1> SUFFICES ASSUME Release!PubIInv, NEW e \in Instances
             PROVE  Cardinality({n \in DOMAIN v2 : v2[n].edition = e}) = IF v1[e].status = "NONE" THEN 0 ELSE 1
  BY DEF Release!OneNumberEach, Release!Cardinality, Cardinality
<1>1. CASE v1[e].status = "NONE"
  <2>1. {n \in DOMAIN v2 : v2[n].edition = e} = {}
    BY <1>1 DEF Release!PubIInv, Release!NumbersGiven
  <2> QED BY <1>1, <2>1, FS_EmptySet
<1>2. CASE v1[e].status # "NONE"
  <2>1. PICK k \in DOMAIN v2 : v2[k].edition = e
    BY <1>2 DEF Release!PubIInv, Release!NumbersGiven
  <2>2. {n \in DOMAIN v2 : v2[n].edition = e} = {k}
    BY <2>1 DEF Release!PubIInv, Release!NumbersGiven
  <2> QED BY <1>2, <2>2, FS_Singleton
<1> QED BY <1>1, <1>2

LEMMA TracksAsCreated == Release!PubIInv => Release!PublishedAsCreated
<1> SUFFICES ASSUME Release!PubIInv, Release!Orderly, NEW n \in DOMAIN v2, v1[v2[n].edition].status = "PUBLISHED"
             PROVE  Release!OnChain(n) /\ v2[n].uri = v5[n]
  BY DEF Release!PublishedAsCreated
<1>1. v2[n].edition \in Instances
  BY TracksTokens
<1> QED BY <1>1 DEF Release!PubIInv, Release!StandsOnChain, Release!Stored

LEMMA TracksFinishable == Release!PublicationAssumption /\ Release!PubIInv => Release!Finishable
<1> DEFINE n == Len(v2)
           row == v1[v2[n].edition]
           q == [Release!Resting EXCEPT !.n = n, !.uri = v2[n].uri, !.row = row]
<1> SUFFICES ASSUME Release!PublicationAssumption, Release!PubIInv, v2 # <<>>, Release!OpenNumbers = {}, v3 # "PUBLISHED"
             PROVE  ~Release!AlreadyPublished(n) /\ (Release!Orderly => v2[n].uri # NoUri /\ Release!Verified(q))
  BY DEF Release!Finishable
<1>1. v2 \in Seq(Release!TokenRow) /\ v5 \in Seq(XUsers) /\ v1 \in [Instances -> Release!EditionRow]
  BY DEF Release!PubIInv, Release!PubTypeOK
<1>2. n \in DOMAIN v2 /\ n \in Nat /\ n >= 1
  BY <1>1
<1>3. v2[n].edition \in Instances
  BY <1>2, TracksTokens
<1>4. row.status = "PUBLISHED"
  <2>1. row.status # "DRAFT"
    BY <1>2 DEF Release!OpenNumbers
  <2>2. row.status # "NONE"
    BY <1>2, <1>3 DEF Release!PubIInv, Release!NumbersGiven
  <2>3. row \in Release!EditionRow
    BY <1>1, <1>3
  <2> QED BY <2>1, <2>2, <2>3 DEF Release!EditionRow
<1>5. ASSUME Release!Orderly
      PROVE  Release!OnChain(n) /\ v2[n].uri = v5[n] /\ (row.attempt = Release!NoAttempt \/ row.attempt.uri = v5[n])
  BY <1>2, <1>3, <1>4, <1>5 DEF Release!PubIInv, Release!StandsOnChain, Release!Stored
<1>6. Release!Orderly => v2[n].uri # NoUri
  <2>1. Release!OnChain(n) => v5[n] \in XUsers
    BY <1>1, <1>2 DEF Release!OnChain
  <2> QED BY <1>5, <2>1 DEF Release!PublicationAssumption
<1>7. ~Release!AlreadyPublished(n)
  BY DEF Release!AlreadyPublished
<1>8. q.n = n /\ q.uri = v2[n].uri /\ q.row = row
  BY DEF Release!Resting
<1> HIDE DEF q, n, row
<1>9. Release!Orderly => Release!Verified(q)
  BY <1>5, <1>8 DEF Release!Verified
<1> QED BY <1>6, <1>7, <1>9

-----------------------------------------------------------------------------
\* The invariants of the studio hold in every behaviour.
LEMMA StudioInvariant == SpecOne => []((part = "saves" => Saves!StudioIInv) /\ (part = "tracks" => Release!PubIInv))
<1> DEFINE Inv == (part = "saves" => Saves!StudioIInv) /\ (part = "tracks" => Release!PubIInv)
<1>1. InitOne => Inv
  BY Parameters, SavesStarts, TracksStart DEF InitOne, Starts
<1>2. Inv /\ [NextOne]_allVars => Inv'
  <2> SUFFICES ASSUME Inv, [NextOne]_allVars PROVE Inv'
    OBVIOUS
  <2>1. part' = part
    BY DEF NextOne, Steps, allVars
  <2>2. CASE part = "saves"
    BY <2>1, <2>2, Parameters, SavesStep, SavesKept
  <2>3. CASE part = "tracks"
    BY <2>1, <2>3, Parameters, TracksStep, TracksKept
  <2> QED BY <2>1, <2>2, <2>3
<1> QED BY <1>1, <1>2, PTL DEF SpecOne

\* What the Studio's rows promise, whatever is saved, published, archived or retried at the same
\* time: a file belongs to one edition, an edition has one primary experience and no two requests
\* wait for each other; and a track has one number, which on chain is what is stored of it, and a
\* publication that stopped can be finished (server/studio-service.js).  For any number of
\* requests, experiences, files, tabs, tracks and transactions; only what is stored of a created
\* track needs that no metadata is stored behind its creation and no such draft posted again.
THEOREM StudioAlwaysKept == SpecOne => []StudioKept
<1> DEFINE Inv == (part = "saves" => Saves!StudioIInv) /\ (part = "tracks" => Release!PubIInv)
<1>1. Inv => StudioKept
  <2>1. Saves!StudioIInv => Saves!FileInOneEdition /\ Saves!OnePrimary
    BY DEF Saves!StudioIInv
  <2> QED BY <2>1, Parameters, SavesNoCycle, TracksOneNumber, TracksAsCreated, TracksFinishable DEF StudioKept
<1>2. SpecOne => []Inv
  BY StudioInvariant
<1> QED BY <1>1, <1>2, PTL

-----------------------------------------------------------------------------
(***************************************************************************)
(* Proofs of provenance. What a request is about to write it has seen on   *)
(* chain, and what a transaction commits, and that it succeeded, stays.    *)
(***************************************************************************)
LEMMA ProofsStep ==
  part = "proofs" /\ [NextOne]_allVars => part' = "proofs" /\ [Proofs!Next]_(Proofs!vars)
BY DEF NextOne, Steps, allVars, vVars, Proofs!vars

LEMMA ProofsIdle ==
  /\ Proofs!Idle \in Proofs!Request /\ Proofs!Idle.step = "idle"
  /\ Proofs!NoProof \in Proofs!ProofRows /\ ~Proofs!NoProof.verified /\ Proofs!NoProof.anchor = "none"
  /\ Proofs!NewProof \in Proofs!ProofRows /\ ~Proofs!NewProof.verified /\ Proofs!NewProof.anchor = "PENDING"
  /\ Proofs!NoTx \in Proofs!Transactions
BY DEF Proofs!Idle, Proofs!Request, Proofs!None, Proofs!NoProof, Proofs!NewProof, Proofs!ProofRows, Proofs!Statuses, Proofs!NoTx,
  Proofs!Transactions

LEMMA ProofsStart == Proofs!Init => Proofs!IInv
<1> SUFFICES ASSUME Proofs!Init PROVE Proofs!IInv
  OBVIOUS
<1>1. Proofs!TypeOK
  BY ProofsIdle DEF Proofs!Init, Proofs!TypeOK
<1>2. Proofs!Evidence /\ \A r \in Listings : v1[r].anchor \in {"SUBMITTED", "ANCHORED"} => v1[r].tx \in Nonces
  BY ProofsIdle DEF Proofs!Init, Proofs!Evidence
<1>3. \A q \in Callers : Proofs!Asked(q) /\ Proofs!Seen(q)
  BY ProofsIdle DEF Proofs!Init, Proofs!Asked, Proofs!Seen
<1> QED BY <1>1, <1>2, <1>3 DEF Proofs!IInv

\* A request that a step leaves alone, with the chain as it was.
LEMMA ProofsUntouched ==
  ASSUME Proofs!IInv, UNCHANGED v2, NEW p \in Callers, v3'[p] = v3[p]
  PROVE  Proofs!Asked(p)' /\ Proofs!Seen(p)'
<1>1. Proofs!Asked(p) /\ Proofs!Seen(p)
  BY DEF Proofs!IInv
<1>2. Proofs!Event(p)' = Proofs!Event(p)
  BY DEF Proofs!Event
<1>3. \A t, r, event : Proofs!Commits(t, r, event)' <=> Proofs!Commits(t, r, event)
  BY DEF Proofs!Commits
<1> QED BY <1>1, <1>2, <1>3 DEF Proofs!Asked, Proofs!Seen

\* The steps of a request: it ends, goes on, or has seen an outcome.
LEMMA ProofsTurn ==
  ASSUME Proofs!IInv, NEW q \in Callers, UNCHANGED v2,
         \/ Proofs!Done(q)
         \/ \E step \in {"create", "load retry", "retry", "inspect", "write"} :
              /\ Proofs!Goto(q, step) /\ v3[q].step # "idle"
              /\ step \in {"load retry", "retry", "inspect"} => v3[q].route # "prepare"
              /\ step = "write" => v3[q].step = "load"
  PROVE  /\ v2' \in [Nonces -> Proofs!Transactions] /\ v3' \in [Callers -> Proofs!Request]
         /\ \A p \in Callers : Proofs!Asked(p)' /\ Proofs!Seen(p)'
<1>t. v2 \in [Nonces -> Proofs!Transactions] /\ v3 \in [Callers -> Proofs!Request] /\ \A p \in Callers : Proofs!Asked(p) /\ Proofs!Seen(p)
  BY DEF Proofs!IInv, Proofs!TypeOK
<1>1. CASE Proofs!Done(q)
  <2>1. v3' \in [Callers -> Proofs!Request] /\ v3'[q] = Proofs!Idle /\ \A p \in Callers : p # q => v3'[p] = v3[p]
    BY <1>1, <1>t, ProofsIdle DEF Proofs!Done
  <2>2. Proofs!Asked(q)' /\ Proofs!Seen(q)'
    BY <2>1, ProofsIdle DEF Proofs!Asked, Proofs!Seen
  <2>3. \A p \in Callers : p # q => Proofs!Asked(p)' /\ Proofs!Seen(p)'
    BY <2>1, ProofsUntouched
  <2> QED BY <2>1, <2>2, <2>3, <1>t
<1>2. ASSUME NEW step \in {"create", "load retry", "retry", "inspect", "write"}, Proofs!Goto(q, step), v3[q].step # "idle",
             step \in {"load retry", "retry", "inspect"} => v3[q].route # "prepare", step = "write" => v3[q].step = "load"
      PROVE  /\ v2' \in [Nonces -> Proofs!Transactions] /\ v3' \in [Callers -> Proofs!Request]
             /\ \A p \in Callers : Proofs!Asked(p)' /\ Proofs!Seen(p)'
  <2>1. v3' = [v3 EXCEPT ![q].step = step]
    BY <1>2 DEF Proofs!Goto
  <2>2. /\ v3' \in [Callers -> Proofs!Request] /\ v3'[q].step = step /\ v3'[q].route = v3[q].route /\ v3'[q].root = v3[q].root
        /\ v3'[q].tx = v3[q].tx /\ v3'[q].outcome = v3[q].outcome /\ \A p \in Callers : p # q => v3'[p] = v3[p]
    BY <2>1, <1>t DEF Proofs!Request
  <2>3. Proofs!Asked(q) /\ Proofs!Seen(q)
    BY <1>t
  <2>4. Proofs!Asked(q)' /\ Proofs!Seen(q)'
    BY <2>2, <2>3, <1>2 DEF Proofs!Asked, Proofs!Seen, Proofs!Commits, Proofs!Event
  <2>5. \A p \in Callers : p # q => Proofs!Asked(p)' /\ Proofs!Seen(p)'
    BY <2>2, ProofsUntouched
  <2> QED BY <1>t, <2>2, <2>4, <2>5
<1> QED BY <1>1, <1>2

\* The chain: what a transaction commits and that it succeeded stay so.
LEMMA ProofsChain ==
  ASSUME Proofs!IInv, UNCHANGED <<v1, v3>>, v2' \in [Nonces -> Proofs!Transactions],
         \A t \in Nonces : v2[t].kind # "none" => /\ v2'[t].kind = v2[t].kind /\ v2'[t].root = v2[t].root
                                                  /\ v2[t].receipt = "success" => v2'[t].receipt = "success"
  PROVE  Proofs!IInv'
<1>1. ASSUME NEW t \in Nonces, NEW r, NEW event, Proofs!Commits(t, r, event)
      PROVE  /\ Proofs!Commits(t, r, event)'
             /\ v2[t].receipt = "success" => v2'[t].receipt = "success"
  BY <1>1 DEF Proofs!Commits
<1>2. Proofs!TypeOK'
  BY DEF Proofs!IInv, Proofs!TypeOK
<1>3. Proofs!Evidence'
  <2>1. \A r \in Listings : v1[r].anchor \in {"SUBMITTED", "ANCHORED"} => v1[r].tx \in Nonces
    BY DEF Proofs!IInv
  <2>2. \A r \in Listings : /\ v1[r].anchor \in {"SUBMITTED", "ANCHORED"} => Proofs!Commits(v1[r].tx, r, v1[r].event)
                            /\ v1[r].anchor = "ANCHORED" => v2[v1[r].tx].receipt = "success"
                            /\ v1[r].verified <=> v1[r].anchor = "ANCHORED"
    BY DEF Proofs!IInv, Proofs!Evidence
  <2> QED BY <1>1, <2>1, <2>2 DEF Proofs!Evidence
<1>4. ASSUME NEW q \in Callers PROVE Proofs!Asked(q)' /\ Proofs!Seen(q)'
  <2>1. Proofs!Asked(q) /\ Proofs!Seen(q) /\ Proofs!Event(q)' = Proofs!Event(q)
    BY DEF Proofs!IInv, Proofs!Event
  <2>2. v3[q].step \in {"load", "write"} => v3[q].tx \in Nonces
    BY <2>1 DEF Proofs!Asked
  <2> QED BY <1>1, <2>1, <2>2 DEF Proofs!Asked, Proofs!Seen
<1> QED BY <1>2, <1>3, <1>4 DEF Proofs!IInv

\* What the rows need to stay what they are.
LEMMA ProofsRows ==
  ASSUME Proofs!IInv, UNCHANGED v1, UNCHANGED v2
  PROVE  Proofs!Evidence' /\ \A r \in Listings : v1'[r].anchor \in {"SUBMITTED", "ANCHORED"} => v1'[r].tx \in Nonces
BY DEF Proofs!IInv, Proofs!Evidence, Proofs!Commits

\* One row is written.
LEMMA ProofsRow ==
  ASSUME Proofs!IInv, UNCHANGED v2, NEW r \in Listings, NEW row \in Proofs!ProofRows, v1' = [v1 EXCEPT ![r] = row],
         row.anchor \in {"SUBMITTED", "ANCHORED"} => row.tx \in Nonces /\ Proofs!Commits(row.tx, r, row.event),
         row.anchor = "ANCHORED" => v2[row.tx].receipt = "success",
         row.verified <=> row.anchor = "ANCHORED"
  PROVE  /\ v1' \in [Listings -> Proofs!ProofRows] /\ Proofs!Evidence'
         /\ \A p \in Listings : v1'[p].anchor \in {"SUBMITTED", "ANCHORED"} => v1'[p].tx \in Nonces
<1>1. v1' \in [Listings -> Proofs!ProofRows] /\ v1'[r] = row /\ \A p \in Listings : p # r => v1'[p] = v1[p]
  BY DEF Proofs!IInv, Proofs!TypeOK
<1> QED BY <1>1 DEF Proofs!IInv, Proofs!Evidence, Proofs!Commits

\* What an inspection makes of the transaction.
LEMMA OutcomesTrue ==
  ASSUME v2 \in [Nonces -> Proofs!Transactions], NEW t \in Nonces, NEW r, NEW route \in {"submit", "confirm", "publish"},
         NEW o \in IF route = "publish" THEN Proofs!PublicationOutcomes(t, r) ELSE Proofs!AnchorOutcomes(route, t, r)
  PROVE  /\ o \in {"none", "SUBMITTED", "ANCHORED", "FAILED"}
         /\ o \in {"SUBMITTED", "ANCHORED"} => Proofs!Commits(t, r, IF route = "publish" THEN "EditionCreated" ELSE "ProvenanceAnchored")
         /\ o = "ANCHORED" => v2[t].receipt = "success"
<1>1. CASE route = "publish"
  BY <1>1 DEF Proofs!PublicationOutcomes, Proofs!Commits, Proofs!None
<1>2. CASE route # "publish"
  <2>1. o \in Proofs!AnchorOutcomes(route, t, r)
    BY <1>2
  <2>2. CASE ~Proofs!Anchors(t, r)
    <3>1. o \in {"none", "FAILED"}
      BY <2>1, <2>2 DEF Proofs!AnchorOutcomes, Proofs!None
    <3> QED BY <3>1
  <2>3. CASE Proofs!Anchors(t, r)
    <3>1. v2[t] # Proofs!NoTx /\ Proofs!Commits(t, r, "ProvenanceAnchored")
      BY <2>3 DEF Proofs!Anchors, Proofs!NoTx, Proofs!Commits, Proofs!None
    <3>2. CASE v2[t].receipt = "none"
      BY <2>1, <2>3, <3>1, <3>2, <1>2 DEF Proofs!AnchorOutcomes, Proofs!None
    <3>3. CASE v2[t].receipt = "reverted"
      BY <2>1, <2>3, <3>1, <3>3, <1>2 DEF Proofs!AnchorOutcomes, Proofs!None
    <3>4. CASE v2[t].receipt = "success"
      BY <2>1, <2>3, <3>1, <3>4, <1>2 DEF Proofs!AnchorOutcomes, Proofs!None
    <3>5. v2[t].receipt \in {"none", "reverted", "success"}
      BY DEF Proofs!Transactions, Proofs!None
    <3> QED BY <3>2, <3>3, <3>4, <3>5
  <2> QED BY <2>2, <2>3
<1> QED BY <1>1, <1>2

LEMMA ProofsKept == Proofs!IInv /\ Proofs!Next => Proofs!IInv' /\ Proofs!Immutable
<1> SUFFICES ASSUME Proofs!IInv, Proofs!Next PROVE Proofs!IInv' /\ Proofs!Immutable
  OBVIOUS
<1>t. /\ v1 \in [Listings -> Proofs!ProofRows] /\ v2 \in [Nonces -> Proofs!Transactions] /\ v3 \in [Callers -> Proofs!Request]
      /\ \A r \in Listings : v1[r].verified <=> v1[r].anchor = "ANCHORED"
  BY DEF Proofs!IInv, Proofs!TypeOK, Proofs!Evidence
<1>q. \A q \in Callers : Proofs!Asked(q) /\ Proofs!Seen(q)
  BY DEF Proofs!IInv
<1>s. UNCHANGED v1 => Proofs!Immutable
  BY DEF Proofs!Immutable
<1>1. ASSUME NEW t \in Nonces, Proofs!Mined(t) PROVE Proofs!IInv' /\ Proofs!Immutable
  <2>1. /\ UNCHANGED <<v1, v3>> /\ v2[t].receipt = "none"
        /\ v2' = [v2 EXCEPT ![t].receipt = IF Proofs!Succeeds(t) THEN "success" ELSE "reverted"]
    BY <1>1 DEF Proofs!Mined, Proofs!None
  <2>2. /\ v2' \in [Nonces -> Proofs!Transactions] /\ v2'[t].kind = v2[t].kind /\ v2'[t].root = v2[t].root
        /\ \A u \in Nonces : u # t => v2'[u] = v2[u]
    BY <2>1, <1>t DEF Proofs!Transactions
  <2> QED BY <2>1, <2>2, <1>s, ProofsChain
<1>2. ASSUME NEW t \in Nonces, NEW kind \in {"create", "anchor"}, NEW r \in Listings \cup {Nobody}, Proofs!Sent(t, kind, r)
      PROVE  Proofs!IInv' /\ Proofs!Immutable
  <2>1. /\ UNCHANGED <<v1, v3>> /\ v2[t].kind = "none"
        /\ v2' = [v2 EXCEPT ![t] = [kind |-> kind, root |-> r, receipt |-> "none"]]
    BY <1>2 DEF Proofs!Sent, Proofs!NoTx, Proofs!None
  <2>2. v2' \in [Nonces -> Proofs!Transactions] /\ \A u \in Nonces : u # t => v2'[u] = v2[u]
    BY <2>1, <1>t DEF Proofs!Transactions, Proofs!None
  <2> QED BY <2>1, <2>2, <1>s, ProofsChain
<1>3. ASSUME NEW q \in Callers, UNCHANGED <<v1, v2>>,
             \/ Proofs!Done(q)
             \/ \E step \in {"create", "load retry", "retry", "inspect", "write"} :
                  /\ Proofs!Goto(q, step) /\ v3[q].step # "idle"
                  /\ step \in {"load retry", "retry", "inspect"} => v3[q].route # "prepare"
                  /\ step = "write" => v3[q].step = "load"
      PROVE  Proofs!IInv' /\ Proofs!Immutable
  <2>1. /\ v2' \in [Nonces -> Proofs!Transactions] /\ v3' \in [Callers -> Proofs!Request]
        /\ \A p \in Callers : Proofs!Asked(p)' /\ Proofs!Seen(p)'
    BY <1>3, ProofsTurn
  <2>2. v1' \in [Listings -> Proofs!ProofRows]
    BY <1>3, <1>t
  <2> QED BY <2>1, <2>2, <1>3, <1>s, ProofsRows DEF Proofs!IInv, Proofs!TypeOK
<1>4. ASSUME NEW q \in Callers, NEW row, Proofs!Opened(q, row), v3[q].step # "idle", v3[q].route # "prepare"
      PROVE  \/ Proofs!Done(q)
             \/ \E step \in {"load retry", "inspect"} : Proofs!Goto(q, step)
  BY <1>4 DEF Proofs!Opened
<1>5. ASSUME NEW q \in Callers, Proofs!Find(q) PROVE Proofs!IInv' /\ Proofs!Immutable
  <2>1. v3[q].step = "find" /\ UNCHANGED <<v1, v2>>
    BY <1>5 DEF Proofs!Find
  <2>2. \/ Proofs!Done(q) \/ Proofs!Goto(q, "create")
        \/ v3[q].route # "prepare" /\ Proofs!Opened(q, v1[v3[q].root])
    BY <1>5 DEF Proofs!Find
  <2> QED BY <2>1, <2>2, <1>3, <1>4
<1>6. ASSUME NEW q \in Callers, Proofs!LoadRetry(q) PROVE Proofs!IInv' /\ Proofs!Immutable
  <2>1. v3[q].step = "load retry" /\ v3[q].route # "prepare" /\ UNCHANGED <<v1, v2>>
    BY <1>6, <1>q DEF Proofs!LoadRetry, Proofs!Asked
  <2> QED BY <2>1, <1>3, <1>6 DEF Proofs!LoadRetry
<1>7. ASSUME NEW q \in Callers, Proofs!Load(q) PROVE Proofs!IInv' /\ Proofs!Immutable
  <2>1. v3[q].step = "load" /\ UNCHANGED <<v1, v2>>
    BY <1>7 DEF Proofs!Load
  <2> QED BY <2>1, <1>3, <1>7 DEF Proofs!Load
<1>8. ASSUME NEW q \in Callers, Proofs!Die(q) PROVE Proofs!IInv' /\ Proofs!Immutable
  BY <1>3, <1>8 DEF Proofs!Die
<1>9. ASSUME NEW q \in Callers, NEW route \in {"prepare", "submit", "confirm", "publish"}, NEW r \in Listings, NEW t \in Nonces \cup {"none"},
             Proofs!Begin(q, route, r, t)
      PROVE  Proofs!IInv' /\ Proofs!Immutable
  <2>1. /\ v3' = [v3 EXCEPT ![q] = [Proofs!Idle EXCEPT !.step = "find", !.route = route, !.root = r, !.tx = t]]
        /\ UNCHANGED <<v1, v2>> /\ (route # "prepare" => t \in Nonces)
    BY <1>9 DEF Proofs!Begin, Proofs!None
  <2>2. [Proofs!Idle EXCEPT !.step = "find", !.route = route, !.root = r, !.tx = t] \in Proofs!Request
    BY DEF Proofs!Idle, Proofs!Request, Proofs!None
  <2>3. /\ v3' \in [Callers -> Proofs!Request] /\ v3'[q].step = "find" /\ v3'[q].route = route /\ v3'[q].root = r
        /\ v3'[q].tx = t /\ \A p \in Callers : p # q => v3'[p] = v3[p]
    BY <2>1, <2>2, <1>t DEF Proofs!Idle
  <2>4. Proofs!Asked(q)' /\ Proofs!Seen(q)'
    BY <2>1, <2>3 DEF Proofs!Asked, Proofs!Seen, Proofs!None
  <2>5. \A p \in Callers : p # q => Proofs!Asked(p)' /\ Proofs!Seen(p)'
    BY <2>1, <2>3, ProofsUntouched
  <2>6. v1' \in [Listings -> Proofs!ProofRows] /\ v2' \in [Nonces -> Proofs!Transactions]
    BY <2>1, <1>t
  <2> QED BY <2>1, <2>3, <2>4, <2>5, <2>6, <1>s, ProofsRows DEF Proofs!IInv, Proofs!TypeOK
<1>10. ASSUME NEW q \in Callers, Proofs!Inspect(q) PROVE Proofs!IInv' /\ Proofs!Immutable
  <2>1. v3[q].step = "inspect" /\ UNCHANGED <<v1, v2>>
    BY <1>10 DEF Proofs!Inspect
  <2>2. v3[q].root \in Listings /\ v3[q].tx \in Nonces /\ v3[q].route \in {"submit", "confirm", "publish"}
    BY <2>1, <1>q, <1>t DEF Proofs!Asked, Proofs!Request, Proofs!None
  <2>3. PICK o \in IF v3[q].route = "publish" THEN Proofs!PublicationOutcomes(v3[q].tx, v3[q].root)
                   ELSE Proofs!AnchorOutcomes(v3[q].route, v3[q].tx, v3[q].root) :
          IF o = "none" THEN Proofs!Done(q) ELSE v3' = [v3 EXCEPT ![q].step = "load", ![q].outcome = o]
    BY <1>10 DEF Proofs!Inspect, Proofs!None
  <2>4. CASE o = "none"
    BY <2>1, <2>3, <2>4, <1>3
  <2>5. CASE o # "none"
    <3>1. /\ o \in {"SUBMITTED", "ANCHORED", "FAILED"}
          /\ o \in {"SUBMITTED", "ANCHORED"} => Proofs!Commits(v3[q].tx, v3[q].root, Proofs!Event(q))
          /\ o = "ANCHORED" => v2[v3[q].tx].receipt = "success"
      <4> DEFINE t == v3[q].tx
                 r == v3[q].root
                 route == v3[q].route
      <4>1. /\ t \in Nonces /\ route \in {"submit", "confirm", "publish"}
            /\ o \in IF route = "publish" THEN Proofs!PublicationOutcomes(t, r) ELSE Proofs!AnchorOutcomes(route, t, r)
        BY <2>2, <2>3
      <4>2. Proofs!Event(q) = IF route = "publish" THEN "EditionCreated" ELSE "ProvenanceAnchored"
        BY DEF Proofs!Event
      <4> HIDE DEF t, r, route
      <4>3. /\ o \in {"none", "SUBMITTED", "ANCHORED", "FAILED"}
            /\ o \in {"SUBMITTED", "ANCHORED"} => Proofs!Commits(t, r, Proofs!Event(q))
            /\ o = "ANCHORED" => v2[t].receipt = "success"
        BY <4>1, <4>2, <1>t, OutcomesTrue
      <4> QED BY <4>3, <2>5 DEF t, r
    <3>2. v3' = [v3 EXCEPT ![q] = [v3[q] EXCEPT !.step = "load", !.outcome = o]]
      BY <2>3, <2>5, <1>t
    <3>3. /\ v3' \in [Callers -> Proofs!Request] /\ v3'[q].step = "load" /\ v3'[q].route = v3[q].route /\ v3'[q].root = v3[q].root
          /\ v3'[q].tx = v3[q].tx /\ v3'[q].outcome = o /\ \A p \in Callers : p # q => v3'[p] = v3[p]
      <4>1. \A x \in Proofs!Request : [x EXCEPT !.step = "load", !.outcome = o] \in Proofs!Request
        BY <3>1 DEF Proofs!Request
      <4>2. \A x \in Proofs!Request :
              /\ [x EXCEPT !.step = "load", !.outcome = o].step = "load" /\ [x EXCEPT !.step = "load", !.outcome = o].outcome = o
              /\ [x EXCEPT !.step = "load", !.outcome = o].route = x.route /\ [x EXCEPT !.step = "load", !.outcome = o].root = x.root
              /\ [x EXCEPT !.step = "load", !.outcome = o].tx = x.tx
        BY DEF Proofs!Request
      <4> DEFINE to == [v3[q] EXCEPT !.step = "load", !.outcome = o]
      <4>3. /\ to \in Proofs!Request /\ to.step = "load" /\ to.route = v3[q].route /\ to.root = v3[q].root
            /\ to.tx = v3[q].tx /\ to.outcome = o
        BY <4>1, <4>2, <1>t
      <4> HIDE DEF to
      <4>4. v3' = [v3 EXCEPT ![q] = to]
        BY <3>2 DEF to
      <4> QED BY <4>3, <4>4, <1>t
    <3>4. Proofs!Asked(q)' /\ Proofs!Seen(q)'
      BY <2>1, <2>2, <3>1, <3>3, <2>5, <1>q DEF Proofs!Asked, Proofs!Seen, Proofs!Commits, Proofs!Event, Proofs!None
    <3>5. \A p \in Callers : p # q => Proofs!Asked(p)' /\ Proofs!Seen(p)'
      BY <2>1, <3>3, ProofsUntouched
    <3>6. v1' \in [Listings -> Proofs!ProofRows] /\ v2' \in [Nonces -> Proofs!Transactions]
      BY <2>1, <1>t
    <3> QED BY <2>1, <3>3, <3>4, <3>5, <3>6, <1>s, ProofsRows DEF Proofs!IInv, Proofs!TypeOK
  <2> QED BY <2>4, <2>5
\* The three statements that write.
<1>11. ASSUME NEW q \in Callers, NEW r \in Listings, v3[q].step \in {"create", "retry", "write"}, v3[q].root = r, UNCHANGED v2,
              NEW row \in Proofs!ProofRows, v1' = [v1 EXCEPT ![r] = row],
              row.anchor \in {"SUBMITTED", "ANCHORED"} => row.tx \in Nonces /\ Proofs!Commits(row.tx, r, row.event),
              row.anchor = "ANCHORED" => v2[row.tx].receipt = "success",
              row.verified <=> row.anchor = "ANCHORED",
              v1[r].verified => row = v1[r],
              \/ Proofs!Done(q)
              \/ v3[q].route # "prepare" /\ \E step \in {"load retry", "inspect"} : Proofs!Goto(q, step)
       PROVE  Proofs!IInv' /\ Proofs!Immutable
  <2>1. /\ v2' \in [Nonces -> Proofs!Transactions] /\ v3' \in [Callers -> Proofs!Request]
        /\ \A p \in Callers : Proofs!Asked(p)' /\ Proofs!Seen(p)'
    BY <1>11, ProofsTurn
  <2>2. /\ v1' \in [Listings -> Proofs!ProofRows] /\ Proofs!Evidence'
        /\ \A p \in Listings : v1'[p].anchor \in {"SUBMITTED", "ANCHORED"} => v1'[p].tx \in Nonces
    BY <1>11, ProofsRow
  <2>3. Proofs!Immutable
    BY <1>11, <1>t DEF Proofs!Immutable
  <2> QED BY <2>1, <2>2, <2>3 DEF Proofs!IInv, Proofs!TypeOK
<1>12. ASSUME NEW q \in Callers, Proofs!Create(q) PROVE Proofs!IInv' /\ Proofs!Immutable
  <2> DEFINE r == v3[q].root
  <2>1. /\ v3[q].step = "create" /\ r \in Listings /\ UNCHANGED v2
        /\ v1' = IF v1[r] = Proofs!NoProof THEN [v1 EXCEPT ![r] = Proofs!NewProof] ELSE v1
    BY <1>12, <1>q DEF Proofs!Create, Proofs!Asked
  <2>2. Proofs!Done(q) \/ (v3[q].route # "prepare" /\ Proofs!Opened(q, Proofs!NewProof))
    BY <1>12 DEF Proofs!Create
  <2>3. CASE v1[r] = Proofs!NoProof
    BY <2>1, <2>2, <2>3, <1>4, <1>11, ProofsIdle
  <2>4. CASE v1[r] # Proofs!NoProof
    BY <2>1, <2>2, <2>4, <1>3, <1>4
  <2> QED BY <2>3, <2>4
<1>13. ASSUME NEW q \in Callers, Proofs!Retry(q) PROVE Proofs!IInv' /\ Proofs!Immutable
  <2> DEFINE r == v3[q].root
  <2>1. v3[q].step = "retry" /\ r \in Listings /\ v3[q].route # "prepare" /\ UNCHANGED v2
    BY <1>13, <1>q DEF Proofs!Retry, Proofs!Asked
  <2>2. CASE v1[r].anchor = "FAILED"
    <3>1. v1' = [v1 EXCEPT ![r] = [v1[r] EXCEPT !.anchor = "PENDING"]] /\ Proofs!Goto(q, "inspect")
      BY <1>13, <2>2, <1>t DEF Proofs!Retry
    <3>2. v1[r] \in Proofs!ProofRows /\ ~v1[r].verified
      BY <2>1, <2>2, <1>t
    <3>3. /\ [v1[r] EXCEPT !.anchor = "PENDING"] \in Proofs!ProofRows
          /\ [v1[r] EXCEPT !.anchor = "PENDING"].anchor = "PENDING"
          /\ [v1[r] EXCEPT !.anchor = "PENDING"].verified = v1[r].verified
      BY <3>2 DEF Proofs!ProofRows, Proofs!Statuses
    <3> QED BY <2>1, <3>1, <3>2, <3>3, <1>11
  <2>3. CASE v1[r].anchor # "FAILED"
    BY <1>13, <2>1, <2>3, <1>3 DEF Proofs!Retry
  <2> QED BY <2>2, <2>3
<1>14. ASSUME NEW q \in Callers, Proofs!Write(q) PROVE Proofs!IInv' /\ Proofs!Immutable
  <2> DEFINE r == v3[q].root
             row == Proofs!Recorded(v1[r], q)
  <2>1. v3[q].step = "write" /\ r \in Listings /\ v3[q].tx \in Nonces /\ Proofs!Done(q) /\ UNCHANGED v2
    BY <1>14, <1>q DEF Proofs!Write, Proofs!Asked
  <2>2. CASE Proofs!StillOpen(v1[r])
    <3>1. v1' = [v1 EXCEPT ![r] = row]
      BY <1>14, <2>2 DEF Proofs!Write
    <3>2. v1[r] \in Proofs!ProofRows /\ ~v1[r].verified
      BY <2>1, <2>2, <1>t DEF Proofs!StillOpen
    <3>3. /\ v3[q].outcome \in {"SUBMITTED", "ANCHORED", "FAILED"}
          /\ v3[q].outcome \in {"SUBMITTED", "ANCHORED"} => Proofs!Commits(v3[q].tx, r, Proofs!Event(q))
          /\ v3[q].outcome = "ANCHORED" => v2[v3[q].tx].receipt = "success"
      BY <2>1, <1>q, <1>t DEF Proofs!Seen, Proofs!Request, Proofs!None
    <3>4. /\ row \in Proofs!ProofRows
          /\ row.anchor \in {"SUBMITTED", "ANCHORED"} => row.tx = v3[q].tx /\ row.event = Proofs!Event(q)
          /\ row.anchor = v3[q].outcome /\ (row.verified <=> row.anchor = "ANCHORED")
      <4>1. Proofs!Event(q) \in {"EditionCreated", "ProvenanceAnchored"}
        BY DEF Proofs!Event
      <4>2. CASE v3[q].outcome = "FAILED"
        <5>1. row = [v1[r] EXCEPT !.anchor = "FAILED"]
          BY <4>2 DEF Proofs!Recorded
        <5> HIDE DEF row, r
        <5> QED BY <5>1, <4>2, <3>2 DEF Proofs!ProofRows, Proofs!Statuses
      <4>3. CASE v3[q].outcome = "SUBMITTED"
        <5>1. row = [v1[r] EXCEPT !.anchor = "SUBMITTED", !.verified = FALSE, !.tx = v3[q].tx, !.event = Proofs!Event(q)]
          BY <4>3 DEF Proofs!Recorded
        <5> HIDE DEF row, r
        <5> QED BY <5>1, <4>1, <4>3, <3>2, <2>1 DEF Proofs!ProofRows, Proofs!Statuses
      <4>4. CASE v3[q].outcome = "ANCHORED"
        <5>1. row = [v1[r] EXCEPT !.anchor = "ANCHORED", !.verified = TRUE, !.tx = v3[q].tx, !.event = Proofs!Event(q)]
          BY <4>4 DEF Proofs!Recorded
        <5> HIDE DEF row, r
        <5> QED BY <5>1, <4>1, <4>4, <3>2, <2>1 DEF Proofs!ProofRows, Proofs!Statuses
      <4> QED BY <3>3, <4>2, <4>3, <4>4
    <3> HIDE DEF row
    <3> QED BY <2>1, <3>1, <3>2, <3>3, <3>4, <1>11
  <2>3. CASE ~Proofs!StillOpen(v1[r])
    BY <1>14, <2>1, <2>3, <1>3 DEF Proofs!Write
  <2> QED BY <2>2, <2>3
<1> QED BY <1>1, <1>2, <1>5, <1>6, <1>7, <1>8, <1>9, <1>10, <1>12, <1>13, <1>14 DEF Proofs!Next, Proofs!None

\* A step keeps the invariant of the proofs, and is one the property allows.
LEMMA ProofsNext ==
  ASSUME part = "proofs" => Proofs!IInv, [NextOne]_allVars
  PROVE  /\ part' = "proofs" => Proofs!IInv'
         /\ [part = "proofs" => Proofs!Evidence' /\ Proofs!Immutable]_allVars
<1> SUFFICES ASSUME part = "proofs" PROVE Proofs!IInv' /\ Proofs!Evidence' /\ Proofs!Immutable
  BY DEF NextOne, Steps, allVars
<1>1. CASE Proofs!Next
  BY <1>1, ProofsKept DEF Proofs!IInv
<1>2. CASE UNCHANGED Proofs!vars
  BY <1>2 DEF Proofs!vars, Proofs!IInv, Proofs!TypeOK, Proofs!Evidence, Proofs!Immutable, Proofs!Asked, Proofs!Seen,
    Proofs!Commits, Proofs!Event
<1> QED BY <1>1, <1>2, ProofsStep

\* The invariant of the proofs holds in every behaviour.
LEMMA ProofsInvariant == SpecOne => [](part = "proofs" => Proofs!IInv)
<1>1. InitOne => (part = "proofs" => Proofs!IInv)
  BY ProofsStart DEF InitOne, Starts
<1>2. (part = "proofs" => Proofs!IInv) /\ [NextOne]_allVars => (part = "proofs" => Proofs!IInv)'
  BY ProofsNext
<1> QED BY <1>1, <1>2, PTL DEF SpecOne

\* A row says what was seen on chain, a verified one names the successful transaction that commits
\* its root and is never rewritten (server/provenance-records.js, provenance-anchor.js,
\* studio-service.js), for any number of manifests, transactions and requests that cross.
THEOREM ProofsAlwaysHold == SpecOne => ProofsHold
<1> DEFINE Inv == part = "proofs" => Proofs!IInv
<1>1. Inv /\ [NextOne]_allVars => [part = "proofs" => Proofs!Evidence' /\ Proofs!Immutable]_allVars
  BY ProofsNext
<1>2. SpecOne => []Inv
  BY ProofsInvariant
<1> QED BY <1>1, <1>2, PTL DEF SpecOne, ProofsHold
=============================================================================
