----------------------------- MODULE WeekendConfig -----------------------------
(***************************************************************************)
(* What the API says of the weekend claim (server/genesis-weekend-claim.js)*)
(* between reads of the contract (GenesisWeekendClaim.activate): a read    *)
(* takes a while and may see an older block, its outcome is cached, joined *)
(* by whoever asks meanwhile, and two outcomes are taken as final: an end  *)
(* once seen, and that the claim was never activated.                      *)
(*                                                                         *)
(* Left out: the bindings that are compared and never change (a read that  *)
(* finds another contract fails, like one that is torn or gets no answer); *)
(* the snapshot and the claims of a wallet, looked up once the window is   *)
(* known to be open.  The clock of the API is the clock of the blocks.     *)
(***************************************************************************)
EXTENDS Integers

CONSTANTS
  Callers,
  Deadline,     \* activationDeadline
  Duration,     \* CLAIM_DURATION
  CacheTtl,     \* WEEKEND_CONFIG_CACHE_MS
  Margin,       \* NEVER_ACTIVATED_MARGIN_SECONDS
  Lag,          \* how old a block a read may see
  ReadTime,     \* how long a read takes at most: the node's answers time out
  MaxTime       \* bound: the time the model ends

WeekendAssumption ==
  /\ {Deadline, Duration, CacheTtl, Margin, Lag, ReadTime, MaxTime} \subseteq Nat
  /\ Lag <= Margin
  /\ Duration > Lag + ReadTime + CacheTtl

VARIABLES
  now,
  activated,        \* the time of the activation, or Never
  cached,           \* what the last read saw, and when it ended
  inflight,         \* the start of the read under way, or Never
  neverActivated,
  observedClose,    \* the end a read saw, or Never
  caller            \* caller[c]: a request; `late` (history): asked when every node knew of every activation there
                    \* could be, and no read begun before was under way

weekendVars == <<now, activated, cached, inflight, neverActivated, observedClose, caller>>

-----------------------------------------------------------------------------
Never == 0 - 1
NoRead == [active |-> FALSE, end |-> Never, at |-> Never]
Idle == [step |-> "idle", late |-> FALSE, said |-> "nothing"]

WeekendInit ==
  /\ now = 0 /\ activated = Never
  /\ cached = NoRead /\ inflight = Never
  /\ neverActivated = FALSE /\ observedClose = Never
  /\ caller = [c \in Callers |-> Idle]

\* Nobody can claim any more, or ever.
Closed == IF activated = Never THEN now > Deadline ELSE now >= activated + Duration

-----------------------------------------------------------------------------
\* activate
Activate ==
  /\ activated = Never /\ now <= Deadline
  /\ activated' = now
  /\ UNCHANGED <<now, cached, inflight, neverActivated, observedClose, caller>>

\* cacheUsable
CacheUsable ==
  /\ cached # NoRead /\ now - cached.at < CacheTtl
  /\ cached.active \/ neverActivated \/ now <= Deadline

\* checkEligibility, on a read.
Verdict(read) ==
  IF (IF read.active THEN now >= read.end ELSE now > Deadline) THEN "closed" ELSE "open"

\* A read that begins now, or began at `start`, sees a block after the deadline.
Late(start) == start > Deadline + Lag
AsksLate == Late(now) /\ (inflight = Never \/ Late(inflight))

Say(c, said) == caller' = [caller EXCEPT ![c] = [step |-> "answered", late |-> AsksLate, said |-> said]]

\* A request: the end observed, else the cache, else the read under way, else one of its own.
Ask(c) ==
  /\ caller[c].step = "idle"
  /\ IF observedClose # Never /\ now >= observedClose
     THEN Say(c, "closed") /\ UNCHANGED inflight
     ELSE IF CacheUsable
     THEN Say(c, Verdict(cached)) /\ UNCHANGED inflight
     ELSE /\ inflight' = IF inflight = Never THEN now ELSE inflight
          /\ caller' = [caller EXCEPT ![c].step = "waiting", ![c].late = AsksLate]
  /\ UNCHANGED <<now, activated, cached, neverActivated, observedClose>>

\* What a read that began at `start` can have seen: a block of any time from then on, or older by the lag.
Seen(start) ==
  LET inactive == [active |-> FALSE, end |-> Never, at |-> now]
      active == [active |-> TRUE, end |-> activated + Duration, at |-> now]
  IN  IF activated = Never THEN {inactive}
      ELSE {active} \cup IF start - Lag <= activated THEN {inactive} ELSE {}

\* Mutant: no margin for a block that the node had not seen yet.
LatchedAtDeadline(read) == ~read.active /\ inflight > Deadline

\* Only a read that began well after the deadline settles that the claim was never activated.
Latches(read) == ~read.active /\ inflight > Deadline + Margin

\* Everyone who joined goes on before anything else runs.
ReadEnds ==
  /\ inflight # Never
  /\ \E read \in Seen(inflight) :
       /\ cached' = read
       /\ observedClose' = IF read.active THEN read.end ELSE observedClose
       /\ neverActivated' = (neverActivated \/ Latches(read))
       /\ caller' = [c \in Callers |->
            IF caller[c].step = "waiting" THEN [caller[c] EXCEPT !.step = "answered", !.said = Verdict(read)] ELSE caller[c]]
  /\ inflight' = Never
  /\ UNCHANGED <<now, activated>>

\* The read fails, or is torn between two blocks: 503 to everyone who joined.
ReadFails ==
  /\ inflight # Never
  /\ inflight' = Never
  /\ caller' = [c \in Callers |->
       IF caller[c].step = "waiting" THEN [caller[c] EXCEPT !.step = "answered", !.said = "unavailable"] ELSE caller[c]]
  /\ UNCHANGED <<now, activated, cached, neverActivated, observedClose>>

AskAgain(c) ==
  /\ caller[c].step = "answered"
  /\ caller' = [caller EXCEPT ![c] = Idle]
  /\ UNCHANGED <<now, activated, cached, inflight, neverActivated, observedClose>>

\* The process restarts.
Restart ==
  /\ cached' = NoRead /\ inflight' = Never /\ neverActivated' = FALSE /\ observedClose' = Never
  /\ caller' = [c \in Callers |-> Idle]
  /\ UNCHANGED <<now, activated>>

\* Time passes once whoever was answered has read the answer.
Tick ==
  /\ now < MaxTime
  /\ inflight # Never => now - inflight < ReadTime
  /\ \A c \in Callers : caller[c].step # "answered"
  /\ now' = now + 1
  /\ UNCHANGED <<activated, cached, inflight, neverActivated, observedClose, caller>>

WeekendNext ==
  \/ Activate \/ ReadEnds \/ ReadFails \/ Restart \/ Tick
  \/ \E c \in Callers : Ask(c) \/ AskAgain(c)

WeekendSpec == WeekendInit /\ [][WeekendNext]_weekendVars

-----------------------------------------------------------------------------
\* Type correctness of the clock, the cache and the requests.
Read == [active : BOOLEAN, end : {Never} \cup Nat, at : {Never} \cup 0..MaxTime]
Caller == [step : {"idle", "waiting", "answered"}, late : BOOLEAN, said : {"nothing", "closed", "open", "unavailable"}]

WeekendTypeOK ==
  /\ now \in 0..MaxTime
  /\ activated \in {Never} \cup 0..Deadline
  /\ cached \in Read
  /\ inflight \in {Never} \cup 0..MaxTime
  /\ neverActivated \in BOOLEAN
  /\ observedClose \in {Never} \cup Nat
  /\ caller \in [Callers -> Caller]

\* What is taken as final is: an end seen is the end, and never means never.
FinalIsFinal ==
  /\ observedClose # Never => activated # Never /\ observedClose = activated + Duration
  /\ neverActivated => activated = Never /\ now > Deadline

(***************************************************************************)
(* Nobody is told the window is open when it has closed, nor closed while  *)
(* it is open, but for those who heard of a read begun before every node   *)
(* knew of the last activation there could be; what such a read saw is not *)
(* served to later requests, and what is taken as final is true.           *)
(***************************************************************************)
AnswersTrue ==
  /\ FinalIsFinal
  /\ \A c \in Callers : caller[c].step = "answered" =>
       /\ caller[c].said = "open" => ~Closed
       /\ caller[c].said = "closed" => Closed \/ ~caller[c].late

(***************************************************************************)
(* Why: what is cached, and what the read under way will see, is not older *)
(* than the lag and the time of a read; and who asked late waits for a     *)
(* read that began late.                                                   *)
(***************************************************************************)
CacheRecent ==
  /\ cached.at <= now
  /\ cached.active => activated # Never /\ cached.end = activated + Duration
  /\ cached # NoRead /\ ~cached.active /\ activated # Never => activated >= cached.at - ReadTime - Lag

ReadsRecent ==
  /\ inflight # Never => inflight <= now /\ now - inflight <= ReadTime
  /\ \A c \in Callers : caller[c].step = "waiting" => inflight # Never /\ (caller[c].late => Late(inflight))

WeekendIInv == WeekendTypeOK /\ AnswersTrue /\ CacheRecent /\ ReadsRecent
=============================================================================
