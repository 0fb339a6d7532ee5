------------------------------ MODULE MCSettling ------------------------------
(***************************************************************************)
(* What must end: the claims of GenesisClaim are settled, the reviewer of  *)
(* ReviewerAlert is told.  The two share neither state nor steps: a        *)
(* behaviour picks one of them, is a fair behaviour of that one, and the   *)
(* other stays as it began.                                                *)
(***************************************************************************)
EXTENDS MCGenesisClaim

CONSTANTS a1, d1, d2, Apps, Workers, MaxAttempts, MaxRedeploys

VARIABLES
  part,                                                             \* the component of this behaviour
  age, queued, alerts, worker, configured, redeploys, told          \* ReviewerAlert

Alerts == INSTANCE ReviewerAlert

ASSUME AlertParameters == Alerts!AlertAssumption

alertVars == <<age, queued, alerts, worker, configured, redeploys, told>>
allVars == <<part, vars, alertVars>>

InitOne == part \in {"claims", "alert"} /\ Init /\ Alerts!Init

OfClaims(A) == part = "claims" /\ A /\ UNCHANGED <<part, alertVars>>
OfAlert(A) == part = "alert" /\ A /\ UNCHANGED <<part, vars>>

NextOne == OfClaims(Next) \/ OfAlert(Alerts!Next)

SpecOne == InitOne /\ [][NextOne]_allVars

\* The fairness of each, as its own module states it.
FairSpecOne ==
  /\ SpecOne
  /\ WF_allVars(OfClaims(Tick))
  /\ \A s \in Servers : WF_allVars(OfClaims(Proceed(s))) /\ SF_allVars(OfClaims(BeginReconcile(s)))
  /\ <>[][~Interrupted]_vars
  /\ \A d \in Workers :
       WF_allVars(OfAlert(Alerts!Claim(d) \/ Alerts!Send(d) \/ Alerts!Unconfigured(d) \/ Alerts!Finish(d)))
  /\ \A a \in Apps :
       /\ WF_allVars(OfAlert(Alerts!Sweep(a)))
       /\ WF_allVars(OfAlert(Alerts!ComesDue(a)))
       /\ WF_allVars(OfAlert(Alerts!ClaimExpires(a)))
       /\ SF_allVars(OfAlert(\E d \in Workers : Alerts!SweepDue(d, a)))

\* The alert's properties, each stated in its own module.
NoDuplicateAlert == Alerts!NoDuplicateAlert
OutcomesFinal == Alerts!OutcomesFinal
Alerted == Alerts!Alerted
=============================================================================
