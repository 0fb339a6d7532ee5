----------------------------- MODULE AccessProofs -----------------------------
(***************************************************************************)
(* Proofs about Account, VerificationDesk, MediaGate, WeekendConfig and    *)
(* Playback as MCRequests runs them, for every value of the constants: who *)
(* may do what, and until when.                                            *)
(***************************************************************************)
EXTENDS MCRequests, Sequences, FiniteSetTheorems, TLAPS

-----------------------------------------------------------------------------
(***************************************************************************)
(* Wallet authentication and X linking.  A nonce is consumed once, an      *)
(* attempt is answered by the request that consumed it.                    *)
(***************************************************************************)
LEMMA AccountStep ==
  part = "account" /\ [NextOne]_allVars => part' = "account" /\ [Auth!Next]_(Auth!vars)
BY DEF NextOne, Steps, allVars, vVars, Auth!vars

\* The tables keep their types.
LEMMA AccountStarts == Auth!AccountAssumption /\ Auth!Init => Auth!IInv
<1> SUFFICES ASSUME Auth!AccountAssumption, Auth!Init PROVE Auth!IInv
  OBVIOUS
<1>1. Auth!TypeOK
  BY DEF Auth!Init, Auth!TypeOK, Auth!NoNonce, Auth!NoAttempt, Auth!NoRequest, Auth!Nonce, Auth!Attempt, Auth!Request
<1>2. Auth!OneSessionPerNonce /\ Auth!LinkProven
  BY DEF Auth!Init, Auth!OneSessionPerNonce, Auth!LinkProven
<1>3. Auth!ConsumedOnce /\ Auth!Answerable /\ Auth!Completing
  BY DEF Auth!Init, Auth!ConsumedOnce, Auth!Opening, Auth!Answerable, Auth!Completing, Auth!NoNonce, Auth!NoRequest
<1> QED BY <1>1, <1>2, <1>3 DEF Auth!IInv

LEMMA AccountTurn ==
  ASSUME Auth!TypeOK, NEW r \in Callers
  PROVE  /\ Auth!Done(r) => v5' \in [Callers -> Auth!Request]
         /\ \A n \in Nonces : \A step \in {"consume", "session", "attempt"} : Auth!Turn(r, step, n) => v5' \in [Callers -> Auth!Request]
<1>1. v5 \in [Callers -> Auth!Request]
  BY DEF Auth!TypeOK
<1>2. Auth!NoRequest \in Auth!Request
  BY DEF Auth!NoRequest, Auth!Request
<1>3. ASSUME NEW n \in Nonces, NEW step \in {"consume", "session", "attempt"}
      PROVE  [Auth!NoRequest EXCEPT !.step = step, !.nonce = n] \in Auth!Request
  BY <1>2 DEF Auth!Request
<1> QED BY <1>1, <1>2, <1>3 DEF Auth!Done, Auth!Turn

LEMMA AccountTypes == Auth!TypeOK /\ Auth!Answerable /\ Auth!Next => Auth!TypeOK'
<1> SUFFICES ASSUME Auth!TypeOK, Auth!Answerable, Auth!Next PROVE Auth!TypeOK'
  OBVIOUS
<1>1. ASSUME NEW n \in Nonces, NEW w \in Wallets, Auth!CreateChallenge(n, w) PROVE Auth!TypeOK'
  BY <1>1 DEF Auth!CreateChallenge, Auth!TypeOK, Auth!Nonce
<1>2. ASSUME NEW n \in Nonces, Auth!Expire(n) PROVE Auth!TypeOK'
  BY <1>2 DEF Auth!Expire, Auth!TypeOK, Auth!Nonce
<1>3. ASSUME NEW n \in Nonces, Auth!SessionExpires(n) PROVE Auth!TypeOK'
  BY <1>3 DEF Auth!SessionExpires, Auth!TypeOK
<1>4. ASSUME NEW n \in Nonces, Auth!Disconnect(n) PROVE Auth!TypeOK'
  BY <1>4 DEF Auth!Disconnect, Auth!TypeOK
<1>5. ASSUME NEW s \in Attempts, Auth!AttemptExpires(s) PROVE Auth!TypeOK'
  BY <1>5 DEF Auth!AttemptExpires, Auth!TypeOK, Auth!Attempt
<1>6. ASSUME NEW s \in Attempts, NEW u \in XUsers, Auth!Approve(s, u) PROVE Auth!TypeOK'
  BY <1>6 DEF Auth!Approve, Auth!TypeOK, Auth!Attempt
<1>7. ASSUME NEW r \in Callers, NEW n \in Nonces, Auth!ReadChallenge(r, n) PROVE Auth!TypeOK'
  BY <1>7, AccountTurn DEF Auth!ReadChallenge, Auth!TypeOK
<1>8. ASSUME NEW r \in Callers, NEW n \in Nonces, Auth!StartLink(r, n) PROVE Auth!TypeOK'
  <2>1. \A s \in Attempts : v3[s] \in Auth!Attempt /\ [v3[s] EXCEPT !.consumed = TRUE] \in Auth!Attempt
    BY DEF Auth!TypeOK, Auth!Attempt
  <2>2. v3' \in [Attempts -> Auth!Attempt]
    BY <1>8, <2>1 DEF Auth!StartLink
  <2> QED BY <1>8, <2>2, AccountTurn DEF Auth!StartLink, Auth!TypeOK
<1>9. ASSUME NEW r \in Callers, NEW n \in Nonces, NEW s \in Attempts, Auth!ConsumeAttempt(r, s, n) PROVE Auth!TypeOK'
  <2>1. v3' \in [Attempts -> Auth!Attempt]
    BY <1>9 DEF Auth!ConsumeAttempt, Auth!TypeOK, Auth!Attempt
  <2>2. [Auth!NoRequest EXCEPT !.step = "exchange", !.nonce = n, !.attempt = s] \in Auth!Request
    BY DEF Auth!Request, Auth!NoRequest
  <2>3. v5' \in [Callers -> Auth!Request]
    BY <1>9, <2>2, AccountTurn DEF Auth!ConsumeAttempt, Auth!TypeOK
  <2> QED BY <1>9, <2>1, <2>3 DEF Auth!ConsumeAttempt, Auth!TypeOK
<1>10. ASSUME NEW r \in Callers, Auth!InsertAttempt(r) PROVE Auth!TypeOK'
  <2>1. Auth!NewAttempt \in Attempts
    BY <1>10 DEF Auth!InsertAttempt, Auth!NewAttempt
  <2>2. v5[r].nonce \in Nonces /\ Auth!Wallet(v5[r].nonce) \in Wallets \cup {Auth!None}
    BY <1>10 DEF Auth!InsertAttempt, Auth!Answerable, Auth!TypeOK, Auth!Nonce, Auth!Wallet
  <2>3. [Auth!NoAttempt EXCEPT !.wallet = Auth!Wallet(v5[r].nonce), !.session = v5[r].nonce] \in Auth!Attempt
    BY <2>2 DEF Auth!Attempt, Auth!NoAttempt
  <2>4. v3' \in [Attempts -> Auth!Attempt]
    BY <1>10, <2>1, <2>3 DEF Auth!InsertAttempt, Auth!TypeOK
  <2> QED BY <1>10, <2>4, AccountTurn DEF Auth!InsertAttempt, Auth!TypeOK
<1>11. ASSUME NEW r \in Callers, Auth!ConsumeNonce(r) PROVE Auth!TypeOK'
  <2>1. v5[r].nonce \in Nonces
    BY <1>11 DEF Auth!ConsumeNonce, Auth!Answerable
  <2>2. \A n \in Nonces : [v1[n] EXCEPT !.consumed = TRUE] \in Auth!Nonce
    BY DEF Auth!TypeOK, Auth!Nonce
  <2>3. v1' \in [Nonces -> Auth!Nonce]
    BY <1>11, <2>1, <2>2 DEF Auth!ConsumeNonce, Auth!TypeOK
  <2> QED BY <1>11, <2>1, <2>3, AccountTurn DEF Auth!ConsumeNonce, Auth!TypeOK
<1>12. ASSUME NEW r \in Callers, Auth!CreateSession(r) PROVE Auth!TypeOK'
  <2>1. v5[r].nonce \in Nonces
    BY <1>12 DEF Auth!CreateSession, Auth!Answerable
  <2>2. v2' \in [Nonces -> [made : Nat, live : BOOLEAN]]
    BY <1>12, <2>1 DEF Auth!CreateSession, Auth!TypeOK
  <2> QED BY <1>12, <2>2, AccountTurn DEF Auth!CreateSession, Auth!TypeOK
<1>13. ASSUME NEW r \in Callers, Auth!Exchange(r) PROVE Auth!TypeOK'
  <2>1. v5' \in [Callers -> Auth!Request]
    BY <1>13, AccountTurn DEF Auth!Exchange, Auth!TypeOK, Auth!Request
  <2> QED BY <1>13, <2>1 DEF Auth!Exchange, Auth!TypeOK
<1>14. ASSUME NEW r \in Callers, Auth!SaveLink(r) PROVE Auth!TypeOK'
  <2>1. v4' \in [Wallets -> XUsers \cup {Auth!None}]
    BY <1>14 DEF Auth!SaveLink, Auth!TypeOK, Auth!Request, Auth!None
  <2> QED BY <1>14, <2>1, AccountTurn DEF Auth!SaveLink, Auth!TypeOK
<1>15. ASSUME NEW r \in Callers, Auth!Die(r) PROVE Auth!TypeOK'
  BY <1>15, AccountTurn DEF Auth!Die, Auth!TypeOK
<1> QED BY <1>1, <1>2, <1>3, <1>4, <1>5, <1>6, <1>7, <1>8, <1>9, <1>10, <1>11, <1>12, <1>13, <1>14, <1>15 DEF Auth!Next, Auth!Serve

(***************************************************************************)
(* One conjunct of the invariant after the other.                          *)
(***************************************************************************)
LEMMA AccountInduction ==
  ASSUME Auth!AccountAssumption, Auth!IInv, Auth!Next
  PROVE  Auth!OneSessionPerNonce' /\ Auth!ConsumedOnce' /\ Auth!Answerable' /\ Auth!Completing' /\ Auth!LinkProven'
<1> DEFINE Good == Auth!OneSessionPerNonce' /\ Auth!ConsumedOnce' /\ Auth!Answerable' /\ Auth!Completing' /\ Auth!LinkProven'
<1>0. /\ Auth!TypeOK /\ Auth!OneSessionPerNonce /\ Auth!LinkProven /\ Auth!ConsumedOnce /\ Auth!Answerable /\ Auth!Completing
  BY DEF Auth!IInv
<1>n. Auth!None \notin Wallets
  BY DEF Auth!AccountAssumption, Auth!None
<1>1. ASSUME NEW n \in Nonces, NEW w \in Wallets, Auth!CreateChallenge(n, w) PROVE Good
  <2>0. v1[n].wallet = Auth!None /\ UNCHANGED <<v2, v3, v4, v5>>
    BY <1>1 DEF Auth!CreateChallenge, Auth!NoNonce
  <2>1. \A m \in Nonces : v1'[m].consumed = v1[m].consumed /\ (m # n => v1'[m] = v1[m])
    BY <1>1, <1>0 DEF Auth!CreateChallenge, Auth!TypeOK, Auth!Nonce
  <2>2. v1'[n].wallet # Auth!None
    BY <1>1, <1>0, <1>n DEF Auth!CreateChallenge, Auth!TypeOK, Auth!Nonce
  <2>3. ~v1[n].consumed
    BY <2>0, <1>0 DEF Auth!Answerable
  <2>4. \A s \in Attempts : v3[s].wallet \in Wallets \cup {Auth!None}
    BY <1>0 DEF Auth!TypeOK, Auth!Attempt
  <2>5. Auth!OneSessionPerNonce' /\ Auth!ConsumedOnce' /\ Auth!LinkProven'
    BY <2>0, <2>1, <1>0 DEF Auth!OneSessionPerNonce, Auth!ConsumedOnce, Auth!Opening, Auth!LinkProven
  <2>6. \A r \in Callers : v5[r].step # "idle" => v5[r].nonce \in Nonces /\ v5[r].nonce # n
    BY <2>0, <1>0 DEF Auth!Answerable, Auth!Wallet
  <2>7. Auth!Answerable' /\ Auth!Completing'
    BY <2>0, <2>1, <2>2, <2>3, <2>6, <1>0 DEF Auth!Answerable, Auth!Completing, Auth!Wallet
  <2> QED BY <2>5, <2>7
<1>2. ASSUME NEW n \in Nonces, Auth!Expire(n) PROVE Good
  <2>1. /\ \A m \in Nonces : v1'[m].consumed = v1[m].consumed /\ v1'[m].wallet = v1[m].wallet
        /\ UNCHANGED <<v2, v3, v4, v5>>
    BY <1>2, <1>0 DEF Auth!Expire, Auth!TypeOK, Auth!Nonce
  <2> QED BY <2>1, <1>0 DEF Auth!OneSessionPerNonce, Auth!ConsumedOnce, Auth!Opening, Auth!Answerable, Auth!Completing, Auth!LinkProven, Auth!Wallet
<1>3. ASSUME NEW n \in Nonces, Auth!SessionExpires(n) PROVE Good
  <2>1. /\ \A m \in Nonces : v2'[m].made = v2[m].made /\ (v2'[m].live => v2[m].live)
        /\ UNCHANGED <<v1, v3, v4, v5>>
    BY <1>3, <1>0 DEF Auth!SessionExpires, Auth!TypeOK
  <2> QED BY <2>1, <1>0 DEF Auth!OneSessionPerNonce, Auth!ConsumedOnce, Auth!Opening, Auth!Answerable, Auth!Completing, Auth!LinkProven, Auth!Wallet
<1>4. ASSUME NEW n \in Nonces, Auth!Disconnect(n) PROVE Good
  <2>1. /\ \A w \in Wallets : v4'[w] \in {v4[w], Auth!None}
        /\ UNCHANGED <<v1, v2, v3, v5>>
    BY <1>4, <1>0 DEF Auth!Disconnect, Auth!TypeOK
  <2> QED BY <2>1, <1>0 DEF Auth!OneSessionPerNonce, Auth!ConsumedOnce, Auth!Opening, Auth!Answerable, Auth!Completing, Auth!LinkProven, Auth!Wallet
<1>5. ASSUME NEW s \in Attempts, Auth!AttemptExpires(s) PROVE Good
  <2>1. /\ \A t \in Attempts : v3'[t].wallet = v3[t].wallet /\ v3'[t].approved = v3[t].approved
        /\ UNCHANGED <<v1, v2, v4, v5>>
    BY <1>5, <1>0 DEF Auth!AttemptExpires, Auth!TypeOK, Auth!Attempt
  <2> QED BY <2>1, <1>0 DEF Auth!OneSessionPerNonce, Auth!ConsumedOnce, Auth!Opening, Auth!Answerable, Auth!Completing, Auth!LinkProven, Auth!Wallet
<1>6. ASSUME NEW s \in Attempts, NEW u \in XUsers, Auth!Approve(s, u) PROVE Good
  <2>1. /\ \A t \in Attempts : v3'[t].wallet = v3[t].wallet /\ v3[t].approved \subseteq v3'[t].approved
        /\ UNCHANGED <<v1, v2, v4, v5>>
    BY <1>6, <1>0 DEF Auth!Approve, Auth!TypeOK, Auth!Attempt
  <2> QED BY <2>1, <1>0 DEF Auth!OneSessionPerNonce, Auth!ConsumedOnce, Auth!Opening, Auth!Answerable, Auth!Completing, Auth!LinkProven, Auth!Wallet
<1>7. ASSUME NEW r \in Callers, NEW n \in Nonces, Auth!ReadChallenge(r, n) PROVE Good
  <2>1. v5'[r].step = "consume" /\ v5'[r].nonce = n /\ v1[n].wallet # Auth!None /\ UNCHANGED <<v1, v2, v3, v4>>
    BY <1>7, <1>0 DEF Auth!ReadChallenge, Auth!Turn, Auth!NoRequest, Auth!TypeOK
  <2>2. \A q \in Callers : q # r => v5'[q] = v5[q]
    BY <1>7, <1>0 DEF Auth!ReadChallenge, Auth!Turn, Auth!TypeOK
  <2> QED BY <2>1, <2>2, <1>0 DEF Auth!OneSessionPerNonce, Auth!ConsumedOnce, Auth!Opening, Auth!Answerable, Auth!Completing, Auth!LinkProven, Auth!Wallet
<1>8. ASSUME NEW r \in Callers, NEW n \in Nonces, Auth!StartLink(r, n) PROVE Good
  <2>1. v5'[r].step = "attempt" /\ v5'[r].nonce = n /\ v1[n].wallet # Auth!None /\ UNCHANGED <<v1, v2, v4>>
    BY <1>8, <1>0 DEF Auth!StartLink, Auth!Turn, Auth!NoRequest, Auth!TypeOK, Auth!ConsumedOnce, Auth!Answerable
  <2>2. \A q \in Callers : q # r => v5'[q] = v5[q]
    BY <1>8, <1>0 DEF Auth!StartLink, Auth!Turn, Auth!TypeOK
  <2>3. \A t \in Attempts : v3'[t].wallet = v3[t].wallet /\ v3'[t].approved = v3[t].approved
    BY <1>8, <1>0 DEF Auth!StartLink, Auth!TypeOK, Auth!Attempt
  <2> QED BY <2>1, <2>2, <2>3, <1>0 DEF Auth!OneSessionPerNonce, Auth!ConsumedOnce, Auth!Opening, Auth!Answerable, Auth!Completing, Auth!LinkProven, Auth!Wallet
<1>9. ASSUME NEW r \in Callers, NEW n \in Nonces, NEW s \in Attempts, Auth!ConsumeAttempt(r, s, n) PROVE Good
  <2>1. \/ v5'[r] = Auth!NoRequest
        \/ v5'[r].step = "exchange" /\ v5'[r].nonce = n /\ v5'[r].attempt = s
    BY <1>9, <1>0 DEF Auth!ConsumeAttempt, Auth!Done, Auth!NoRequest, Auth!TypeOK
  <2>2. \A q \in Callers : q # r => v5'[q] = v5[q]
    BY <1>9, <1>0 DEF Auth!ConsumeAttempt, Auth!Done, Auth!TypeOK
  <2>3. \A t \in Attempts : v3'[t].wallet = v3[t].wallet /\ v3'[t].approved = v3[t].approved
    BY <1>9, <1>0 DEF Auth!ConsumeAttempt, Auth!TypeOK, Auth!Attempt
  <2>4. v3[s].wallet = Auth!Wallet(n) /\ Auth!Wallet(n) # Auth!None /\ UNCHANGED <<v1, v2, v4>>
    BY <1>9 DEF Auth!ConsumeAttempt, Auth!Pending, Auth!BelongsTo
  <2> QED BY <2>1, <2>2, <2>3, <2>4, <1>0 DEF Auth!NoRequest, Auth!OneSessionPerNonce, Auth!ConsumedOnce, Auth!Opening, Auth!Answerable, Auth!Completing, Auth!LinkProven, Auth!Wallet
<1>10. ASSUME NEW r \in Callers, Auth!InsertAttempt(r) PROVE Good
  <2>1. Auth!NewAttempt \in Attempts /\ v3[Auth!NewAttempt] = Auth!NoAttempt
    BY <1>10 DEF Auth!InsertAttempt, Auth!NewAttempt
  <2>2. v5'[r] = Auth!NoRequest /\ (\A q \in Callers : q # r => v5'[q] = v5[q]) /\ UNCHANGED <<v1, v2, v4>>
    BY <1>10, <1>0 DEF Auth!InsertAttempt, Auth!Done, Auth!TypeOK
  <2>3. \A t \in Attempts : v3[t].wallet # Auth!None => v3'[t] = v3[t]
    BY <1>10, <2>1, <1>0 DEF Auth!InsertAttempt, Auth!NoAttempt, Auth!TypeOK
  <2>4. \A w \in Wallets : w # Auth!None
    BY <1>n
  <2> QED BY <2>1, <2>2, <2>3, <2>4, <1>0 DEF Auth!NoRequest, Auth!OneSessionPerNonce, Auth!ConsumedOnce, Auth!Opening, Auth!Answerable, Auth!Completing, Auth!LinkProven, Auth!Wallet
<1>11. ASSUME NEW r \in Callers, Auth!ConsumeNonce(r) PROVE Good
  <2> DEFINE n == v5[r].nonce
  <2>1. n \in Nonces /\ v5[r].step = "consume" /\ Auth!Wallet(n) # Auth!None /\ UNCHANGED <<v2, v3, v4>>
    BY <1>11, <1>0 DEF Auth!ConsumeNonce, Auth!Answerable
  <2>2. \A q \in Callers : q # r => v5'[q] = v5[q]
    BY <1>11, <1>0 DEF Auth!ConsumeNonce, Auth!Done, Auth!Turn, Auth!TypeOK
  <2>3. CASE Auth!Open(n)
    <3>0. Auth!Turn(r, "session", n)
      BY <1>11, <2>3 DEF Auth!ConsumeNonce
    <3>1. v5'[r].step = "session" /\ v5'[r].nonce = n
      BY <3>0, <1>0 DEF Auth!Turn, Auth!NoRequest, Auth!TypeOK
    <3>2. /\ v1'[n].consumed /\ ~v1[n].consumed
          /\ \A m \in Nonces : v1'[m].wallet = v1[m].wallet /\ (m # n => v1'[m].consumed = v1[m].consumed)
      BY <1>11, <2>1, <2>3, <1>0 DEF Auth!ConsumeNonce, Auth!Open, Auth!TypeOK, Auth!Nonce
    <3>4. v2[n].made \in Nat /\ v2[n].made <= 1 /\ v2[n].made # 1
      BY <2>1, <3>2, <1>0 DEF Auth!ConsumedOnce, Auth!OneSessionPerNonce, Auth!TypeOK
    <3>5. \A q \in Callers : ~Auth!Opening(q, n)
      BY <2>1, <3>2, <1>0 DEF Auth!ConsumedOnce
    <3>3. v2[n].made = 0 /\ \A q \in Callers : ~Auth!Opening(q, n)
      BY <3>4, <3>5
    <3> QED BY <2>1, <2>2, <3>1, <3>2, <3>3, <1>0 DEF Auth!OneSessionPerNonce, Auth!ConsumedOnce, Auth!Opening, Auth!Answerable, Auth!Completing, Auth!LinkProven, Auth!Wallet
  <2>4. CASE ~Auth!Open(n)
    <3>1. v5'[r] = Auth!NoRequest /\ UNCHANGED v1
      BY <1>11, <2>4, <1>0 DEF Auth!ConsumeNonce, Auth!Done, Auth!TypeOK
    <3> QED BY <2>1, <2>2, <3>1, <1>0 DEF Auth!NoRequest, Auth!OneSessionPerNonce, Auth!ConsumedOnce, Auth!Opening, Auth!Answerable, Auth!Completing, Auth!LinkProven, Auth!Wallet
  <2> QED BY <2>3, <2>4
<1>12. ASSUME NEW r \in Callers, Auth!CreateSession(r) PROVE Good
  <2> DEFINE n == v5[r].nonce
  <2>1. n \in Nonces /\ Auth!Opening(r, n) /\ UNCHANGED <<v1, v3, v4>>
    BY <1>12, <1>0 DEF Auth!CreateSession, Auth!Answerable, Auth!Opening
  <2>2. v5'[r] = Auth!NoRequest /\ \A q \in Callers : q # r => v5'[q] = v5[q]
    BY <1>12, <1>0 DEF Auth!CreateSession, Auth!Done, Auth!TypeOK
  <2>3. v2[n].made = 0 /\ v1[n].consumed /\ \A q \in Callers : q # r => ~Auth!Opening(q, n)
    BY <2>1, <1>0 DEF Auth!ConsumedOnce
  <2>4. v2'[n].made = 1 /\ \A m \in Nonces : m # n => v2'[m] = v2[m]
    BY <1>12, <2>1, <2>3, <1>0 DEF Auth!CreateSession, Auth!TypeOK
  <2> QED BY <2>1, <2>2, <2>3, <2>4, <1>0 DEF Auth!NoRequest, Auth!OneSessionPerNonce, Auth!ConsumedOnce, Auth!Opening, Auth!Answerable, Auth!Completing, Auth!LinkProven, Auth!Wallet
<1>13. ASSUME NEW r \in Callers, Auth!Exchange(r) PROVE Good
  <2>1. \/ v5'[r] = Auth!NoRequest
        \/ /\ v5'[r].step = "save" /\ v5'[r].nonce = v5[r].nonce /\ v5'[r].attempt = v5[r].attempt
           /\ v5'[r].user \in v3[v5[r].attempt].approved
    BY <1>13, <1>0 DEF Auth!Exchange, Auth!Done, Auth!NoRequest, Auth!TypeOK, Auth!Request
  <2>2. v5[r].step = "exchange" /\ (\A q \in Callers : q # r => v5'[q] = v5[q]) /\ UNCHANGED <<v1, v2, v3, v4>>
    BY <1>13, <1>0 DEF Auth!Exchange, Auth!Done, Auth!TypeOK
  <2> QED BY <2>1, <2>2, <1>0 DEF Auth!NoRequest, Auth!OneSessionPerNonce, Auth!ConsumedOnce, Auth!Opening, Auth!Answerable, Auth!Completing, Auth!LinkProven, Auth!Wallet
<1>14. ASSUME NEW r \in Callers, Auth!SaveLink(r) PROVE Good
  <2>1. v5'[r] = Auth!NoRequest /\ (\A q \in Callers : q # r => v5'[q] = v5[q]) /\ UNCHANGED <<v1, v2, v3>>
    BY <1>14, <1>0 DEF Auth!SaveLink, Auth!Done, Auth!TypeOK
  <2>2. /\ v5[r].attempt \in Attempts /\ v3[v5[r].attempt].wallet = Auth!Wallet(v5[r].nonce)
        /\ v5[r].user \in v3[v5[r].attempt].approved
    BY <1>14, <1>0 DEF Auth!SaveLink, Auth!Completing
  <2>3. \A w \in Wallets : v4'[w] = v4[w] \/ (w = Auth!Wallet(v5[r].nonce) /\ v4'[w] = v5[r].user)
    BY <1>14, <1>0 DEF Auth!SaveLink, Auth!TypeOK
  <2> QED BY <2>1, <2>2, <2>3, <1>0 DEF Auth!NoRequest, Auth!OneSessionPerNonce, Auth!ConsumedOnce, Auth!Opening, Auth!Answerable, Auth!Completing, Auth!LinkProven, Auth!Wallet
<1>15. ASSUME NEW r \in Callers, Auth!Die(r) PROVE Good
  <2>1. v5'[r] = Auth!NoRequest /\ (\A q \in Callers : q # r => v5'[q] = v5[q]) /\ UNCHANGED <<v1, v2, v3, v4>>
    BY <1>15, <1>0 DEF Auth!Die, Auth!Done, Auth!TypeOK
  <2> QED BY <2>1, <1>0 DEF Auth!NoRequest, Auth!OneSessionPerNonce, Auth!ConsumedOnce, Auth!Opening, Auth!Answerable, Auth!Completing, Auth!LinkProven, Auth!Wallet
<1> QED BY <1>1, <1>2, <1>3, <1>4, <1>5, <1>6, <1>7, <1>8, <1>9, <1>10, <1>11, <1>12, <1>13, <1>14, <1>15 DEF Auth!Next, Auth!Serve

\* The invariant of the accounts holds in every behaviour.
LEMMA AccountInvariant == SpecOne => [](part = "account" => Auth!IInv)
<1> DEFINE Inv == part = "account" => Auth!IInv
<1>1. InitOne => Inv
  BY Parameters, AccountStarts DEF InitOne, Starts
<1>2. Inv /\ [NextOne]_allVars => Inv'
  <2> SUFFICES ASSUME Auth!IInv, part = "account", [NextOne]_allVars PROVE Auth!IInv'
    BY DEF NextOne, Steps, allVars
  <2>1. CASE Auth!Next
    BY <2>1, Parameters, AccountTypes, AccountInduction DEF Auth!IInv
  <2>2. CASE UNCHANGED Auth!vars
    BY <2>2 DEF Auth!vars, Auth!IInv, Auth!TypeOK, Auth!LinkProven, Auth!OneSessionPerNonce, Auth!ConsumedOnce, Auth!Opening, Auth!Answerable, Auth!Completing, Auth!LinkProven, Auth!Wallet
  <2> QED BY <2>1, <2>2, AccountStep
<1> QED BY <1>1, <1>2, PTL DEF SpecOne

\* A signed challenge opens one session at most, and whoever is connected to a wallet approved at X
\* an attempt this wallet had started (server/auth.js, server/x-link.js), for any number of wallets,
\* challenges, attempts and requests under way.
THEOREM AccountsAlwaysProven == SpecOne => []AccountsProven
<1> DEFINE Inv == part = "account" => Auth!IInv
<1>1. Inv => AccountsProven
  BY DEF AccountsProven, Auth!IInv
<1>2. SpecOne => []Inv
  BY AccountInvariant
<1> QED BY <1>1, <1>2, PTL

-----------------------------------------------------------------------------
(***************************************************************************)
(* Artist verification.  Every statement that opens an application passes  *)
(* the index on live ones.                                                 *)
(***************************************************************************)
LEMMA DeskStep ==
  part = "desk" /\ [NextOne]_allVars => part' = "desk" /\ [Desk!Next]_(Desk!vars)
BY DEF NextOne, Steps, allVars, vVars, Desk!vars

LEMMA DeskDefaults == Desk!DeskAssumption => Desk!NoApp.wallet \in Applicants /\ Desk!NoRequest.app \in Apps
<1> SUFFICES ASSUME Applicants # {}, Apps # {} PROVE Desk!NoApp.wallet \in Applicants /\ Desk!NoRequest.app \in Apps
  BY DEF Desk!DeskAssumption
<1>1. (CHOOSE w \in Applicants : TRUE) \in Applicants /\ (CHOOSE a \in Apps : TRUE) \in Apps
  OBVIOUS
<1> QED BY <1>1 DEF Desk!NoApp, Desk!NoRequest

LEMMA DeskStarts == Desk!DeskAssumption /\ Desk!Init => Desk!IInv
<1> SUFFICES ASSUME Desk!DeskAssumption, Desk!Init PROVE Desk!IInv
  OBVIOUS
<1>1. Desk!NoApp \in Desk!Application
  BY DeskDefaults DEF Desk!NoApp, Desk!Application
<1>2. Desk!NoRequest \in Desk!Request
  BY DeskDefaults DEF Desk!NoRequest, Desk!Request
<1>3. Desk!TypeOK
  BY <1>1, <1>2 DEF Desk!Init, Desk!TypeOK, Desk!Request
<1>4. Desk!Inserted = {}
  BY DEF Desk!Init, Desk!Inserted, Desk!NoApp
<1> QED BY <1>3, <1>4 DEF Desk!IInv, Desk!LiveAlone, Desk!Open

\* A statement that the index lets through leaves a wallet its one live application.
LEMMA DeskWrite ==
  ASSUME Desk!IInv, NEW a \in Apps, NEW w \in Applicants, NEW s \in Desk!Statuses,
         Desk!IndexAdmits(a, w, s), v1' = [v1 EXCEPT ![a] = [status |-> s, wallet |-> w]]
  PROVE  Desk!LiveAlone'
<1> SUFFICES ASSUME NEW v \in Applicants, NEW b \in Desk!Open(v)', NEW c \in Desk!Open(v)' PROVE b = c
  BY DEF Desk!LiveAlone
<1>1. /\ v1'[a].status = s /\ v1'[a].wallet = w
      /\ \A d \in Apps : d # a => v1'[d] = v1[d]
  BY DEF Desk!IInv, Desk!TypeOK, Desk!Application
<1>2. b \in Apps /\ c \in Apps
  BY DEF Desk!Open, Desk!Inserted
<1>3. (b = a \/ b \in Desk!Open(v)) /\ (c = a \/ c \in Desk!Open(v))
  BY <1>1, <1>2 DEF Desk!Open, Desk!Inserted
<1>4. a \in Desk!Open(v)' => v = w /\ s \in Desk!Live
  BY <1>1 DEF Desk!Open, Desk!Inserted
<1> QED BY <1>3, <1>4 DEF Desk!IInv, Desk!LiveAlone, Desk!IndexAdmits

LEMMA DeskKept == Desk!DeskAssumption /\ Desk!IInv /\ Desk!Next => Desk!IInv'
<1> SUFFICES ASSUME Desk!DeskAssumption, Desk!IInv, NEW r \in Callers, Desk!Serve(r) PROVE Desk!IInv'
  BY DEF Desk!Next
<1> USE DEF Desk!IInv
<1>1. Desk!NoRequest \in Desk!Request
  BY DeskDefaults DEF Desk!NoRequest, Desk!Request
<1>2. v2 \in [Callers -> Desk!Request]
  BY DEF Desk!TypeOK
<1>t. \A q \in Desk!Request, step \in {"update", "event"}, a \in Apps, to \in Desk!Statuses \cup {"NONE"} :
        [q EXCEPT !.step = step, !.app = a, !.to = to] \in Desk!Request
  BY DEF Desk!Request
<1>3. UNCHANGED v1 => Desk!LiveAlone'
  BY DEF Desk!LiveAlone, Desk!Open, Desk!Inserted
<1>4. ASSUME NEW w \in Applicants, Desk!BeginSubmit(r, w) PROVE Desk!IInv'
  BY <1>4, <1>3, <1>2 DEF Desk!BeginSubmit, Desk!TypeOK, Desk!Request
<1>5. ASSUME NEW a \in Apps, Desk!Submit(r, a) PROVE Desk!IInv'
  <2> DEFINE w == v2[r].wallet
  <2>0. "SUBMITTED" \in Desk!Statuses /\ w \in Applicants
    BY <1>2 DEF Desk!Statuses, Desk!ReviewerTransitions, Desk!Request
  <2>1. CASE Desk!IndexAdmits(a, w, "SUBMITTED")
    <3>1. v1' = [v1 EXCEPT ![a] = [status |-> "SUBMITTED", wallet |-> w]]
      BY <1>5, <2>1 DEF Desk!Submit, Desk!NoApp
    <3>2. v1' \in [Apps -> Desk!Application]
      BY <3>1, <2>0 DEF Desk!TypeOK, Desk!Application
    <3>3. v2' = [v2 EXCEPT ![r].step = "event", ![r].app = a, ![r].to = "SUBMITTED"]
      BY <1>5, <2>1 DEF Desk!Submit
    <3>4. v2' \in [Callers -> Desk!Request]
      BY <3>3, <1>2, <1>t, <2>0
    <3>5. Desk!LiveAlone'
      BY <2>0, <2>1, <3>1, DeskWrite
    <3> QED BY <3>2, <3>4, <3>5 DEF Desk!TypeOK
  <2>2. CASE ~Desk!IndexAdmits(a, w, "SUBMITTED")
    BY <1>5, <2>2, <1>1, <1>2, <1>3 DEF Desk!Submit, Desk!TypeOK
  <2> QED BY <2>1, <2>2
<1>6. ASSUME NEW a \in Apps, Desk!ReadForResponse(r, a) PROVE Desk!IInv'
  <2>1. "UNDER_REVIEW" \in Desk!Statuses
    BY DEF Desk!Statuses, Desk!ReviewerTransitions
  <2> QED BY <1>6, <1>2, <1>3, <1>t, <2>1 DEF Desk!ReadForResponse, Desk!TypeOK
<1>7. ASSUME NEW a \in Apps, NEW to \in Desk!Statuses, Desk!ReadForDecision(r, a, to) PROVE Desk!IInv'
  BY <1>7, <1>2, <1>3, <1>t DEF Desk!ReadForDecision, Desk!TypeOK
<1>8. ASSUME Desk!UpdateStatus(r) PROVE Desk!IInv'
  <2> DEFINE a == v2[r].app
             to == v2[r].to
  <2>0. a \in Apps /\ to \in Desk!Statuses \cup {"NONE"} /\ v1[a].wallet \in Applicants
    BY <1>2 DEF Desk!TypeOK, Desk!Application, Desk!Request
  <2>1. CASE Desk!IndexAdmits(a, v1[a].wallet, to)
    <3>0. v1' = [v1 EXCEPT ![a].status = to]
      BY <1>8, <2>1 DEF Desk!UpdateStatus
    <3>1. v1' = [v1 EXCEPT ![a] = [status |-> to, wallet |-> v1[a].wallet]]
      <4>1. [v1[a] EXCEPT !.status = to] = [status |-> to, wallet |-> v1[a].wallet]
        BY <2>0 DEF Desk!TypeOK, Desk!Application
      <4> QED BY <3>0, <4>1
    <3>2. v1' \in [Apps -> Desk!Application]
      BY <3>1, <2>0 DEF Desk!TypeOK, Desk!Application
    <3>3. v2' \in [Callers -> Desk!Request]
      BY <1>8, <2>1, <1>2 DEF Desk!UpdateStatus, Desk!Request
    <3>4. CASE to \in Desk!Statuses
      BY <2>0, <2>1, <3>1, <3>2, <3>3, <3>4, DeskWrite DEF Desk!TypeOK
    <3>5. CASE to = "NONE"
      <4>1. \A b \in Apps : v1'[b] = v1[b] \/ v1'[b].status = "NONE"
        BY <3>1, <3>5, <2>0 DEF Desk!TypeOK
      <4>2. \A w \in Applicants : Desk!Open(w)' \subseteq Desk!Open(w)
        BY <4>1 DEF Desk!Open, Desk!Inserted
      <4> QED BY <4>2, <3>2, <3>3 DEF Desk!TypeOK, Desk!LiveAlone
    <3> QED BY <2>0, <3>4, <3>5
  <2>2. CASE ~Desk!IndexAdmits(a, v1[a].wallet, to)
    BY <1>8, <2>2, <1>1, <1>2, <1>3 DEF Desk!UpdateStatus, Desk!TypeOK
  <2> QED BY <2>1, <2>2
<1>9. ASSUME Desk!RecordEvent(r) \/ Desk!Die(r) PROVE Desk!IInv'
  BY <1>9, <1>1, <1>2, <1>3 DEF Desk!RecordEvent, Desk!Die, Desk!TypeOK
<1> QED BY <1>4, <1>5, <1>6, <1>7, <1>8, <1>9 DEF Desk!Serve

LEMMA DeskCount == \A S : Desk!Cardinality(S) = Cardinality(S)
BY DEF Desk!Cardinality, Cardinality

LEMMA DeskCounts == Desk!LiveAlone => Desk!OneLiveApplication
<1> SUFFICES ASSUME Desk!LiveAlone, NEW w \in Applicants PROVE Cardinality(Desk!Open(w)) <= 1
  BY DeskCount DEF Desk!OneLiveApplication
<1>1. CASE Desk!Open(w) = {}
  BY <1>1, FS_EmptySet
<1>2. CASE Desk!Open(w) # {}
  <2>1. PICK a \in Desk!Open(w) : TRUE
    BY <1>2
  <2>2. Desk!Open(w) = {a}
    BY <2>1 DEF Desk!LiveAlone
  <2> QED BY <2>2, FS_Singleton
<1> QED BY <1>1, <1>2

\* The desk's invariant holds in every behaviour.
LEMMA DeskInvariant == SpecOne => [](part = "desk" => Desk!IInv)
<1> DEFINE Inv == part = "desk" => Desk!IInv
<1>1. InitOne => Inv
  BY Parameters, DeskStarts DEF InitOne, Starts
<1>2. Inv /\ [NextOne]_allVars => Inv'
  <2> SUFFICES ASSUME Desk!IInv, part = "desk", [NextOne]_allVars PROVE Desk!IInv'
    BY DEF NextOne, Steps, allVars
  <2>1. CASE Desk!Next
    BY <2>1, Parameters, DeskKept
  <2>2. CASE UNCHANGED Desk!vars
    BY <2>2 DEF Desk!vars, Desk!IInv, Desk!TypeOK, Desk!LiveAlone, Desk!Open, Desk!Inserted
  <2> QED BY <2>1, <2>2, DeskStep
<1> QED BY <1>1, <1>2, PTL DEF SpecOne

\* A wallet has one live application at most, whatever requests run side by side
\* (server/verification-service.js, with the index on live ones that its table has).
THEOREM OneLiveApplicationAlways == SpecOne => []OneLiveApplication
<1> DEFINE Inv == part = "desk" => Desk!IInv
<1>1. Inv => OneLiveApplication
  BY DeskCounts DEF OneLiveApplication, Desk!IInv
<1>2. SpecOne => []Inv
  BY DeskInvariant
<1> QED BY <1>1, <1>2, PTL

-----------------------------------------------------------------------------
(***************************************************************************)
(* The media gateway.  Every answer, every request on its way and every    *)
(* grant is as recent as what it rests on.                                 *)
(***************************************************************************)
LEMMA MediaStep ==
  part = "media" /\ [NextOne]_allVars => part' = "media" /\ [Media!MediaNext]_(Media!mediaVars)
BY DEF NextOne, Steps, allVars, vVars, Media!mediaVars

LEMMA MediaNumbers ==
  Media!MediaGateAssumption =>
    /\ GrantTtl \in Nat /\ GrantTtl > 0 /\ Staleness \in Nat /\ RunTime \in Nat /\ Patience \in Nat
    /\ Media!HolderWindow \in Nat /\ Media!HolderWindow = RunTime + Staleness + Patience + GrantTtl + Patience
    /\ Media!ExperienceWindow \in Nat /\ Media!ExperienceWindow = Patience + GrantTtl + Patience
    /\ Media!LongAgo \in Nat /\ Media!LongAgo = Staleness + Patience + 1
    /\ Media!Trusted \in Nat /\ Media!Trusted = RunTime + Staleness
BY DEF Media!MediaGateAssumption, Media!HolderWindow, Media!ExperienceWindow, Media!LongAgo, Media!Trusted

\* An age that grows stays in its bounds, and grows by one at most.
LEMMA MediaOlder ==
  ASSUME NEW limit \in Nat, NEW age \in 0..limit
  PROVE  /\ Media!Older(age, limit) \in 0..limit /\ Media!Older(age, limit) <= age + 1
         /\ Media!Older(age, limit) < limit => Media!Older(age, limit) = age + 1
         /\ Media!Older(age, limit) >= age
BY DEF Media!Older

LEMMA MediaStarts == Media!MediaGateAssumption /\ Media!MediaInit => Media!MediaIInv
<1> SUFFICES ASSUME Media!MediaGateAssumption, Media!MediaInit PROVE Media!MediaIInv
  OBVIOUS
<1> USE MediaNumbers
<1>1. Media!Waiting \in Media!Request /\ Media!NoGrant \in Media!Grant
  BY DEF Media!Waiting, Media!NoGrant, Media!Request, Media!Grant
<1>2. v5 \in Media!Index
  BY DEF Media!MediaInit, Media!Index
<1>3. v4 \in [Instances -> 0..Media!HolderWindow] /\ v3 \in Instances
  BY DEF Media!MediaInit
<1>4. Media!MediaTypeOK
  <2>1. v1 = FALSE /\ v2 = Media!ExperienceWindow /\ v6 = [g \in Grants |-> Media!NoGrant] /\ v7 = [r \in Readers |-> Media!Waiting]
    BY DEF Media!MediaInit
  <2>2. v2 \in 0..Media!ExperienceWindow
    BY <2>1
  <2> QED BY <1>1, <1>2, <1>3, <2>1, <2>2 DEF Media!MediaTypeOK
<1>5. Media!IndexRecent
  BY <1>3 DEF Media!MediaInit, Media!IndexRecent
<1>6. Media!RequestsRecent /\ Media!ServesRecent
  BY DEF Media!MediaInit, Media!RequestsRecent, Media!ServesRecent, Media!Waiting
<1>7. Media!GrantsRecent
  BY DEF Media!MediaInit, Media!GrantsRecent, Media!NoGrant
<1> QED BY <1>4, <1>5, <1>6, <1>7 DEF Media!MediaIInv

(***************************************************************************)
(* What stays true when a part of the state stays as it was.               *)
(***************************************************************************)
LEMMA MediaWorldSame ==
  ASSUME Media!MediaIInv, UNCHANGED <<v1, v2, v3, v4>>
  PROVE  /\ v1' \in BOOLEAN /\ v2' \in 0..Media!ExperienceWindow /\ v3' \in Instances
         /\ v4' \in [Instances -> 0..Media!HolderWindow] /\ v4'[v3'] = 0
BY DEF Media!MediaIInv, Media!MediaTypeOK, Media!IndexRecent

LEMMA MediaGrantsSame ==
  ASSUME Media!MediaIInv, UNCHANGED <<v1, v2, v3, v4, v6>>
  PROVE  Media!GrantsRecent' /\ v6' \in [Grants -> Media!Grant]
BY DEF Media!MediaIInv, Media!MediaTypeOK, Media!GrantsRecent, Media!Shown

LEMMA MediaIndexSame ==
  ASSUME Media!MediaIInv, UNCHANGED <<v1, v2, v3, v4, v5>>
  PROVE  Media!IndexRecent' /\ v5' \in Media!Index
BY DEF Media!MediaIInv, Media!MediaTypeOK, Media!IndexRecent, Media!HeldBy

LEMMA MediaRequestsSame ==
  ASSUME Media!MediaIInv, UNCHANGED <<v1, v2, v3, v4, v7>>, v5'.age <= v5.age, v5' \in Media!Index,
         \A g \in Grants : v6'[g].revokedAge = v6[g].revokedAge,
         Media!MediaGateAssumption
  PROVE  Media!RequestsRecent' /\ Media!ServesRecent' /\ v7' \in [Readers -> Media!Request]
<1>0. v5'.age \in Nat /\ v5.age \in Nat
  BY MediaNumbers DEF Media!MediaIInv, Media!MediaTypeOK, Media!Index
<1>1. \A r \in Readers : v7[r].age \in Nat
  BY MediaNumbers DEF Media!MediaIInv, Media!MediaTypeOK, Media!Request
<1>2. \A r \in Readers : v7[r].step = "snapshot" => v5'.age <= Staleness + v7[r].age
  BY <1>0, <1>1, MediaNumbers DEF Media!MediaIInv, Media!RequestsRecent
<1>3. Media!RequestsRecent'
  BY <1>2 DEF Media!MediaIInv, Media!RequestsRecent, Media!Shown
<1>4. Media!ServesRecent'
  BY DEF Media!MediaIInv, Media!ServesRecent
<1> QED BY <1>3, <1>4 DEF Media!MediaIInv, Media!MediaTypeOK

\* One request goes on to what its step has shown; or it ends.
LEMMA MediaRequestStep ==
  ASSUME Media!MediaIInv, Media!MediaGateAssumption, NEW r \in Readers, NEW q \in Media!Request,
         UNCHANGED <<v1, v2, v3, v4, v5>>, \A g \in Grants : v6'[g].revokedAge = v6[g].revokedAge,
         Media!Step(r, q),
         q.step \in {"checkpoint", "snapshot", "issue"} => q.wallet \in Instances /\ Media!Shown(q.age),
         q.step = "snapshot" => v5.age <= Staleness + q.age,
         q.step = "issue" => (~Overwrites => v4[q.wallet] <= Media!Trusted + q.age),
         q.step = "serve" =>
           /\ q.wallet \in Instances /\ q.grant \in Grants
           /\ (~Overwrites => v4[q.wallet] < Media!Trusted + Patience + GrantTtl + q.age)
           /\ ~v1 => v2 < Patience + GrantTtl + q.age
           /\ v6[q.grant].revokedAge <= q.age
  PROVE  Media!RequestsRecent' /\ Media!ServesRecent' /\ v7' \in [Readers -> Media!Request]
<1>1. v7 \in [Readers -> Media!Request] /\ v7' = [v7 EXCEPT ![r] = q]
  BY DEF Media!MediaIInv, Media!MediaTypeOK, Media!Step
<1>2. v7'[r] = q /\ \A p \in Readers : p # r => v7'[p] = v7[p]
  BY <1>1
<1>3. Media!RequestsRecent'
  BY <1>2 DEF Media!MediaIInv, Media!RequestsRecent, Media!Shown
<1>4. Media!ServesRecent'
  BY <1>2 DEF Media!MediaIInv, Media!ServesRecent
<1> QED BY <1>1, <1>3, <1>4

LEMMA MediaWaitingStep ==
  ASSUME Media!MediaIInv, Media!MediaGateAssumption, NEW r \in Readers, UNCHANGED <<v1, v2, v3, v4, v5>>,
         \A g \in Grants : v6'[g].revokedAge = v6[g].revokedAge, Media!Step(r, Media!Waiting)
  PROVE  Media!RequestsRecent' /\ Media!ServesRecent' /\ v7' \in [Readers -> Media!Request]
<1>1. Media!Waiting \in Media!Request /\ Media!Waiting.step = "idle"
  BY MediaNumbers DEF Media!Waiting, Media!Request
<1> QED BY <1>1, MediaRequestStep

(***************************************************************************)
(* Time passes: every age grows by one at most.                            *)
(***************************************************************************)
LEMMA MediaTick == Media!MediaGateAssumption /\ Media!MediaIInv /\ Media!Tick => Media!MediaIInv'
<1> SUFFICES ASSUME Media!MediaGateAssumption, Media!MediaIInv, Media!Tick PROVE Media!MediaIInv'
  OBVIOUS
<1> USE MediaNumbers
<1>i. Media!MediaTypeOK /\ Media!IndexRecent /\ Media!RequestsRecent /\ Media!GrantsRecent /\ Media!ServesRecent
  BY DEF Media!MediaIInv
<1>t. /\ v1 \in BOOLEAN /\ v2 \in 0..Media!ExperienceWindow /\ v3 \in Instances /\ v4 \in [Instances -> 0..Media!HolderWindow]
      /\ v5 \in Media!Index /\ v6 \in [Grants -> Media!Grant] /\ v7 \in [Readers -> Media!Request]
  BY <1>i DEF Media!MediaTypeOK
<1>1. v1' = v1 /\ v3' = v3
  BY DEF Media!Tick
<1>2. v2' \in 0..Media!ExperienceWindow /\ (~v1 => v2' <= v2 + 1)
  <2>1. v2' = IF v1 THEN 0 ELSE Media!Older(v2, Media!ExperienceWindow)
    BY DEF Media!Tick
  <2>2. /\ Media!Older(v2, Media!ExperienceWindow) \in 0..Media!ExperienceWindow
        /\ Media!Older(v2, Media!ExperienceWindow) <= v2 + 1
    BY <1>t, MediaOlder
  <2> QED BY <2>1, <2>2
<1>3. /\ v4' \in [Instances -> 0..Media!HolderWindow] /\ v4'[v3] = 0
      /\ \A w \in Instances : v4'[w] <= v4[w] + 1
  <2>1. v4' = [w \in Instances |-> IF w = v3 THEN 0 ELSE Media!Older(v4[w], Media!HolderWindow)]
    BY DEF Media!Tick
  <2>2. \A w \in Instances : v4[w] \in 0..Media!HolderWindow
    BY <1>t
  <2>3. \A w \in Instances : /\ Media!Older(v4[w], Media!HolderWindow) \in 0..Media!HolderWindow
                             /\ Media!Older(v4[w], Media!HolderWindow) <= v4[w] + 1
    BY <2>2, MediaOlder
  <2> QED BY <2>1, <2>2, <2>3, <1>t
<1>4. /\ v5' \in Media!Index /\ v5'.age <= v5.age + 1 /\ v5'.age >= v5.age
      /\ v5'.age < Media!LongAgo => v5'.age = v5.age + 1
      /\ v5.run # "none" => v5'.runAge = v5.runAge + 1
      /\ v5'.owner = v5.owner /\ v5'.known = v5.known /\ v5'.pending = v5.pending /\ v5'.run = v5.run /\ v5'.seen = v5.seen
  <2>1. v5' = [v5 EXCEPT !.age = Media!Older(@, Media!LongAgo), !.runAge = IF v5.run = "none" THEN 0 ELSE @ + 1]
    BY DEF Media!Tick
  <2>2. v5.age \in 0..Media!LongAgo /\ v5.runAge \in 0..RunTime /\ (v5.run # "none" => v5.runAge < RunTime)
    BY <1>t DEF Media!Index, Media!Tick
  <2>3. /\ Media!Older(v5.age, Media!LongAgo) \in 0..Media!LongAgo /\ Media!Older(v5.age, Media!LongAgo) <= v5.age + 1
        /\ Media!Older(v5.age, Media!LongAgo) >= v5.age
        /\ Media!Older(v5.age, Media!LongAgo) < Media!LongAgo => Media!Older(v5.age, Media!LongAgo) = v5.age + 1
    BY <2>2, MediaOlder
  <2>4. (IF v5.run = "none" THEN 0 ELSE v5.runAge + 1) \in 0..RunTime
    BY <2>2
  <2> QED BY <2>1, <2>3, <2>4, <1>t DEF Media!Index
<1>5. /\ v6' \in [Grants -> Media!Grant]
      /\ \A g \in Grants :
           /\ v6'[g].owner = v6[g].owner /\ v6'[g].revoked = v6[g].revoked
           /\ v6'[g].left = (IF v6[g].left = 0 THEN 0 ELSE v6[g].left - 1)
           /\ v6'[g].revokedAge <= v6[g].revokedAge + 1 /\ (~v6[g].revoked => v6'[g].revokedAge = 0)
  <2>1. v6' = [g \in Grants |-> [v6[g] EXCEPT !.left = IF @ = 0 THEN 0 ELSE @ - 1,
                                    !.revokedAge = IF v6[g].revoked THEN Media!Older(@, Patience + 1) ELSE 0]]
    BY DEF Media!Tick
  <2>2. ASSUME NEW g \in Grants
        PROVE  /\ v6'[g] \in Media!Grant
               /\ v6'[g].owner = v6[g].owner /\ v6'[g].revoked = v6[g].revoked
               /\ v6'[g].left = (IF v6[g].left = 0 THEN 0 ELSE v6[g].left - 1)
               /\ v6'[g].revokedAge <= v6[g].revokedAge + 1 /\ (~v6[g].revoked => v6'[g].revokedAge = 0)
    <3>1. v6[g] \in Media!Grant /\ v6[g].left \in 0..GrantTtl /\ v6[g].revokedAge \in 0..(Patience + 1)
      BY <1>t DEF Media!Grant
    <3>2. v6'[g] = [v6[g] EXCEPT !.left = IF @ = 0 THEN 0 ELSE @ - 1,
                                 !.revokedAge = IF v6[g].revoked THEN Media!Older(@, Patience + 1) ELSE 0]
      BY <2>1
    <3>3. Media!Older(v6[g].revokedAge, Patience + 1) \in 0..(Patience + 1) /\ Media!Older(v6[g].revokedAge, Patience + 1) <= v6[g].revokedAge + 1
      <4>1. Patience + 1 \in Nat
        OBVIOUS
      <4> QED BY <3>1, <4>1, MediaOlder
    <3>4. (IF v6[g].left = 0 THEN 0 ELSE v6[g].left - 1) \in 0..GrantTtl
      BY <3>1
    <3>5. (IF v6[g].revoked THEN Media!Older(v6[g].revokedAge, Patience + 1) ELSE 0) \in 0..(Patience + 1)
      BY <3>3
    <3>6. v6'[g] \in Media!Grant
      BY <3>1, <3>2, <3>4, <3>5 DEF Media!Grant
    <3>7. /\ v6'[g].left = (IF v6[g].left = 0 THEN 0 ELSE v6[g].left - 1)
          /\ v6'[g].revokedAge = (IF v6[g].revoked THEN Media!Older(v6[g].revokedAge, Patience + 1) ELSE 0)
          /\ v6'[g].owner = v6[g].owner /\ v6'[g].revoked = v6[g].revoked
      BY <3>1, <3>2 DEF Media!Grant
    <3> QED BY <3>1, <3>3, <3>6, <3>7
  <2> QED BY <2>1, <2>2
<1>6. /\ v7' \in [Readers -> Media!Request]
      /\ \A r \in Readers : v7[r].step # "idle" \/ v7'[r].step # "idle" =>
           /\ v7'[r].step = v7[r].step /\ v7'[r].wallet = v7[r].wallet /\ v7'[r].grant = v7[r].grant
           /\ v7'[r].age = v7[r].age + 1
  <2>1. v7' = [r \in Readers |-> IF v7[r].step = "idle" THEN Media!Waiting ELSE [v7[r] EXCEPT !.age = @ + 1]]
    BY DEF Media!Tick
  <2>2. Media!Waiting \in Media!Request /\ Media!Waiting.step = "idle"
    BY DEF Media!Waiting, Media!Request
  <2>3. ASSUME NEW r \in Readers, v7[r].step # "idle"
        PROVE  [v7[r] EXCEPT !.age = @ + 1] \in Media!Request
    <3>1. v7[r].age < Patience /\ v7[r] \in Media!Request /\ v7[r].age \in 0..Patience
      BY <2>3, <1>t DEF Media!Tick, Media!Request
    <3>2. v7[r].age + 1 \in 0..Patience
      BY <3>1
    <3> QED BY <3>1, <3>2 DEF Media!Request
  <2>4. v7' \in [Readers -> Media!Request]
    BY <2>1, <2>2, <2>3
  <2>5. \A r \in Readers : v7[r] \in Media!Request
    BY <1>t
  <2> QED BY <2>1, <2>2, <2>4, <2>5 DEF Media!Request
<1>7. Media!MediaTypeOK'
  BY <1>1, <1>2, <1>3, <1>4, <1>5, <1>6, <1>t DEF Media!MediaTypeOK
<1>8. \A w : \A a \in Nat : Media!HeldBy(w, a) => (w \in Instances => v4'[w] <= a + 1)
  BY <1>3, <1>t DEF Media!HeldBy
<1>9. Media!IndexRecent'
  <2>0. v5.age \in Nat /\ v5.runAge \in Nat /\ v5'.age \in Nat /\ v5'.runAge \in Nat
    BY <1>t, <1>4 DEF Media!Index
  <2>1. v4'[v3'] = 0
    BY <1>1, <1>3
  <2>2. ASSUME v5'.age < Media!LongAgo, NEW w, Media!HeldBy(w, RunTime + v5.age) PROVE w \in Instances => v4'[w] <= RunTime + v5'.age
    BY <2>0, <2>2, <1>8, <1>4
  <2>3. v5'.age < Media!LongAgo => v5.age < Media!LongAgo
    BY <2>0, <1>4
  <2>4. v5'.age < Media!LongAgo =>
          Media!HeldBy(v5.known, RunTime + v5.age)' /\ (~v5'.pending /\ ~Overwrites => Media!HeldBy(v5.owner, RunTime + v5.age)')
    BY <2>2, <2>3, <1>4, <1>i DEF Media!IndexRecent, Media!HeldBy
  <2>5. v5'.run = "scan" => v5'.seen \in Instances /\ v4'[v5'.seen] <= v5'.runAge
    <3>1. v5.run = "scan" => v5.seen \in Instances /\ v4[v5.seen] <= v5.runAge /\ v4'[v5.seen] <= v4[v5.seen] + 1
      BY <1>3, <1>i DEF Media!IndexRecent
    <3>2. v5.run = "scan" => v4[v5.seen] \in Nat /\ v4'[v5.seen] \in Nat
      BY <3>1, <1>3, <1>t
    <3> QED BY <3>1, <3>2, <2>0, <1>4
  <2>6. v5'.run = "applied" => Media!HeldBy(v5.known, v5.runAge)' /\ (~v5'.pending /\ ~Overwrites => Media!HeldBy(v5.owner, v5.runAge)')
    BY <2>0, <1>4, <1>8, <1>i DEF Media!IndexRecent, Media!HeldBy
  <2> QED BY <2>1, <2>4, <2>5, <2>6 DEF Media!IndexRecent
<1>10. ASSUME NEW a \in Nat PROVE Media!Shown(a) => (~v1' => v2' <= a + 1)
  BY <1>1, <1>2, <1>t DEF Media!Shown
<1>11. Media!RequestsRecent'
  <2> SUFFICES ASSUME NEW r \in Readers, v7'[r].step # "idle"
               PROVE  /\ v7'[r].step \in {"checkpoint", "snapshot", "issue"} => v7'[r].wallet \in Instances /\ Media!Shown(v7[r].age)'
                      /\ v7'[r].step = "snapshot" => v5'.age <= Staleness + v7'[r].age
                      /\ v7'[r].step = "issue" => (~Overwrites => v4'[v7'[r].wallet] <= Media!Trusted + v7'[r].age)
    BY DEF Media!RequestsRecent, Media!Shown
  <2>1. /\ v7'[r].step = v7[r].step /\ v7'[r].wallet = v7[r].wallet /\ v7'[r].age = v7[r].age + 1 /\ v7[r].age \in Nat
    BY <1>6, <1>t DEF Media!Request
  <2>2. v5.age \in Nat /\ v5'.age \in Nat
    BY <1>t, <1>4 DEF Media!Index
  <2>3. v7'[r].step \in {"checkpoint", "snapshot", "issue"} => v7'[r].wallet \in Instances /\ Media!Shown(v7[r].age)'
    BY <2>1, <1>10, <1>i DEF Media!RequestsRecent, Media!Shown
  <2>4. v7'[r].step = "snapshot" => v5'.age <= Staleness + v7'[r].age
    <3>1. v7[r].step = "snapshot" => v5.age <= Staleness + v7[r].age
      BY <1>i DEF Media!RequestsRecent
    <3> QED BY <2>1, <2>2, <3>1, <1>4
  <2>5. v7'[r].step = "issue" => (~Overwrites => v4'[v7'[r].wallet] <= Media!Trusted + v7'[r].age)
    <3>1. v7[r].step = "issue" => v7[r].wallet \in Instances /\ (~Overwrites => v4[v7[r].wallet] <= Media!Trusted + v7[r].age)
      BY <1>i DEF Media!RequestsRecent
    <3>2. v7[r].wallet \in Instances => v4[v7[r].wallet] \in Nat /\ v4'[v7[r].wallet] \in Nat /\ v4'[v7[r].wallet] <= v4[v7[r].wallet] + 1
      BY <1>3, <1>t
    <3> QED BY <2>1, <3>1, <3>2
  <2> QED BY <2>3, <2>4, <2>5
<1>12. Media!GrantsRecent'
  <2> SUFFICES ASSUME NEW g \in Grants
               PROVE  /\ ~v6'[g].revoked => v6'[g].revokedAge = 0
                      /\ v6'[g].left > 0 =>
                           /\ v6'[g].owner \in Instances /\ (~Overwrites => v4'[v6'[g].owner] + v6'[g].left <= Media!Trusted + Patience + GrantTtl)
                           /\ Media!Shown(Patience + GrantTtl - v6[g].left)'
    BY DEF Media!GrantsRecent
  <2>1. v6[g].left \in 0..GrantTtl /\ v6[g].revokedAge \in Nat
    BY <1>t DEF Media!Grant
  <2>2. ~v6'[g].revoked => v6'[g].revokedAge = 0
    BY <1>5
  <2>3. ASSUME v6'[g].left > 0
        PROVE  /\ v6'[g].owner \in Instances /\ (~Overwrites => v4'[v6'[g].owner] + v6'[g].left <= Media!Trusted + Patience + GrantTtl)
               /\ Media!Shown(Patience + GrantTtl - v6[g].left)'
    <3>1. v6'[g].left = v6[g].left - 1 /\ v6[g].left > 0 /\ v6'[g].owner = v6[g].owner
      BY <2>1, <2>3, <1>5
    <3>2. /\ v6[g].owner \in Instances /\ (~Overwrites => v4[v6[g].owner] + v6[g].left <= Media!Trusted + Patience + GrantTtl)
          /\ Media!Shown(Patience + GrantTtl - v6[g].left)
      BY <3>1, <1>i DEF Media!GrantsRecent
    <3>3. v4[v6[g].owner] \in Nat /\ v4'[v6[g].owner] \in Nat /\ v4'[v6[g].owner] <= v4[v6[g].owner] + 1
      BY <3>2, <1>3, <1>t
    <3>4. (~Overwrites => v4'[v6'[g].owner] + v6'[g].left <= Media!Trusted + Patience + GrantTtl)
      BY <2>1, <3>1, <3>2, <3>3
    <3>5. Media!Shown(Patience + GrantTtl - v6[g].left)'
      <4>1. Patience + GrantTtl - v6[g].left \in Nat /\ Patience + GrantTtl - v6'[g].left = Patience + GrantTtl - v6[g].left + 1
        BY <2>1, <3>1
      <4> QED BY <4>1, <3>2, <1>10 DEF Media!Shown
    <3> QED BY <3>1, <3>2, <3>4, <3>5
  <2> QED BY <2>2, <2>3
<1>13. Media!ServesRecent'
  <2> SUFFICES ASSUME NEW r \in Readers, v7'[r].step = "serve"
               PROVE  /\ v7'[r].wallet \in Instances /\ v7'[r].grant \in Grants
                      /\ (~Overwrites => v4'[v7'[r].wallet] < Media!Trusted + Patience + GrantTtl + v7'[r].age)
                      /\ ~v1' => v2' < Patience + GrantTtl + v7'[r].age
                      /\ v6'[v7'[r].grant].revokedAge <= v7'[r].age
    BY DEF Media!ServesRecent
  <2>1. v7'[r].step = v7[r].step /\ v7'[r].wallet = v7[r].wallet /\ v7'[r].grant = v7[r].grant /\ v7'[r].age = v7[r].age + 1 /\ v7[r].age \in Nat
    BY <1>6, <1>t DEF Media!Request
  <2>2. /\ v7[r].wallet \in Instances /\ v7[r].grant \in Grants
        /\ (~Overwrites => v4[v7[r].wallet] < Media!Trusted + Patience + GrantTtl + v7[r].age)
        /\ ~v1 => v2 < Patience + GrantTtl + v7[r].age
        /\ v6[v7[r].grant].revokedAge <= v7[r].age
    BY <2>1, <1>i DEF Media!ServesRecent
  <2>3. v4[v7[r].wallet] \in Nat /\ v4'[v7[r].wallet] \in Nat /\ v4'[v7[r].wallet] <= v4[v7[r].wallet] + 1
    BY <2>2, <1>3, <1>t
  <2>4. /\ v6[v7[r].grant].revokedAge \in Nat /\ v6'[v7[r].grant].revokedAge \in Nat
        /\ v6'[v7[r].grant].revokedAge <= v6[v7[r].grant].revokedAge + 1
    BY <2>2, <1>5, <1>t DEF Media!Grant
  <2>5. ~v1' => v2' < Patience + GrantTtl + v7'[r].age
    BY <2>1, <2>2, <1>1, <1>2, <1>t
  <2>6. (~Overwrites => v4'[v7'[r].wallet] < Media!Trusted + Patience + GrantTtl + v7'[r].age)
    BY <2>1, <2>2, <2>3
  <2>7. v6'[v7'[r].grant].revokedAge <= v7'[r].age
    BY <2>1, <2>2, <2>4
  <2> QED BY <2>1, <2>2, <2>5, <2>6, <2>7
<1> QED BY <1>7, <1>9, <1>11, <1>12, <1>13 DEF Media!MediaIInv

(***************************************************************************)
(* The index: what is applied was held in the time since the last success. *)
(***************************************************************************)
LEMMA MediaIndexed ==
  ASSUME Media!MediaGateAssumption, Media!MediaIInv, UNCHANGED <<v1, v2, v3, v4, v6, v7>>,
         v5' \in Media!Index, v5'.age <= v5.age, Media!IndexRecent'
  PROVE  Media!MediaIInv'
<1>1. Media!RequestsRecent' /\ Media!ServesRecent' /\ v7' \in [Readers -> Media!Request]
  BY MediaRequestsSame
<1>2. Media!GrantsRecent' /\ v6' \in [Grants -> Media!Grant]
  BY MediaGrantsSame
<1> QED BY <1>1, <1>2, MediaWorldSame DEF Media!MediaIInv, Media!MediaTypeOK

LEMMA MediaIndexer ==
  ASSUME Media!MediaGateAssumption, Media!MediaIInv,
         \/ \E reorg \in {"none", "elsewhere", "row"} : Media!RunStart(reorg)
         \/ \E w \in Instances, last \in BOOLEAN : Media!RunApply(w, last)
         \/ Media!RunSucceed \/ Media!Rebuild
         \/ \E status \in {"RUNNING", "FAILED"} : Media!RunStop(status)
  PROVE  Media!MediaIInv'
<1> USE MediaNumbers
<1>i. Media!IndexRecent
  BY DEF Media!MediaIInv
<1>t. /\ v3 \in Instances /\ v4 \in [Instances -> 0..Media!HolderWindow] /\ v5 \in Media!Index
  BY DEF Media!MediaIInv, Media!MediaTypeOK
<1>a. v5.age \in Nat /\ v5.runAge \in Nat /\ v5.runAge <= RunTime /\ \A w \in Instances : v4[w] \in Nat
  BY <1>t DEF Media!Index
<1>1. ASSUME NEW reorg \in {"none", "elsewhere", "row"}, Media!RunStart(reorg) PROVE Media!MediaIInv'
  <2>1. UNCHANGED <<v1, v2, v3, v4, v6, v7>>
    BY <1>1 DEF Media!RunStart, Media!outside
  <2>2. PICK w \in IF reorg = "row" THEN {v \in Instances : v4[v] <= RunTime} ELSE {v5.known} :
          v5' = [v5 EXCEPT !.status = "RUNNING", !.run = "scan", !.seen = v3, !.runAge = 0,
                   !.known = w, !.job = @ \/ reorg # "none", !.pending = @ \/ reorg = "row"]
    BY <1>1 DEF Media!RunStart
  <2>3. w \in Instances \cup {"none"}
    BY <2>2, <1>t DEF Media!Index
  <2>4. /\ v5' \in Media!Index /\ v5'.age = v5.age /\ v5'.run = "scan" /\ v5'.seen = v3 /\ v5'.runAge = 0
        /\ v5'.known = w /\ v5'.owner = v5.owner /\ (~v5'.pending => ~v5.pending)
    <3>1. v5' = [owner |-> v5.owner, pending |-> (v5.pending \/ reorg = "row"), known |-> w, job |-> (v5.job \/ reorg # "none"), status |-> "RUNNING",
                 age |-> v5.age, run |-> "scan", seen |-> v3, runAge |-> 0]
      BY <2>2, <1>t DEF Media!Index
    <3>2. 0 \in 0..RunTime /\ (v5.job \/ reorg # "none") \in BOOLEAN /\ (v5.pending \/ reorg = "row") \in BOOLEAN
      BY <1>t
    <3>3. v5' \in Media!Index
      BY <3>1, <3>2, <2>3, <1>t DEF Media!Index
    <3> QED BY <3>1, <3>3
  <2>5. v5.age < Media!LongAgo => Media!HeldBy(w, RunTime + v5.age)
    <3>1. CASE reorg = "row"
      BY <2>2, <3>1, <1>a DEF Media!HeldBy
    <3>2. CASE reorg # "row"
      BY <2>2, <3>2, <1>i DEF Media!IndexRecent
    <3> QED BY <3>1, <3>2
  <2>6. Media!IndexRecent'
    BY <2>1, <2>4, <2>5, <1>t, <1>i DEF Media!IndexRecent, Media!HeldBy
  <2> QED BY <2>1, <2>4, <2>6, <1>a, MediaIndexed
<1>2. ASSUME NEW w \in Instances, NEW last \in BOOLEAN, Media!RunApply(w, last) PROVE Media!MediaIInv'
  <2>1. UNCHANGED <<v1, v2, v3, v4, v6, v7>> /\ v5.run = "scan" /\ (IF last THEN w = v5.seen ELSE w \in Media!HeldSince)
    BY <1>2 DEF Media!RunApply, Media!outside
  <2>2. PICK owner \in {v5.owner, w}, pending \in BOOLEAN :
          /\ owner = w \/ pending \/ Overwrites
          /\ v5' = [v5 EXCEPT !.owner = owner, !.pending = pending, !.known = w,
                              !.seen = IF last THEN "none" ELSE @, !.run = IF last THEN "applied" ELSE @]
    BY <1>2 DEF Media!RunApply
  <2>3. owner \in Instances \cup {"none"}
    BY <2>2, <1>t DEF Media!Index
  <2>4. /\ v5' \in Media!Index /\ v5'.age = v5.age /\ v5'.runAge = v5.runAge /\ v5'.known = w
        /\ v5'.owner = owner /\ v5'.pending = pending
        /\ v5'.run = (IF last THEN "applied" ELSE "scan") /\ (~last => v5'.seen = v5.seen)
    BY <2>1, <2>2, <2>3, <1>t DEF Media!Index
  <2>5. last => v4[w] <= v5.runAge
    BY <2>1, <1>i DEF Media!IndexRecent
  <2>6. v5.age < Media!LongAgo => v4[w] <= RunTime + v5.age
    BY <2>1, <2>5, <1>a DEF Media!HeldSince
  <2>7. v5'.age < Media!LongAgo =>
          Media!HeldBy(v5.known, RunTime + v5.age)' /\ (~v5'.pending /\ ~Overwrites => Media!HeldBy(v5.owner, RunTime + v5.age)')
    BY <2>1, <2>2, <2>4, <2>6 DEF Media!HeldBy
  <2>8. v5'.run = "applied" => Media!HeldBy(v5.known, v5.runAge)' /\ (~v5'.pending /\ ~Overwrites => Media!HeldBy(v5.owner, v5.runAge)')
    BY <2>1, <2>2, <2>4, <2>5 DEF Media!HeldBy
  <2>9. v5'.run = "scan" => v5'.seen \in Instances /\ v4'[v5'.seen] <= v5'.runAge
    BY <2>1, <2>4, <1>i DEF Media!IndexRecent
  <2>10. Media!IndexRecent'
    BY <2>1, <2>7, <2>8, <2>9, <1>i DEF Media!IndexRecent
  <2> QED BY <2>1, <2>4, <2>10, <1>a, MediaIndexed
<1>3. CASE Media!RunSucceed
  <2>1. /\ UNCHANGED <<v1, v2, v3, v4, v6, v7>> /\ v5.run = "applied"
        /\ v5' = [v5 EXCEPT !.status = "IDLE", !.age = 0, !.run = IF v5.job THEN "rebuild" ELSE "none",
                            !.runAge = IF v5.job THEN @ ELSE 0]
    BY <1>3 DEF Media!RunSucceed, Media!outside
  <2>2. /\ v5' \in Media!Index /\ v5'.age = 0 /\ v5'.run \in {"rebuild", "none"}
        /\ v5'.known = v5.known /\ v5'.owner = v5.owner /\ v5'.pending = v5.pending
    <3>1. v5' = [owner |-> v5.owner, pending |-> v5.pending, known |-> v5.known, job |-> v5.job, status |-> "IDLE",
                 age |-> 0, run |-> IF v5.job THEN "rebuild" ELSE "none", seen |-> v5.seen, runAge |-> IF v5.job THEN v5.runAge ELSE 0]
      BY <2>1, <1>t DEF Media!Index
    <3>2. 0 \in 0..Media!LongAgo /\ (IF v5.job THEN v5.runAge ELSE 0) \in 0..RunTime
      BY <1>a
    <3>3. v5' \in Media!Index
      BY <3>1, <3>2, <1>t DEF Media!Index
    <3> QED BY <3>1, <3>3
  <2>3. /\ v5.known \in Instances => v4[v5.known] <= RunTime
        /\ ~v5.pending /\ ~Overwrites /\ v5.owner \in Instances => v4[v5.owner] <= RunTime
    <3>1. /\ v5.known \in Instances => v4[v5.known] <= v5.runAge
          /\ ~v5.pending /\ ~Overwrites /\ v5.owner \in Instances => v4[v5.owner] <= v5.runAge
      BY <2>1, <1>i DEF Media!IndexRecent, Media!HeldBy
    <3> QED BY <3>1, <1>a
  <2>4. Media!IndexRecent'
    BY <2>1, <2>2, <2>3, <1>i DEF Media!IndexRecent, Media!HeldBy
  <2> QED BY <2>1, <2>2, <2>4, <1>a, MediaIndexed
<1>4. CASE Media!Rebuild
  <2>1. /\ UNCHANGED <<v1, v2, v3, v4, v6, v7>>
        /\ v5' = [v5 EXCEPT !.owner = v5.known, !.pending = FALSE, !.job = FALSE, !.run = "none", !.runAge = 0]
    BY <1>4 DEF Media!Rebuild, Media!outside
  <2>2. /\ v5' \in Media!Index /\ v5'.age = v5.age /\ v5'.run = "none" /\ v5'.known = v5.known /\ v5'.owner = v5.known
    <3>1. v5' = [owner |-> v5.known, pending |-> FALSE, known |-> v5.known, job |-> FALSE, status |-> v5.status,
                 age |-> v5.age, run |-> "none", seen |-> v5.seen, runAge |-> 0]
      BY <2>1, <1>t DEF Media!Index
    <3>2. 0 \in 0..RunTime
      OBVIOUS
    <3>3. v5' \in Media!Index
      BY <3>1, <3>2, <1>t DEF Media!Index
    <3> QED BY <3>1, <3>3
  <2>3. Media!IndexRecent'
    BY <2>1, <2>2, <1>i DEF Media!IndexRecent, Media!HeldBy
  <2> QED BY <2>1, <2>2, <2>3, <1>a, MediaIndexed
<1>5. ASSUME NEW status \in {"RUNNING", "FAILED"}, Media!RunStop(status) PROVE Media!MediaIInv'
  <2>1. /\ UNCHANGED <<v1, v2, v3, v4, v6, v7>>
        /\ v5' = [v5 EXCEPT !.status = IF v5.run = "rebuild" THEN @ ELSE status, !.run = "none", !.seen = "none", !.runAge = 0]
    BY <1>5 DEF Media!RunStop, Media!outside
  <2>2. /\ v5' \in Media!Index /\ v5'.age = v5.age /\ v5'.run = "none" /\ v5'.known = v5.known /\ v5'.owner = v5.owner
        /\ v5'.pending = v5.pending
    <3>1. v5' = [owner |-> v5.owner, pending |-> v5.pending, known |-> v5.known, job |-> v5.job, status |-> IF v5.run = "rebuild" THEN v5.status ELSE status,
                 age |-> v5.age, run |-> "none", seen |-> "none", runAge |-> 0]
      BY <2>1, <1>t DEF Media!Index
    <3>2. 0 \in 0..RunTime
      OBVIOUS
    <3>3. v5' \in Media!Index
      BY <3>1, <3>2, <1>t DEF Media!Index
    <3> QED BY <3>1, <3>3
  <2>3. Media!IndexRecent'
    BY <2>1, <2>2, <1>i DEF Media!IndexRecent, Media!HeldBy
  <2> QED BY <2>1, <2>2, <2>3, <1>a, MediaIndexed
<1> QED BY <1>1, <1>2, <1>3, <1>4, <1>5

\* The token moves, the experience is shown or hidden.
LEMMA MediaOutside ==
  ASSUME Media!MediaGateAssumption, Media!MediaIInv, Media!Show \/ \E w \in Instances : Media!Transfer(w)
  PROVE  Media!MediaIInv'
<1> USE MediaNumbers
<1>i. Media!MediaTypeOK /\ Media!IndexRecent /\ Media!RequestsRecent /\ Media!GrantsRecent /\ Media!ServesRecent
  BY DEF Media!MediaIInv
<1>t. /\ v1 \in BOOLEAN /\ v2 \in 0..Media!ExperienceWindow /\ v3 \in Instances /\ v4 \in [Instances -> 0..Media!HolderWindow]
      /\ v5 \in Media!Index /\ v6 \in [Grants -> Media!Grant] /\ v7 \in [Readers -> Media!Request]
  BY <1>i DEF Media!MediaTypeOK
<1>1. CASE Media!Show
  <2>1. v1' = ~v1 /\ v2' = 0 /\ UNCHANGED <<v3, v4, v5, v6, v7>>
    BY <1>1 DEF Media!Show
  <2>2. Media!MediaTypeOK'
    BY <2>1, <1>t DEF Media!MediaTypeOK
  <2>3. \A a \in Nat : v2' <= a
    BY <2>1
  <2>4. Media!IndexRecent'
    BY <2>1, <1>i DEF Media!IndexRecent, Media!HeldBy
  <2>5. \A r \in Readers : v7[r].age \in Nat
    BY <1>t DEF Media!Request
  <2>6. Media!RequestsRecent'
    BY <2>1, <2>3, <2>5, <1>i DEF Media!RequestsRecent, Media!Shown
  <2>7. \A g \in Grants : Patience + GrantTtl - v6[g].left \in Nat
    BY <1>t DEF Media!Grant
  <2>8. Media!GrantsRecent'
    BY <2>1, <2>3, <2>7, <1>i DEF Media!GrantsRecent, Media!Shown
  <2>9. \A r \in Readers : v2' < Patience + GrantTtl + v7[r].age
    BY <2>1, <2>5
  <2>10. Media!ServesRecent'
    BY <2>1, <2>9, <1>i DEF Media!ServesRecent
  <2> QED BY <2>2, <2>4, <2>6, <2>8, <2>10 DEF Media!MediaIInv
<1>2. ASSUME NEW w \in Instances, Media!Transfer(w) PROVE Media!MediaIInv'
  <2>1. v3' = w /\ v4' = [v4 EXCEPT ![w] = 0] /\ UNCHANGED <<v1, v2, v5, v6, v7>>
    BY <1>2 DEF Media!Transfer
  <2>2. /\ v4' \in [Instances -> 0..Media!HolderWindow] /\ v4'[w] = 0
        /\ \A v \in Instances : v4'[v] <= v4[v] /\ v4[v] \in Nat /\ v4'[v] \in Nat
    BY <2>1, <1>t
  <2>3. Media!MediaTypeOK'
    BY <2>1, <2>2, <1>t DEF Media!MediaTypeOK
  <2>4. v5.age \in Nat /\ v5.runAge \in Nat
    BY <1>t DEF Media!Index
  <2>5. \A v : \A a \in Nat : Media!HeldBy(v, a) => (v \in Instances => v4'[v] <= a)
    BY <2>2 DEF Media!HeldBy
  <2>6. Media!IndexRecent'
    <3>1. v5.age < Media!LongAgo =>
            Media!HeldBy(v5.known, RunTime + v5.age)' /\ (~v5.pending /\ ~Overwrites => Media!HeldBy(v5.owner, RunTime + v5.age)')
      <4>1. RunTime + v5.age \in Nat
        BY <2>4
      <4> QED BY <2>1, <2>5, <4>1, <1>i DEF Media!IndexRecent, Media!HeldBy
    <3>2. v5.run = "applied" => Media!HeldBy(v5.known, v5.runAge)' /\ (~v5.pending /\ ~Overwrites => Media!HeldBy(v5.owner, v5.runAge)')
      BY <2>1, <2>4, <2>5, <1>i DEF Media!IndexRecent, Media!HeldBy
    <3>3. v5.run = "scan" => v5.seen \in Instances /\ v4'[v5.seen] <= v5.runAge
      <4>1. v5.run = "scan" => v5.seen \in Instances /\ v4[v5.seen] <= v5.runAge
        BY <1>i DEF Media!IndexRecent
      <4> QED BY <2>2, <2>4, <4>1
    <3> QED BY <2>1, <2>2, <3>1, <3>2, <3>3 DEF Media!IndexRecent
  <2>7. Media!RequestsRecent'
    <3>1. \A r \in Readers : v7[r].age \in Nat
      BY <1>t DEF Media!Request
    <3>2. \A r \in Readers : v7[r].step = "issue" => (~Overwrites => v4'[v7[r].wallet] <= Media!Trusted + v7[r].age)
      <4> SUFFICES ASSUME NEW r \in Readers, v7[r].step = "issue" PROVE (~Overwrites => v4'[v7[r].wallet] <= Media!Trusted + v7[r].age)
        OBVIOUS
      <4>1. v7[r].wallet \in Instances /\ (~Overwrites => v4[v7[r].wallet] <= Media!Trusted + v7[r].age)
        BY <1>i DEF Media!RequestsRecent
      <4> QED BY <2>2, <3>1, <4>1
    <3> QED BY <2>1, <3>2, <1>i DEF Media!RequestsRecent, Media!Shown
  <2>8. Media!GrantsRecent'
    <3>1. \A g \in Grants : v6[g].left > 0 => (~Overwrites => v4'[v6[g].owner] + v6[g].left <= Media!Trusted + Patience + GrantTtl)
      <4> SUFFICES ASSUME NEW g \in Grants, v6[g].left > 0 PROVE (~Overwrites => v4'[v6[g].owner] + v6[g].left <= Media!Trusted + Patience + GrantTtl)
        OBVIOUS
      <4>1. v6[g].owner \in Instances /\ (~Overwrites => v4[v6[g].owner] + v6[g].left <= Media!Trusted + Patience + GrantTtl)
        BY <1>i DEF Media!GrantsRecent
      <4>2. v6[g].left \in Nat
        BY <1>t DEF Media!Grant
      <4> QED BY <2>2, <4>1, <4>2
    <3> QED BY <2>1, <3>1, <1>i DEF Media!GrantsRecent, Media!Shown
  <2>9. Media!ServesRecent'
    <3>1. \A r \in Readers : v7[r].step = "serve" => (~Overwrites => v4'[v7[r].wallet] < Media!Trusted + Patience + GrantTtl + v7[r].age)
      <4> SUFFICES ASSUME NEW r \in Readers, v7[r].step = "serve"
                   PROVE  (~Overwrites => v4'[v7[r].wallet] < Media!Trusted + Patience + GrantTtl + v7[r].age)
        OBVIOUS
      <4>1. v7[r].wallet \in Instances /\ (~Overwrites => v4[v7[r].wallet] < Media!Trusted + Patience + GrantTtl + v7[r].age)
        BY <1>i DEF Media!ServesRecent
      <4>2. v7[r].age \in Nat
        BY <1>t DEF Media!Request
      <4> QED BY <2>2, <4>1, <4>2
    <3> QED BY <2>1, <3>1, <1>i DEF Media!ServesRecent
  <2> QED BY <2>3, <2>6, <2>7, <2>8, <2>9 DEF Media!MediaIInv
<1> QED BY <1>1, <1>2

(***************************************************************************)
(* The requests: each step hands on what it saw.                           *)
(***************************************************************************)
LEMMA MediaServing ==
  ASSUME Media!MediaGateAssumption, Media!MediaIInv, NEW r \in Readers,
         \/ \E w \in Instances : Media!Load(r, w)
         \/ Media!AssertCheckpoint(r) \/ Media!VerifyOwner(r) \/ Media!Serve(r)
         \/ \E g \in Grants : Media!IssueGrant(r, g) \/ Media!ReadGrant(r, g)
  PROVE  Media!MediaIInv'
<1> USE MediaNumbers
<1>i. Media!IndexRecent /\ Media!RequestsRecent /\ Media!GrantsRecent
  BY DEF Media!MediaIInv
<1>t. /\ v1 \in BOOLEAN /\ v2 \in 0..Media!ExperienceWindow /\ v4 \in [Instances -> 0..Media!HolderWindow]
      /\ v5 \in Media!Index /\ v6 \in [Grants -> Media!Grant] /\ v7[r] \in Media!Request
  BY DEF Media!MediaIInv, Media!MediaTypeOK
<1>a. v5.age \in Nat /\ v7[r].age \in Nat /\ v7[r].age <= Patience /\ \A w \in Instances : v4[w] \in Nat
  BY <1>t DEF Media!Index, Media!Request
\* Nothing but the request changes.
<1>s. ASSUME UNCHANGED <<v1, v2, v3, v4, v5, v6>>,
             Media!RequestsRecent' /\ Media!ServesRecent' /\ v7' \in [Readers -> Media!Request]
      PROVE  Media!MediaIInv'
  BY <1>s, MediaWorldSame, MediaGrantsSame, MediaIndexSame DEF Media!MediaIInv, Media!MediaTypeOK
<1>w. ASSUME UNCHANGED <<v1, v2, v3, v4, v5, v6>>, Media!Step(r, Media!Waiting) PROVE Media!MediaIInv'
  BY <1>s, <1>w, MediaWaitingStep
<1>1. ASSUME NEW w \in Instances, Media!Load(r, w) PROVE Media!MediaIInv'
  <2> DEFINE q == [Media!Waiting EXCEPT !.step = "checkpoint", !.wallet = w]
  <2>1. UNCHANGED <<v1, v2, v3, v4, v5, v6>> /\ v1 /\ Media!Step(r, q)
    BY <1>1 DEF Media!Load, Media!outside
  <2>2. q \in Media!Request /\ q.step = "checkpoint" /\ q.wallet = w
    <3>1. Media!Waiting \in Media!Request
      BY DEF Media!Waiting, Media!Request
    <3> QED BY <3>1 DEF Media!Request
  <2> HIDE DEF q
  <2>3. Media!Shown(q.age)
    BY <2>1 DEF Media!Shown
  <2>4. Media!RequestsRecent' /\ Media!ServesRecent' /\ v7' \in [Readers -> Media!Request]
    BY <2>1, <2>2, <2>3, MediaRequestStep
  <2> QED BY <1>s, <2>1, <2>4
<1>2. CASE Media!AssertCheckpoint(r)
  <2> DEFINE q == [v7[r] EXCEPT !.step = "snapshot"]
  <2>1. UNCHANGED <<v1, v2, v3, v4, v5, v6>> /\ v7[r].step = "checkpoint"
        /\ Media!Step(r, IF Media!CheckpointFresh THEN q ELSE Media!Waiting)
    BY <1>2 DEF Media!AssertCheckpoint, Media!outside
  <2>2. CASE Media!CheckpointFresh
    <3>1. q \in Media!Request /\ q.step = "snapshot" /\ q.wallet = v7[r].wallet /\ q.age = v7[r].age
      BY <1>t DEF Media!Request
    <3> HIDE DEF q
    <3>2. q.wallet \in Instances /\ Media!Shown(q.age)
      BY <2>1, <3>1, <1>i DEF Media!RequestsRecent
    <3>3. v5.age <= Staleness + q.age
      <4>1. v5.age <= Staleness
        BY <2>2 DEF Media!CheckpointFresh
      <4> QED BY <4>1, <3>1, <1>a
    <3>4. Media!RequestsRecent' /\ Media!ServesRecent' /\ v7' \in [Readers -> Media!Request]
      BY <2>1, <2>2, <3>1, <3>2, <3>3, MediaRequestStep
    <3> QED BY <1>s, <2>1, <3>4
  <2>3. CASE ~Media!CheckpointFresh
    BY <1>w, <2>1, <2>3
  <2> QED BY <2>2, <2>3
<1>3. CASE Media!VerifyOwner(r)
  <2> DEFINE q == [v7[r] EXCEPT !.step = "issue"]
  <2>1. UNCHANGED <<v1, v2, v3, v4, v5, v6>> /\ v7[r].step = "snapshot"
        /\ Media!Step(r, IF Media!Owns(v7[r].wallet) THEN q ELSE Media!Waiting)
    BY <1>3 DEF Media!VerifyOwner, Media!outside
  <2>2. CASE Media!Owns(v7[r].wallet)
    <3>1. q \in Media!Request /\ q.step = "issue" /\ q.wallet = v7[r].wallet /\ q.age = v7[r].age
      BY <1>t DEF Media!Request
    <3> HIDE DEF q
    <3>2. q.wallet \in Instances /\ Media!Shown(q.age) /\ v5.age <= Staleness + q.age
      BY <2>1, <3>1, <1>i DEF Media!RequestsRecent
    <3>3. v5.age < Media!LongAgo
      BY <3>1, <3>2, <1>a
    <3>4. v5.owner = q.wallet /\ ~v5.pending
      BY <2>2, <3>1 DEF Media!Owns
    <3>5. ~Overwrites => v4[q.wallet] <= RunTime + v5.age
      BY <3>2, <3>3, <3>4, <1>i DEF Media!IndexRecent, Media!HeldBy
    <3>6. (~Overwrites => v4[q.wallet] <= Media!Trusted + q.age)
      BY <3>1, <3>2, <3>5, <1>a
    <3>7. Media!RequestsRecent' /\ Media!ServesRecent' /\ v7' \in [Readers -> Media!Request]
      BY <2>1, <2>2, <3>1, <3>2, <3>6, MediaRequestStep
    <3> QED BY <1>s, <2>1, <3>7
  <2>3. CASE ~Media!Owns(v7[r].wallet)
    BY <1>w, <2>1, <2>3
  <2> QED BY <2>2, <2>3
<1>4. CASE Media!Serve(r)
  BY <1>4, <1>w DEF Media!Serve, Media!outside
<1>5. ASSUME NEW g \in Grants, Media!IssueGrant(r, g) PROVE Media!MediaIInv'
  <2> DEFINE new == [Media!NoGrant EXCEPT !.owner = v7[r].wallet, !.left = GrantTtl]
  <2>1. /\ UNCHANGED <<v1, v2, v3, v4, v5>> /\ v7[r].step = "issue" /\ v6[g] = Media!NoGrant
        /\ v6' = [v6 EXCEPT ![g] = new] /\ Media!Step(r, Media!Waiting)
    BY <1>5 DEF Media!IssueGrant, Media!outside
  <2>2. v7[r].wallet \in Instances /\ Media!Shown(v7[r].age) /\ (~Overwrites => v4[v7[r].wallet] <= Media!Trusted + v7[r].age)
    BY <2>1, <1>i DEF Media!RequestsRecent
  <2>3. new \in Media!Grant /\ new.owner = v7[r].wallet /\ new.left = GrantTtl /\ new.revokedAge = 0
    <3>1. Media!NoGrant \in Media!Grant /\ Media!NoGrant.revokedAge = 0
      BY DEF Media!NoGrant, Media!Grant
    <3>2. GrantTtl \in 0..GrantTtl /\ 0 \in 0..(Patience + 1)
      OBVIOUS
    <3> QED BY <3>1, <3>2, <2>2 DEF Media!Grant
  <2>4. v6[g].revokedAge = 0
    BY <2>1 DEF Media!NoGrant
  <2> HIDE DEF new
  <2>5. v6' \in [Grants -> Media!Grant] /\ v6'[g] = new /\ \A f \in Grants : f # g => v6'[f] = v6[f]
    BY <2>1, <2>3, <1>t
  <2>6. \A f \in Grants : v6'[f].revokedAge = v6[f].revokedAge
    BY <2>3, <2>4, <2>5
  <2>7. Media!RequestsRecent' /\ Media!ServesRecent' /\ v7' \in [Readers -> Media!Request]
    BY <2>1, <2>6, MediaWaitingStep
  <2>8. /\ (~Overwrites => v4[new.owner] + new.left <= Media!Trusted + Patience + GrantTtl)
        /\ Media!Shown(Patience + GrantTtl - new.left)
    <3>1. v4[v7[r].wallet] \in Nat /\ (~Overwrites => v4[v7[r].wallet] + GrantTtl <= Media!Trusted + Patience + GrantTtl)
      BY <2>2, <1>a
    <3>2. ~v1 => v2 <= Patience + GrantTtl - GrantTtl
      BY <2>2, <1>a, <1>t DEF Media!Shown
    <3> QED BY <2>3, <3>1, <3>2 DEF Media!Shown
  <2>9. Media!GrantsRecent'
    BY <2>1, <2>2, <2>3, <2>5, <2>8, <1>i DEF Media!GrantsRecent, Media!Shown
  <2> QED BY <2>1, <2>5, <2>7, <2>9, MediaWorldSame, MediaIndexSame DEF Media!MediaIInv, Media!MediaTypeOK
<1>6. ASSUME NEW g \in Grants, Media!ReadGrant(r, g) PROVE Media!MediaIInv'
  <2> DEFINE q == [Media!Waiting EXCEPT !.step = "serve", !.wallet = v6[g].owner, !.grant = g]
  <2>1. UNCHANGED <<v1, v2, v3, v4, v5, v6>> /\ v6[g].left > 0 /\ ~v6[g].revoked /\ Media!Step(r, q)
    BY <1>6 DEF Media!ReadGrant, Media!Active, Media!outside
  <2>2. /\ v6[g].owner \in Instances /\ (~Overwrites => v4[v6[g].owner] + v6[g].left <= Media!Trusted + Patience + GrantTtl)
        /\ Media!Shown(Patience + GrantTtl - v6[g].left) /\ v6[g].revokedAge = 0
    BY <2>1, <1>i DEF Media!GrantsRecent
  <2>3. q \in Media!Request /\ q.step = "serve" /\ q.wallet = v6[g].owner /\ q.grant = g /\ q.age = 0
    <3>1. Media!Waiting \in Media!Request /\ Media!Waiting.age = 0
      BY DEF Media!Waiting, Media!Request
    <3> QED BY <3>1, <2>2 DEF Media!Request
  <2> HIDE DEF q
  <2>4. v6[g].left \in Nat
    BY <1>t DEF Media!Grant
  <2>5. (~Overwrites => v4[q.wallet] < Media!Trusted + Patience + GrantTtl + q.age)
    BY <2>1, <2>2, <2>3, <2>4, <1>a
  <2>6. ~v1 => v2 < Patience + GrantTtl + q.age
    BY <2>1, <2>2, <2>3, <2>4, <1>t DEF Media!Shown
  <2>7. v6[q.grant].revokedAge <= q.age
    BY <2>2, <2>3
  <2>8. Media!RequestsRecent' /\ Media!ServesRecent' /\ v7' \in [Readers -> Media!Request]
    BY <2>1, <2>2, <2>3, <2>5, <2>6, <2>7, MediaRequestStep
  <2> QED BY <1>s, <2>1, <2>8
<1> QED BY <1>1, <1>2, <1>3, <1>4, <1>5, <1>6

LEMMA MediaRevokes ==
  ASSUME Media!MediaGateAssumption, Media!MediaIInv, NEW g \in Grants, Media!RevokeGrant(g)
  PROVE  Media!MediaIInv'
<1>1. UNCHANGED <<v1, v2, v3, v4, v5, v7>> /\ v6' = [v6 EXCEPT ![g].revoked = TRUE]
  BY DEF Media!RevokeGrant, Media!outside
<1>2. v6 \in [Grants -> Media!Grant] /\ v5.age <= v5.age /\ v5 \in Media!Index
  BY MediaNumbers DEF Media!MediaIInv, Media!MediaTypeOK, Media!Index
<1>3. /\ v6' \in [Grants -> Media!Grant]
      /\ \A f \in Grants : /\ v6'[f].revokedAge = v6[f].revokedAge /\ v6'[f].left = v6[f].left /\ v6'[f].owner = v6[f].owner
                           /\ ~v6'[f].revoked => ~v6[f].revoked
  BY <1>1, <1>2 DEF Media!Grant
<1>4. Media!GrantsRecent'
  BY <1>1, <1>3 DEF Media!MediaIInv, Media!GrantsRecent, Media!Shown
<1>5. Media!RequestsRecent' /\ Media!ServesRecent' /\ v7' \in [Readers -> Media!Request]
  BY <1>1, <1>2, <1>3, MediaRequestsSame
<1> QED BY <1>1, <1>3, <1>4, <1>5, MediaWorldSame, MediaIndexSame DEF Media!MediaIInv, Media!MediaTypeOK

LEMMA MediaKept == Media!MediaGateAssumption /\ Media!MediaIInv /\ Media!MediaNext => Media!MediaIInv'
BY MediaTick, MediaOutside, MediaIndexer, MediaRevokes, MediaServing DEF Media!MediaNext

LEMMA MediaEnds == Media!MediaGateAssumption /\ Media!MediaIInv => Media!AccessEndsInTime
<1> SUFFICES ASSUME Media!MediaGateAssumption, Media!MediaIInv, NEW r \in Readers, v7[r].step = "serve"
             PROVE  /\ (~Overwrites => v4[v7[r].wallet] < Media!HolderWindow)
                    /\ ~v1 => v2 < Media!ExperienceWindow
                    /\ v6[v7[r].grant].revokedAge <= v7[r].age
  BY DEF Media!AccessEndsInTime
<1>1. /\ v7[r].wallet \in Instances
      /\ (~Overwrites => v4[v7[r].wallet] < Media!Trusted + Patience + GrantTtl + v7[r].age)
      /\ ~v1 => v2 < Patience + GrantTtl + v7[r].age
      /\ v6[v7[r].grant].revokedAge <= v7[r].age
  BY DEF Media!MediaIInv, Media!ServesRecent
<1>2. v7[r].age \in Nat /\ v7[r].age <= Patience /\ v2 \in Nat /\ v4[v7[r].wallet] \in Nat
  BY <1>1, MediaNumbers DEF Media!MediaIInv, Media!MediaTypeOK, Media!Request
<1> QED BY <1>1, <1>2, MediaNumbers

\* The gateway's invariant holds in every behaviour.
LEMMA MediaInvariant == SpecOne => [](part = "media" => Media!MediaIInv)
<1> DEFINE Inv == part = "media" => Media!MediaIInv
<1>1. InitOne => Inv
  BY Parameters, MediaStarts DEF InitOne, Starts
<1>2. Inv /\ [NextOne]_allVars => Inv'
  <2> SUFFICES ASSUME Media!MediaIInv, part = "media", [NextOne]_allVars PROVE Media!MediaIInv'
    BY DEF NextOne, Steps, allVars
  <2>1. CASE Media!MediaNext
    BY <2>1, Parameters, MediaKept
  <2>2. CASE UNCHANGED Media!mediaVars
    BY <2>2 DEF Media!mediaVars, Media!MediaIInv, Media!MediaTypeOK, Media!IndexRecent, Media!HeldBy, Media!RequestsRecent,
      Media!GrantsRecent, Media!ServesRecent, Media!Shown
  <2> QED BY <2>1, <2>2, MediaStep
<1> QED BY <1>1, <1>2, PTL DEF SpecOne

\* Nobody is served for longer than the windows after the experience was taken off or the token sold
\* (server/media-gateway.js, server/ownership.js), nor with a grant revoked before, for any times;
\* after the sale only where a transfer that is read again does not clear the mark of a snapshot a
\* reorganisation left wrong, which AccessEndsInTime says itself (Overwrites).
THEOREM AccessAlwaysEnds == SpecOne => []AccessEndsInTime
<1> DEFINE Inv == part = "media" => Media!MediaIInv
<1>1. Inv => AccessEndsInTime
  BY Parameters, MediaEnds DEF AccessEndsInTime
<1>2. SpecOne => []Inv
  BY MediaInvariant
<1> QED BY <1>1, <1>2, PTL

-----------------------------------------------------------------------------
(***************************************************************************)
(* The weekend configuration.  What is cached or being read is no older    *)
(* than the time it may be kept and read.                                  *)
(***************************************************************************)
LEMMA WeekendStep ==
  part = "weekend" /\ [NextOne]_allVars => part' = "weekend" /\ [Weekend!WeekendNext]_(Weekend!weekendVars)
BY DEF NextOne, Steps, allVars, vVars, Weekend!weekendVars

LEMMA WeekendStarts == Weekend!WeekendAssumption /\ Weekend!WeekendInit => Weekend!WeekendIInv
<1> SUFFICES ASSUME Weekend!WeekendAssumption, Weekend!WeekendInit PROVE Weekend!WeekendIInv
  OBVIOUS
<1> USE DEF Weekend!WeekendAssumption, Weekend!WeekendInit, Weekend!Never
<1>1. Weekend!WeekendTypeOK
  <2>1. Weekend!NoRead \in Weekend!Read /\ Weekend!Idle \in Weekend!Caller
    BY DEF Weekend!Read, Weekend!Caller, Weekend!NoRead, Weekend!Idle
  <2>2. 0 \in 0..WeekendEnd
    OBVIOUS
  <2> QED BY <2>1, <2>2 DEF Weekend!WeekendTypeOK
<1>2. Weekend!AnswersTrue
  BY DEF Weekend!AnswersTrue, Weekend!FinalIsFinal, Weekend!Idle
<1>3. Weekend!CacheRecent /\ Weekend!ReadsRecent
  BY DEF Weekend!CacheRecent, Weekend!ReadsRecent, Weekend!NoRead, Weekend!Idle
<1> QED BY <1>1, <1>2, <1>3 DEF Weekend!WeekendIInv

(***************************************************************************)
(* A verdict on a read that is no older than the lag and the time of a     *)
(* read, or than these and the time of the cache, is true.                 *)
(***************************************************************************)
LEMMA WeekendVerdict ==
  ASSUME Weekend!WeekendAssumption, Weekend!WeekendTypeOK,
         NEW read \in Weekend!Read,
         read.active => v2 # Weekend!Never /\ read.end = v2 + Duration,
         ~read.active /\ v2 # Weekend!Never => v1 - v2 < Duration
  PROVE  /\ Weekend!Verdict(read) = "open" => ~Weekend!Closed
         /\ Weekend!Verdict(read) = "closed" => Weekend!Closed \/ (~read.active /\ v2 # Weekend!Never /\ v1 > Deadline)
<1>1. v1 \in Nat /\ v2 \in {Weekend!Never} \cup Nat /\ Deadline \in Nat /\ Duration \in Nat
  BY DEF Weekend!WeekendAssumption, Weekend!WeekendTypeOK
<1> QED BY <1>1 DEF Weekend!Verdict, Weekend!Read, Weekend!Closed, Weekend!Never

LEMMA WeekendKept == Weekend!WeekendAssumption /\ Weekend!WeekendIInv /\ Weekend!WeekendNext => Weekend!WeekendIInv'
<1> SUFFICES ASSUME Weekend!WeekendAssumption, Weekend!WeekendIInv, Weekend!WeekendNext PROVE Weekend!WeekendIInv'
  OBVIOUS
<1>0. /\ Weekend!WeekendTypeOK /\ Weekend!AnswersTrue /\ Weekend!FinalIsFinal /\ Weekend!CacheRecent /\ Weekend!ReadsRecent
  BY DEF Weekend!WeekendIInv, Weekend!AnswersTrue
<1>t. /\ v1 \in Nat /\ v1 <= WeekendEnd /\ v2 \in {Weekend!Never} \cup Nat /\ (v2 # Weekend!Never => v2 <= Deadline)
      /\ v3 \in Weekend!Read
      /\ v4 \in {Weekend!Never} \cup Nat /\ v5 \in BOOLEAN /\ v6 \in {Weekend!Never} \cup Nat
      /\ v7 \in [Callers -> Weekend!Caller]
      /\ Deadline \in Nat /\ Duration \in Nat /\ CacheTtl \in Nat /\ Margin \in Nat /\ Lag \in Nat /\ ReadTime \in Nat
      /\ v3.at \in Int /\ v1 \in 0..WeekendEnd /\ Weekend!Never \in Int /\ Weekend!Never \notin Nat /\ WeekendEnd \in Nat /\ Lag <= Margin /\ Duration > Lag + ReadTime + CacheTtl
  BY <1>0 DEF Weekend!WeekendTypeOK, Weekend!WeekendAssumption, Weekend!Never, Weekend!Read
<1>i. Weekend!Idle \in Weekend!Caller
  BY DEF Weekend!Idle, Weekend!Caller
<1>1. CASE Weekend!Activate
  <2>1. v2 = Weekend!Never /\ v1 <= Deadline /\ v2' = v1 /\ UNCHANGED <<v1, v3, v4, v5, v6, v7>>
    BY <1>1 DEF Weekend!Activate
  <2>2. Weekend!WeekendTypeOK'
    BY <2>1, <1>0, <1>t DEF Weekend!WeekendTypeOK
  <2>3. ~Weekend!Closed /\ ~Weekend!Closed'
    BY <2>1, <1>t DEF Weekend!Closed, Weekend!Never
  <2>4. Weekend!FinalIsFinal'
    BY <2>1, <1>0, <1>t DEF Weekend!FinalIsFinal
  <2>5. Weekend!AnswersTrue'
    BY <2>1, <2>3, <2>4, <1>0 DEF Weekend!AnswersTrue
  <2>6. Weekend!CacheRecent'
    BY <2>1, <1>0, <1>t DEF Weekend!CacheRecent
  <2>7. Weekend!ReadsRecent'
    BY <2>1, <1>0 DEF Weekend!ReadsRecent, Weekend!Late
  <2> QED BY <2>2, <2>5, <2>6, <2>7 DEF Weekend!WeekendIInv
<1>2. CASE Weekend!ReadEnds
  <2>1. PICK read \in Weekend!Seen(v4) :
          /\ v3' = read
          /\ v6' = IF read.active THEN read.end ELSE v6
          /\ v5' = (v5 \/ Weekend!Latches(read))
          /\ v7' = [c \in Callers |-> IF v7[c].step = "waiting" THEN [v7[c] EXCEPT !.step = "answered", !.said = Weekend!Verdict(read)] ELSE v7[c]]
    BY <1>2 DEF Weekend!ReadEnds
  <2>2. v4 # Weekend!Never /\ v4' = Weekend!Never /\ UNCHANGED <<v1, v2>>
    BY <1>2 DEF Weekend!ReadEnds
  <2>3. v4 <= v1 /\ v1 - v4 <= ReadTime
    BY <2>2, <1>0 DEF Weekend!ReadsRecent
  <2>4. /\ read \in Weekend!Read
        /\ read.at = v1
        /\ read.active => v2 # Weekend!Never /\ read.end = v2 + Duration
        /\ ~read.active /\ v2 # Weekend!Never => v4 - Lag <= v2
    <3>1. \/ v2 # Weekend!Never /\ read = [active |-> TRUE, end |-> v2 + Duration, at |-> v1]
          \/ read = [active |-> FALSE, end |-> Weekend!Never, at |-> v1] /\ (v2 # Weekend!Never => v4 - Lag <= v2)
      BY DEF Weekend!Seen
    <3>2. v1 \in 0..WeekendEnd /\ (v2 # Weekend!Never => v2 + Duration \in Nat)
      BY <1>t
    <3>3. CASE v2 # Weekend!Never /\ read = [active |-> TRUE, end |-> v2 + Duration, at |-> v1]
      BY <3>2, <3>3 DEF Weekend!Read
    <3>4. CASE read = [active |-> FALSE, end |-> Weekend!Never, at |-> v1] /\ (v2 # Weekend!Never => v4 - Lag <= v2)
      BY <3>2, <3>4 DEF Weekend!Read
    <3> QED BY <3>1, <3>3, <3>4
  <2>5. ~read.active /\ v2 # Weekend!Never => v1 - v2 < Duration /\ v2 >= v1 - ReadTime - Lag
    BY <2>2, <2>3, <2>4, <1>t DEF Weekend!Never
  <2>6. Weekend!Verdict(read) \in {"closed", "open"}
    BY DEF Weekend!Verdict
  <2>7. v7' \in [Callers -> Weekend!Caller]
    BY <2>1, <2>6, <1>t DEF Weekend!Caller
  <2>8. Weekend!WeekendTypeOK'
    <3>1. v5' \in BOOLEAN
      BY <2>1, <1>t DEF Weekend!Latches
    <3>2. v6' \in {Weekend!Never} \cup Nat
      <4>1. v6' = IF read.active THEN read.end ELSE v6
        BY <2>1
      <4>2. v2 # Weekend!Never => v2 + Duration \in Nat
        BY <1>t
      <4>3. v6 \in {Weekend!Never} \cup Nat
        BY <1>t
      <4> QED BY <4>1, <4>2, <4>3, <2>4
    <3>3. v1' \in 0..WeekendEnd /\ v2' \in {Weekend!Never} \cup 0..Deadline
      BY <2>2, <1>0 DEF Weekend!WeekendTypeOK
    <3> QED BY <2>1, <2>2, <2>4, <2>7, <3>1, <3>2, <3>3 DEF Weekend!WeekendTypeOK
  <2>9. Weekend!FinalIsFinal'
    <3>1. v6' # Weekend!Never => v2' # Weekend!Never /\ v6' = v2' + Duration
      BY <2>1, <2>2, <2>4, <1>0 DEF Weekend!FinalIsFinal
    <3>2. Weekend!Latches(read) => v2 = Weekend!Never /\ v1 > Deadline
      BY <2>2, <2>3, <2>4, <1>t DEF Weekend!Latches
    <3>3. v5 => v2 = Weekend!Never /\ v1 > Deadline
      BY <1>0 DEF Weekend!FinalIsFinal
    <3> QED BY <2>1, <2>2, <3>1, <3>2, <3>3 DEF Weekend!FinalIsFinal
  <2>10. ASSUME NEW c \in Callers, v7'[c].step = "answered"
         PROVE  (v7'[c].said = "open" => ~Weekend!Closed') /\ (v7'[c].said = "closed" => Weekend!Closed' \/ ~v7'[c].late)
    <3>0. Weekend!Closed' = Weekend!Closed
      BY <2>2 DEF Weekend!Closed
    <3>1. CASE v7[c].step = "waiting"
      <4>1. v7'[c].said = Weekend!Verdict(read) /\ v7'[c].late = v7[c].late
        BY <2>1, <3>1, <1>t DEF Weekend!Caller
      <4>2. v7[c].late => Weekend!Late(v4)
        BY <3>1, <1>0 DEF Weekend!ReadsRecent
      <4>3. Weekend!Late(v4) => ~(~read.active /\ v2 # Weekend!Never)
        BY <2>2, <2>4, <1>t DEF Weekend!Late, Weekend!Never
      <4> QED BY <3>0, <4>1, <4>2, <4>3, <2>4, <2>5, <1>0, WeekendVerdict
    <3>2. CASE v7[c].step # "waiting"
      BY <3>0, <3>2, <2>1, <2>10, <1>0 DEF Weekend!AnswersTrue
    <3> QED BY <3>1, <3>2
  <2>11. Weekend!CacheRecent'
    <3>1. v3' = read /\ v1' = v1 /\ v2' = v2 /\ v1 <= v1
      <4>1. v1 <= v1
        BY <1>t
      <4> QED BY <2>1, <2>2, <4>1
    <3> QED BY <3>1, <2>4, <2>5 DEF Weekend!CacheRecent
  <2>12. Weekend!ReadsRecent'
    BY <2>1, <2>2, <1>t DEF Weekend!ReadsRecent, Weekend!Caller
  <2> QED BY <2>8, <2>9, <2>10, <2>11, <2>12 DEF Weekend!WeekendIInv, Weekend!AnswersTrue
<1>3. CASE Weekend!ReadFails
  <2>1. /\ v4' = Weekend!Never /\ UNCHANGED <<v1, v2, v3, v5, v6>>
        /\ v7' = [c \in Callers |-> IF v7[c].step = "waiting" THEN [v7[c] EXCEPT !.step = "answered", !.said = "unavailable"] ELSE v7[c]]
    BY <1>3 DEF Weekend!ReadFails
  <2>2. v7' \in [Callers -> Weekend!Caller]
    BY <2>1, <1>t DEF Weekend!Caller
  <2>3. \A c \in Callers : v7'[c].step # "waiting" /\ (v7'[c].said = "unavailable" \/ v7'[c] = v7[c])
    BY <2>1, <1>t DEF Weekend!Caller
  <2>4. Weekend!WeekendTypeOK'
    BY <2>1, <2>2, <1>0 DEF Weekend!WeekendTypeOK
  <2>5. Weekend!AnswersTrue'
    BY <2>1, <2>3, <1>0 DEF Weekend!AnswersTrue, Weekend!FinalIsFinal, Weekend!Closed
  <2> QED BY <2>1, <2>3, <2>4, <2>5, <1>0 DEF Weekend!WeekendIInv, Weekend!CacheRecent, Weekend!ReadsRecent
<1>4. CASE Weekend!Restart
  <2>1. /\ v3' = Weekend!NoRead /\ v4' = Weekend!Never /\ v5' = FALSE /\ v6' = Weekend!Never
        /\ v7' = [c \in Callers |-> Weekend!Idle] /\ UNCHANGED <<v1, v2>>
    BY <1>4 DEF Weekend!Restart
  <2>2. Weekend!WeekendTypeOK'
    BY <2>1, <1>0, <1>i DEF Weekend!WeekendTypeOK, Weekend!NoRead, Weekend!Never, Weekend!Read
  <2>3. Weekend!AnswersTrue'
    BY <2>1 DEF Weekend!AnswersTrue, Weekend!FinalIsFinal, Weekend!Idle
  <2>4. Weekend!CacheRecent' /\ Weekend!ReadsRecent'
    BY <2>1, <1>t DEF Weekend!CacheRecent, Weekend!ReadsRecent, Weekend!NoRead, Weekend!Never, Weekend!Idle
  <2> QED BY <2>2, <2>3, <2>4 DEF Weekend!WeekendIInv
<1>5. CASE Weekend!Tick
  <2>1. /\ v1' = v1 + 1 /\ v1 < WeekendEnd /\ UNCHANGED <<v2, v3, v4, v5, v6, v7>>
        /\ (v4 # Weekend!Never => v1 - v4 < ReadTime)
        /\ \A c \in Callers : v7[c].step # "answered"
    BY <1>5 DEF Weekend!Tick
  <2>2. Weekend!WeekendTypeOK'
    BY <2>1, <1>0, <1>t DEF Weekend!WeekendTypeOK
  <2>3. Weekend!AnswersTrue'
    BY <2>1, <1>0, <1>t DEF Weekend!AnswersTrue, Weekend!FinalIsFinal
  <2>4. Weekend!CacheRecent' /\ Weekend!ReadsRecent'
    <3>1. Weekend!CacheRecent'
      BY <2>1, <1>0, <1>t DEF Weekend!CacheRecent
    <3>2. v4 # Weekend!Never => v4 <= v1 + 1 /\ v1 + 1 - v4 <= ReadTime
      <4>1. v4 # Weekend!Never => v4 <= v1 /\ v1 - v4 < ReadTime
        BY <2>1, <1>0 DEF Weekend!ReadsRecent
      <4>2. v1 \in Nat /\ v4 \in {Weekend!Never} \cup Nat /\ ReadTime \in Nat
        BY <1>t
      <4> QED BY <4>1, <4>2
    <3>0. v1 \in Nat /\ v4 \in {Weekend!Never} \cup Nat /\ ReadTime \in Nat
      BY <1>t
    <3>3. \A c \in Callers : v7[c].step = "waiting" => v4 # Weekend!Never /\ (v7[c].late => Weekend!Late(v4))
      BY <1>0 DEF Weekend!ReadsRecent
    <3>4. v1' = v1 + 1 /\ v4' = v4 /\ v7' = v7
      BY <2>1
    <3>5. v4' # Weekend!Never => v4' <= v1' /\ v1' - v4' <= ReadTime
      BY <3>0, <3>2, <3>4
    <3>6. \A c \in Callers : v7'[c].step = "waiting" => v4' # Weekend!Never /\ (v7'[c].late => Weekend!Late(v4)')
      BY <3>3, <3>4 DEF Weekend!Late
    <3> QED BY <3>1, <3>5, <3>6 DEF Weekend!ReadsRecent
  <2> QED BY <2>2, <2>3, <2>4 DEF Weekend!WeekendIInv
<1>6. ASSUME NEW c \in Callers, Weekend!Ask(c) PROVE Weekend!WeekendIInv'
  <2>1. UNCHANGED <<v1, v2, v3, v5, v6>> /\ v7[c].step = "idle"
    BY <1>6 DEF Weekend!Ask
  <2>2. Weekend!Closed' = Weekend!Closed
    BY <2>1 DEF Weekend!Closed
  <2>3. Weekend!CacheRecent' /\ Weekend!FinalIsFinal'
    BY <2>1, <1>0 DEF Weekend!CacheRecent, Weekend!FinalIsFinal
  <2>4. ASSUME NEW said \in {"closed", "open"}, UNCHANGED v4, Weekend!Say(c, said),
               said = "open" => ~Weekend!Closed, said = "closed" => Weekend!Closed
        PROVE  Weekend!WeekendIInv'
    <3>1. v7' = [v7 EXCEPT ![c] = [step |-> "answered", late |-> Weekend!AsksLate, said |-> said]]
      BY <2>4 DEF Weekend!Say
    <3>2. Weekend!AsksLate \in BOOLEAN
      BY DEF Weekend!AsksLate, Weekend!Late
    <3>3. v7' \in [Callers -> Weekend!Caller]
      BY <3>1, <3>2, <1>t DEF Weekend!Caller
    <3>4. v7'[c].step = "answered" /\ v7'[c].said = said /\ \A d \in Callers : d # c => v7'[d] = v7[d]
      BY <3>1, <1>t
    <3>5. Weekend!WeekendTypeOK'
      BY <2>1, <2>4, <3>3, <1>0 DEF Weekend!WeekendTypeOK
    <3>6. Weekend!AnswersTrue'
      BY <2>2, <2>3, <2>4, <3>4, <1>0 DEF Weekend!AnswersTrue
    <3>7. Weekend!ReadsRecent'
      BY <2>1, <2>4, <3>4, <1>0 DEF Weekend!ReadsRecent, Weekend!Late
    <3> QED BY <2>3, <3>5, <3>6, <3>7 DEF Weekend!WeekendIInv
  <2>5. CASE v6 # Weekend!Never /\ v1 >= v6
    <3>1. Weekend!Closed
      BY <2>5, <1>0 DEF Weekend!FinalIsFinal, Weekend!Closed
    <3> QED BY <1>6, <2>4, <2>5, <3>1 DEF Weekend!Ask
  <2>6. CASE ~(v6 # Weekend!Never /\ v1 >= v6) /\ Weekend!CacheUsable
    <3>1. Weekend!Say(c, Weekend!Verdict(v3)) /\ UNCHANGED v4
      BY <1>6, <2>6 DEF Weekend!Ask
    <3>2. Weekend!Verdict(v3) \in {"closed", "open"}
      BY DEF Weekend!Verdict
    <3>3. /\ v3 # Weekend!NoRead /\ v1 - v3.at < CacheTtl
          /\ v3.active \/ v5 \/ v1 <= Deadline
      BY <2>6 DEF Weekend!CacheUsable
    <3>4. v3.active => v2 # Weekend!Never /\ v3.end = v2 + Duration
      BY <1>0 DEF Weekend!CacheRecent
    <3>5. ~v3.active /\ v2 # Weekend!Never => v1 - v2 < Duration
      <4>1. ~v3.active /\ v2 # Weekend!Never => v2 >= v3.at - ReadTime - Lag
        BY <1>0, <3>3 DEF Weekend!CacheRecent
      <4>2. v3.at \in Int
        BY <1>t DEF Weekend!Never, Weekend!Read
      <4> QED BY <4>1, <4>2, <3>3, <1>t DEF Weekend!Never
    <3>6. ~(~v3.active /\ v2 # Weekend!Never /\ v1 > Deadline)
      BY <3>3, <1>0, <1>t DEF Weekend!FinalIsFinal
    <3>7. /\ Weekend!Verdict(v3) = "open" => ~Weekend!Closed
          /\ Weekend!Verdict(v3) = "closed" => Weekend!Closed
      BY <3>4, <3>5, <3>6, <1>0, <1>t, WeekendVerdict
    <3> QED BY <2>4, <3>1, <3>2, <3>7
  <2>7. CASE ~(v6 # Weekend!Never /\ v1 >= v6) /\ ~Weekend!CacheUsable
    <3>1. /\ v4' = IF v4 = Weekend!Never THEN v1 ELSE v4
          /\ v7' = [v7 EXCEPT ![c].step = "waiting", ![c].late = Weekend!AsksLate]
      BY <1>6, <2>7 DEF Weekend!Ask
    <3>2. Weekend!AsksLate \in BOOLEAN
      BY DEF Weekend!AsksLate, Weekend!Late
    <3>3. v7' \in [Callers -> Weekend!Caller]
      BY <3>1, <3>2, <1>t DEF Weekend!Caller
    <3>4. v7'[c].step = "waiting" /\ v7'[c].late = Weekend!AsksLate /\ \A d \in Callers : d # c => v7'[d] = v7[d]
      BY <3>1, <1>t DEF Weekend!Caller
    <3>5. Weekend!WeekendTypeOK'
      BY <2>1, <3>1, <3>3, <1>0 DEF Weekend!WeekendTypeOK
    <3>6. Weekend!AnswersTrue'
      BY <2>2, <2>3, <3>4, <1>0 DEF Weekend!AnswersTrue
    <3>7. Weekend!AsksLate => Weekend!Late(v4')
      BY <3>1 DEF Weekend!AsksLate
    <3>8. v4' # Weekend!Never /\ v4' <= v1 /\ v1 - v4' <= ReadTime
      BY <3>1, <1>0, <1>t DEF Weekend!ReadsRecent, Weekend!Never
    <3>9. v4 # Weekend!Never => v4' = v4
      BY <3>1
    <3>10. Weekend!ReadsRecent'
      BY <2>1, <3>4, <3>7, <3>8, <3>9, <1>0 DEF Weekend!ReadsRecent, Weekend!Late
    <3> QED BY <2>3, <3>5, <3>6, <3>10 DEF Weekend!WeekendIInv
  <2> QED BY <2>5, <2>6, <2>7
<1>7. ASSUME NEW c \in Callers, Weekend!AskAgain(c) PROVE Weekend!WeekendIInv'
  <2>1. v7' = [v7 EXCEPT ![c] = Weekend!Idle] /\ UNCHANGED <<v1, v2, v3, v4, v5, v6>>
    BY <1>7 DEF Weekend!AskAgain
  <2>2. v7' \in [Callers -> Weekend!Caller]
    BY <2>1, <1>i, <1>t
  <2>3. v7'[c].step = "idle" /\ \A d \in Callers : d # c => v7'[d] = v7[d]
    BY <2>1, <1>t DEF Weekend!Idle
  <2>4. Weekend!WeekendTypeOK'
    BY <2>1, <2>2, <1>0 DEF Weekend!WeekendTypeOK
  <2>5. Weekend!AnswersTrue'
    BY <2>1, <2>3, <1>0 DEF Weekend!AnswersTrue, Weekend!FinalIsFinal, Weekend!Closed
  <2> QED BY <2>1, <2>3, <2>4, <2>5, <1>0 DEF Weekend!WeekendIInv, Weekend!CacheRecent, Weekend!ReadsRecent, Weekend!Late
<1> QED BY <1>1, <1>2, <1>3, <1>4, <1>5, <1>6, <1>7 DEF Weekend!WeekendNext

\* The invariant of the weekend's service holds in every behaviour.
LEMMA WeekendInvariant == SpecOne => [](part = "weekend" => Weekend!WeekendIInv)
<1> DEFINE Inv == part = "weekend" => Weekend!WeekendIInv
<1>1. InitOne => Inv
  BY Parameters, WeekendStarts DEF InitOne, Starts
<1>2. Inv /\ [NextOne]_allVars => Inv'
  <2> SUFFICES ASSUME Weekend!WeekendIInv, part = "weekend", [NextOne]_allVars PROVE Weekend!WeekendIInv'
    BY DEF NextOne, Steps, allVars
  <2>1. CASE Weekend!WeekendNext
    BY <2>1, Parameters, WeekendKept
  <2>2. CASE UNCHANGED Weekend!weekendVars
    BY <2>2 DEF Weekend!weekendVars, Weekend!WeekendIInv, Weekend!WeekendTypeOK, Weekend!AnswersTrue, Weekend!FinalIsFinal,
      Weekend!CacheRecent, Weekend!ReadsRecent, Weekend!Closed, Weekend!Late
  <2> QED BY <2>1, <2>2, WeekendStep
<1> QED BY <1>1, <1>2, PTL DEF SpecOne

\* Nobody is told the window is open when it has closed, nor closed while it is open, but for those
\* who heard of a read begun too early to know, and what is taken as final is true
\* (server/genesis-weekend-claim.js), for any durations, lag and cache time.
THEOREM AnswersAlwaysTrue == SpecOne => []AnswersTrue
<1> DEFINE Inv == part = "weekend" => Weekend!WeekendIInv
<1>1. Inv => AnswersTrue
  BY DEF AnswersTrue, Weekend!WeekendIInv
<1>2. SpecOne => []Inv
  BY WeekendInvariant
<1> QED BY <1>1, <1>2, PTL

-----------------------------------------------------------------------------
(***************************************************************************)
(* Playback. Whatever an answer may still do when it comes is due to the   *)
(* wallet of the session and to the track shown: who asked, for which      *)
(* track and with which tasks is settled when it is asked, and a step      *)
(* either keeps it or gives the request up (Follow).                       *)
(***************************************************************************)
LEMMA PlayerStep ==
  part = "player" /\ [NextOne]_allVars => part' = "player" /\ [Player!Next]_(Player!vars)
BY DEF NextOne, Steps, allVars, vVars, Player!vars

LEMMA SeqOfFunction ==
  ASSUME NEW S, NEW n \in Nat, NEW f \in [1..n -> S]
  PROVE  f \in Seq(S) /\ Len(f) = n
OBVIOUS

LEMMA SeqIsFunction ==
  ASSUME NEW S, NEW f \in Seq(S)
  PROVE  Len(f) \in Nat /\ DOMAIN f = 1..Len(f) /\ f \in [1..Len(f) -> S]
OBVIOUS

LEMMA SeqAppended ==
  ASSUME NEW S, NEW f \in Seq(S), NEW e \in S
  PROVE  /\ Append(f, e) \in Seq(S) /\ Len(Append(f, e)) = Len(f) + 1 /\ Append(f, e)[Len(f) + 1] = e
         /\ \A i \in 1..Len(f) : Append(f, e)[i] = f[i]
OBVIOUS

\* The requests keep whom they were made by, or are given up; and each is due.
Kinds == {"play", "set", "resume", "renew"}
Follow(new, old) ==
  /\ new \in Seq(Player!Request) /\ Len(old) <= Len(new)
  /\ \A i \in 1..Len(old) : new[i].by = "player" => old[i].by = "player" /\ new[i].wallet = old[i].wallet
AllDue(reqs, w, t, tracks) == \A i \in 1..Len(reqs) : Player!Due(reqs[i], w, t, tracks)

LEMMA FollowsItself == \A reqs \in Seq(Player!Request) : Follow(reqs, reqs)
BY DEF Follow

LEMMA FollowsTwice ==
  ASSUME NEW a, NEW b, NEW c \in Seq(Player!Request), Follow(a, b), Follow(b, c)
  PROVE  Follow(a, c)
<1>1. Len(a) \in Nat /\ Len(b) \in Nat /\ Len(c) \in Nat
  BY SeqIsFunction DEF Follow
<1> QED BY <1>1 DEF Follow

LEMMA TaskSets ==
  /\ Player!ToSet(<<>>) = {}
  /\ \A s \in Seq(Kinds), k \in Kinds : Append(s, k) \in Seq(Kinds) /\ Player!ToSet(Append(s, k)) = Player!ToSet(s) \cup {k}
<1>1. Player!ToSet(<<>>) = {}
  BY DEF Player!ToSet
<1>2. ASSUME NEW s \in Seq(Kinds), NEW k \in Kinds
      PROVE  Append(s, k) \in Seq(Kinds) /\ Player!ToSet(Append(s, k)) = Player!ToSet(s) \cup {k}
  <2>1. /\ Append(s, k) \in Seq(Kinds) /\ Len(Append(s, k)) = Len(s) + 1 /\ Append(s, k)[Len(s) + 1] = k
        /\ \A i \in 1..Len(s) : Append(s, k)[i] = s[i]
    BY SeqAppended
  <2>2. DOMAIN Append(s, k) = 1..(Len(s) + 1) /\ DOMAIN s = 1..Len(s) /\ Len(s) \in Nat
    BY <2>1, SeqIsFunction
  <2>3. 1..(Len(s) + 1) = (1..Len(s)) \cup {Len(s) + 1}
    BY <2>2
  <2> QED BY <2>1, <2>2, <2>3 DEF Player!ToSet
<1> QED BY <1>1, <1>2

LEMMA OutdatedDue ==
  ASSUME NEW reqs \in Seq(Player!Request), NEW w, NEW t, NEW tracks, AllDue(reqs, w, t, tracks)
  PROVE  /\ Follow(Player!Outdated(reqs), reqs) /\ Len(Player!Outdated(reqs)) = Len(reqs)
         /\ \A u, others : AllDue(Player!Outdated(reqs), w, u, others)
<1> DEFINE out == Player!Outdated(reqs)
<1>1. Len(reqs) \in Nat /\ DOMAIN reqs = 1..Len(reqs) /\ \A i \in 1..Len(reqs) : reqs[i] \in Player!Request
  BY SeqIsFunction
<1>2. out = [i \in 1..Len(reqs) |-> [reqs[i] EXCEPT !.tasks = <<>>]]
  BY <1>1 DEF Player!Outdated
<1>3. \A r \in Player!Request : [r EXCEPT !.tasks = <<>>] \in Player!Request
  <2>1. <<>> \in Seq(Kinds)
    OBVIOUS
  <2> QED BY <2>1 DEF Player!Request, Kinds
<1>4. out \in Seq(Player!Request) /\ Len(out) = Len(reqs)
  <2>1. out \in [1..Len(reqs) -> Player!Request]
    BY <1>1, <1>2, <1>3
  <2> HIDE DEF out
  <2> QED BY <2>1, <1>1, SeqOfFunction
<1>5. ASSUME NEW i \in 1..Len(reqs)
      PROVE  /\ out[i].by = reqs[i].by /\ out[i].wallet = reqs[i].wallet /\ out[i].tasks = <<>>
             /\ out[i].track = reqs[i].track /\ out[i].shared = reqs[i].shared
  BY <1>1, <1>2 DEF Player!Request
<1> HIDE DEF out
<1>6. Follow(out, reqs)
  BY <1>1, <1>4, <1>5 DEF Follow
<1>7. ASSUME NEW u, NEW others PROVE AllDue(out, w, u, others)
  BY <1>4, <1>5, TaskSets DEF AllDue, Player!Due
<1> QED BY <1>4, <1>6, <1>7 DEF out

LEMMA DroppedDue ==
  ASSUME NEW reqs \in Seq(Player!Request), NEW w, NEW t, NEW tracks, AllDue(reqs, w, t, tracks)
  PROVE  /\ Follow(Player!Dropped(reqs), reqs) /\ Len(Player!Dropped(reqs)) = Len(reqs)
         /\ \A u : AllDue(Player!Dropped(reqs), u, t, tracks)
<1> DEFINE out == Player!Dropped(reqs)
<1>1. Len(reqs) \in Nat /\ DOMAIN reqs = 1..Len(reqs) /\ \A i \in 1..Len(reqs) : reqs[i] \in Player!Request
  BY SeqIsFunction
<1>2. out = [i \in 1..Len(reqs) |-> [reqs[i] EXCEPT !.shared = FALSE]]
  BY <1>1 DEF Player!Dropped
<1>3. \A r \in Player!Request : [r EXCEPT !.shared = FALSE] \in Player!Request
  BY DEF Player!Request
<1>4. out \in Seq(Player!Request) /\ Len(out) = Len(reqs)
  <2>1. out \in [1..Len(reqs) -> Player!Request]
    BY <1>1, <1>2, <1>3
  <2> HIDE DEF out
  <2> QED BY <2>1, <1>1, SeqOfFunction
<1>5. ASSUME NEW i \in 1..Len(reqs)
      PROVE  /\ out[i].by = reqs[i].by /\ out[i].wallet = reqs[i].wallet /\ out[i].tasks = reqs[i].tasks
             /\ out[i].track = reqs[i].track /\ ~out[i].shared
  BY <1>1, <1>2 DEF Player!Request
<1> HIDE DEF out
<1>6. Follow(out, reqs)
  BY <1>1, <1>4, <1>5 DEF Follow
<1>7. ASSUME NEW u PROVE AllDue(out, u, t, tracks)
  BY <1>4, <1>5 DEF AllDue, Player!Due
<1> QED BY <1>4, <1>6, <1>7 DEF out

\* Asking, or joining who asks already, for a track of the queue.
LEMMA AskedDue ==
  ASSUME NEW reqs \in Seq(Player!Request), NEW t \in Callers, NEW kind \in Kinds, NEW c, NEW tracks,
         v6 \in Instances, t \in tracks, kind # "play" => t = c, AllDue(reqs, v6, c, tracks)
  PROVE  Follow(Player!Asked(reqs, t, kind), reqs) /\ AllDue(Player!Asked(reqs, t, kind), v6, c, tracks)
<1> DEFINE out == Player!Asked(reqs, t, kind)
<1>1. Len(reqs) \in Nat /\ DOMAIN reqs = 1..Len(reqs) /\ \A i \in 1..Len(reqs) : reqs[i] \in Player!Request
  BY SeqIsFunction
<1>2. CASE Player!Shared(reqs, t) # {}
  <2> DEFINE joins(i) == i \in Player!Shared(reqs, t) /\ kind \notin Player!ToSet(reqs[i].tasks)
  <2>1. out = [i \in 1..Len(reqs) |-> IF joins(i) THEN [reqs[i] EXCEPT !.tasks = Append(@, kind)] ELSE reqs[i]]
    BY <1>1, <1>2 DEF Player!Asked
  <2>2. \A r \in Player!Request : r.tasks \in Seq(Kinds) /\ [r EXCEPT !.tasks = Append(r.tasks, kind)] \in Player!Request
    <3>1. ASSUME NEW r \in Player!Request PROVE r.tasks \in Seq(Kinds) /\ Append(r.tasks, kind) \in Seq(Kinds)
      BY TaskSets DEF Player!Request, Kinds
    <3> QED BY <3>1 DEF Player!Request, Kinds
  <2>3. out \in Seq(Player!Request) /\ Len(out) = Len(reqs)
    <3>1. out \in [1..Len(reqs) -> Player!Request]
      BY <1>1, <2>1, <2>2
    <3> HIDE DEF out
    <3> QED BY <3>1, <1>1, SeqOfFunction
  <2>4. ASSUME NEW i \in 1..Len(reqs)
        PROVE  /\ out[i].by = reqs[i].by /\ out[i].wallet = reqs[i].wallet
               /\ out[i].track = reqs[i].track /\ out[i].shared = reqs[i].shared
               /\ out[i].tasks = IF joins(i) THEN Append(reqs[i].tasks, kind) ELSE reqs[i].tasks
    BY <1>1, <2>1 DEF Player!Request
  <2>5. \A i \in 1..Len(reqs) : joins(i) => reqs[i].shared /\ reqs[i].track = t
    BY DEF Player!Shared
  <2> HIDE DEF out, joins
  <2>6. Follow(out, reqs)
    BY <1>1, <2>3, <2>4 DEF Follow
  <2>7. ASSUME NEW i \in 1..Len(reqs) PROVE Player!Due(out[i], v6, c, tracks)
    <3>1. Player!Due(reqs[i], v6, c, tracks)
      BY DEF AllDue
    <3>2. CASE ~joins(i)
      BY <2>4, <3>1, <3>2 DEF Player!Due
    <3>3. CASE joins(i)
      <4>1. out[i].by = "player" /\ out[i].track = t /\ out[i].wallet = v6
        BY <2>4, <2>5, <3>1, <3>3 DEF Player!Due
      <4>2. Player!ToSet(out[i].tasks) = Player!ToSet(reqs[i].tasks) \cup {kind}
        BY <1>1, <2>2, <2>4, <3>3, TaskSets
      <4>3. Player!ToSet(out[i].tasks) \ {"play"} # {} => t = c
        BY <4>1, <4>2, <2>4, <3>1 DEF Player!Due
      <4> QED BY <4>1, <4>3 DEF Player!Due
    <3> QED BY <3>2, <3>3
  <2> QED BY <2>3, <2>6, <2>7 DEF AllDue, out
<1>3. CASE Player!Shared(reqs, t) = {}
  <2> DEFINE new == [track |-> t, wallet |-> v6, by |-> "player", shared |-> TRUE, pending |-> TRUE, tasks |-> <<kind>>]
  <2>1. out = Append(reqs, new)
    BY <1>3 DEF Player!Asked
  <2>2. <<kind>> \in Seq(Kinds) /\ Player!ToSet(<<kind>>) = {kind}
    <3>1. <<kind>> = Append(<<>>, kind) /\ <<>> \in Seq(Kinds)
      OBVIOUS
    <3> QED BY <3>1, TaskSets
  <2>3. new \in Player!Request
    BY <2>2 DEF Player!Request, Kinds
  <2>4. Player!Due(new, v6, c, tracks)
    BY <2>2 DEF Player!Due
  <2> HIDE DEF new
  <2>5. /\ out \in Seq(Player!Request) /\ Len(out) = Len(reqs) + 1 /\ out[Len(reqs) + 1] = new
        /\ \A i \in 1..Len(reqs) : out[i] = reqs[i]
    BY <2>1, <2>3, SeqAppended
  <2> HIDE DEF out
  <2>6. Follow(out, reqs)
    BY <1>1, <2>5 DEF Follow
  <2>7. ASSUME NEW i \in 1..Len(out) PROVE Player!Due(out[i], v6, c, tracks)
    <3>1. i \in 1..Len(reqs) \/ i = Len(reqs) + 1
      BY <1>1, <2>5
    <3> QED BY <2>4, <2>5, <3>1 DEF AllDue
  <2> QED BY <2>5, <2>6, <2>7 DEF AllDue, out
<1> QED BY <1>2, <1>3
\* What a step must show: requests follow, the rest keeps its type, and what is new on the element
\* or among the grants is a grant of the track, given to the wallet of the session.
WalletType == [account : Instances \cup {Nobody}, signing : SUBSET Instances, clearing : BOOLEAN, wired : BOOLEAN, late : BOOLEAN]
Types ==
  /\ v1 \in SUBSET Callers /\ v2 \in v1
  /\ v3 \in [made : BOOLEAN, source : Player!Sources, error : BOOLEAN]
  /\ v4 \subseteq Callers /\ v8 \subseteq Callers
  /\ v5 \in WalletType
  /\ v6 \in Instances \cup {Nobody}
  /\ v9 \subseteq Callers /\ v10 \subseteq Callers
  /\ v5.account = Nobody /\ ~v5.late => v6 = Nobody

Given(t) ==
  \/ v7'[t] = 0
  \/ v7'[t] = v7[t] /\ v6' = v6
  \/ v7'[t] \in 1..Len(v11) /\ (v11'[v7'[t]].by = "player" => v11'[v7'[t]].wallet = v6')

Shows ==
  \/ v3'.source = Player!NoSource
  \/ v3'.source.track = v2' /\ v2' \in Callers /\ v3'.source.grant \in {0, v7'[v2']}
  \/ v3'.source = v3.source /\ v2' = v2

Locked == v5.account = Nobody /\ v6 = Nobody /\ ~v5.clearing /\ ~v5.late
Relocks == Locked' => Locked \/ v3'.source = Player!NoSource \/ v3'.source.grant \in {0, v7'[v2']}

Advances ==
  /\ Types' /\ Follow(v11', v11) /\ Len(v11') <= MaxSent /\ AllDue(v11', v6', v2', v1')
  /\ v7' \in [Callers -> Nat] /\ (\A t \in Callers : Given(t))
  /\ Shows /\ Relocks /\ (~v3'.made => v3'.source = Player!NoSource)

LEMMA PlayerAdvances ==
  ASSUME Player!PlaybackAssumption, Player!IInv, Advances
  PROVE  Player!IInv'
<1> DEFINE n == Len(v11)
           m == Len(v11')
<1>1. /\ n \in Nat /\ m \in Nat /\ n <= m /\ m <= MaxSent /\ v11' \in Seq(Player!Request)
      /\ DOMAIN v11 = 1..n /\ DOMAIN v11' = 1..m /\ MaxSent \in Nat
  BY SeqIsFunction DEF Advances, Follow, Player!IInv, Player!TypeOK, Player!PlaybackAssumption
<1> HIDE DEF n, m
<1>2. \A t \in Callers : v7[t] \in 0..n
  BY <1>1 DEF Player!IInv, Player!TypeOK, Player!Answers
<1>3. \A t \in Callers : v7'[t] \in 0..n
  BY <1>1, <1>2 DEF Advances, Given, n
<1>4. \A i \in 1..n : v11'[i].by = "player" => v11[i].by = "player" /\ v11'[i].wallet = v11[i].wallet
  BY DEF Advances, Follow, n
<1>5. \A t \in Callers : v7'[t] # 0 /\ v11'[v7'[t]].by = "player" => v11'[v7'[t]].wallet = v6'
  <2> SUFFICES ASSUME NEW t \in Callers, v7'[t] # 0, v11'[v7'[t]].by = "player" PROVE v11'[v7'[t]].wallet = v6'
    OBVIOUS
  <2>1. CASE v7'[t] = v7[t] /\ v6' = v6
    <3>1. v7[t] \in 1..n
      BY <1>2, <2>1
    <3> QED BY <3>1, <1>4, <2>1 DEF Player!IInv, Player!GrantsOfSession, Player!OfPlayer
  <2> QED BY <2>1 DEF Advances, Given
<1>6. Player!GrantsOfSession'
  BY <1>5 DEF Player!GrantsOfSession, Player!OfPlayer
<1>7. v3.source.grant = 0 \/ v3.source.grant \in 1..n
  BY <1>1 DEF Player!IInv, Player!Answers
<1>8. v3'.source.grant = 0 \/ v3'.source.grant \in 1..m
  BY <1>1, <1>3, <1>7 DEF Advances, Shows, Player!NoSource
<1>9. Player!SourceOfTrack'
  BY DEF Advances, Shows, Player!IInv, Player!SourceOfTrack
<1>10. ASSUME NEW i \in 1..m, v6' = Nobody, v11'[i].by = "player", v11'[i].wallet = v6' PROVE FALSE
  <2>1. Player!Due(v11'[i], v6', v2', v1')
    BY <1>1, <1>10 DEF Advances, AllDue, m
  <2> QED BY <2>1, <1>10 DEF Player!Due, Player!PlaybackAssumption
<1>11. Player!Relocked'
  <2> SUFFICES ASSUME Locked', v3'.source.grant # 0, v11'[v3'.source.grant].by = "player" PROVE FALSE
    BY DEF Advances, Types, Player!Relocked, Player!OfPlayer, Locked
  <2>1. v3'.source.grant \in 1..m
    BY <1>8
  <2>2. v3'.source # Player!NoSource
    BY DEF Player!NoSource
  <2>3. CASE v2' \in Callers /\ v3'.source.grant = v7'[v2']
    BY <1>5, <1>10, <2>1, <2>3 DEF Locked
  <2>4. CASE Locked /\ v3'.source = v3.source
    BY <1>4, <1>7, <2>4 DEF Player!IInv, Player!Relocked, Player!OfPlayer, Locked
  <2>5. v2' \in Callers
    BY DEF Advances, Types
  <2> QED BY <2>2, <2>3, <2>4, <2>5 DEF Advances, Relocks, Shows
<1>12. Player!TypeOK'
  <2>1. v7' \in [Callers -> 0..MaxSent]
    BY <1>1, <1>3 DEF Advances
  <2> QED BY <1>1, <2>1 DEF Advances, Types, WalletType, Player!TypeOK, m
<1>13. \A i \in DOMAIN v11' : Player!Due(v11'[i], v6', v2', v1')
  BY <1>1 DEF Advances, AllDue, m
<1>14. Player!Answers(v3.source.grant)' /\ \A t \in Callers : Player!Answers(v7[t])'
  BY <1>1, <1>3, <1>8 DEF Player!Answers
<1>15. (~v3.made => v3.source = Player!NoSource)'
  BY DEF Advances, Player!NoSource
<1>16. Player!Signed'
  BY DEF Advances, Types, Player!Signed
<1> QED BY <1>6, <1>9, <1>11, <1>12, <1>13, <1>14, <1>15, <1>16 DEF Player!IInv, Player!Due, Player!NoSource

LEMMA PlayerFacts ==
  ASSUME Player!PlaybackAssumption, Player!IInv
  PROVE  /\ Types /\ v11 \in Seq(Player!Request) /\ Len(v11) \in Nat /\ DOMAIN v11 = 1..Len(v11) /\ Len(v11) <= MaxSent
         /\ \A i \in 1..Len(v11) : v11[i] \in Player!Request
         /\ MaxSent \in Nat /\ v7 \in [Callers -> 0..MaxSent] /\ Nobody \notin Instances
         /\ AllDue(v11, v6, v2, v1) /\ Follow(v11, v11)
         /\ (~v3.made => v3.source = Player!NoSource) /\ (v3.source # Player!NoSource => v3.source.track = v2)
         /\ \A t \in Callers : v7[t] \in 0..Len(v11)
<1>1. v11 \in Seq(Player!Request) /\ Len(v11) <= MaxSent
  BY DEF Player!IInv, Player!TypeOK
<1>2. Len(v11) \in Nat /\ DOMAIN v11 = 1..Len(v11) /\ \A i \in 1..Len(v11) : v11[i] \in Player!Request
  BY <1>1, SeqIsFunction
<1>3. \A t \in Callers : v7[t] \in 0..Len(v11)
  BY <1>2 DEF Player!IInv, Player!TypeOK, Player!Answers
<1> QED BY <1>1, <1>2, <1>3, FollowsItself DEF Player!IInv, Player!TypeOK, Player!PlaybackAssumption, Player!Signed, WalletType, Types, AllDue, Player!SourceOfTrack

LEMMA SourceFor ==
  ASSUME Player!PlaybackAssumption, Player!IInv, NEW t \in Callers, NEW own
  PROVE  /\ Player!SrcFor(t, own) \in Player!Sources
         /\ Player!SrcFor(t, own) = Player!NoSource \/ (Player!SrcFor(t, own).track = t /\ Player!SrcFor(t, own).grant \in {0, v7[t]})
<1>1. v7[t] \in 0..MaxSent /\ MaxSent \in Nat
  BY PlayerFacts
<1> QED BY <1>1 DEF Player!SrcFor, Player!Sources, Player!NoSource, Player!Stream, Player!Preview

LEMMA ElementWith ==
  ASSUME Types, NEW source \in Player!Sources
  PROVE  /\ Player!LoadSource(source) \in [made : BOOLEAN, source : Player!Sources, error : BOOLEAN]
         /\ Player!LoadSource(source).made /\ Player!LoadSource(source).source = source
         /\ Player!Loaded(source) \in [made : BOOLEAN, source : Player!Sources, error : BOOLEAN]
         /\ Player!Loaded(source).made /\ Player!Loaded(source).source = source
BY DEF Types, Player!LoadSource, Player!Loaded

LEMMA TrackSet ==
  ASSUME Player!PlaybackAssumption, Player!IInv, NEW t \in v1, NEW own, Player!SetTrack(t, v11, own)
  PROVE  /\ v2' = t /\ v3' \in [made : BOOLEAN, source : Player!Sources, error : BOOLEAN] /\ v3'.made
         /\ v3'.source = Player!NoSource \/ (v3'.source.track = t /\ v3'.source.grant \in {0, v7[t]})
         /\ Follow(v11', v11) /\ AllDue(v11', v6, t, v1)
<1>f. Types /\ v11 \in Seq(Player!Request) /\ AllDue(v11, v6, v2, v1)
  BY PlayerFacts
<1>0. t \in Callers
  BY <1>f DEF Types
<1>1. v2' = t /\ v3' = Player!LoadSource(Player!SrcFor(t, own))
  BY DEF Player!SetTrack
<1>2. v3' \in [made : BOOLEAN, source : Player!Sources, error : BOOLEAN] /\ v3'.made /\ v3'.source = Player!SrcFor(t, own)
  BY <1>0, <1>1, <1>f, SourceFor, ElementWith
<1>3. /\ Follow(Player!Outdated(v11), v11) /\ Player!Outdated(v11) \in Seq(Player!Request)
      /\ AllDue(Player!Outdated(v11), v6, t, v1)
  BY <1>f, OutdatedDue DEF Follow
<1>4. CASE Player!CanRequest(t, own) /\ ~Player!Authorized(t)
  <2>1. v11' = Player!Asked(Player!Outdated(v11), t, "set") /\ v6 \in Instances
    BY <1>4, <1>f DEF Player!SetTrack, Player!CanRequest, Types
  <2>2. "set" \in Kinds
    BY DEF Kinds
  <2>3. Follow(v11', Player!Outdated(v11)) /\ AllDue(v11', v6, t, v1)
    BY <1>0, <1>3, <2>1, <2>2, AskedDue
  <2> QED BY <1>0, <1>1, <1>2, <1>3, <1>f, <2>3, FollowsTwice, SourceFor
<1>5. CASE ~(Player!CanRequest(t, own) /\ ~Player!Authorized(t))
  <2>1. v11' = Player!Outdated(v11)
    BY <1>5 DEF Player!SetTrack
  <2> QED BY <1>0, <1>1, <1>2, <1>3, <2>1, SourceFor
<1> QED BY <1>4, <1>5

\* Steps that touch neither the wallet nor the grants.
LEMMA QuietAdvance ==
  ASSUME Player!PlaybackAssumption, Player!IInv, Types', Follow(v11', v11), Len(v11') <= MaxSent, AllDue(v11', v6, v2', v1'),
         UNCHANGED <<v5, v6, v7>>, Shows, ~v3'.made => v3'.source = Player!NoSource
  PROVE  Advances
<1>1. v7 \in [Callers -> Nat]
  BY PlayerFacts
<1>2. Relocks
  BY DEF Relocks, Locked
<1>3. \A t \in Callers : Given(t)
  BY DEF Given
<1> QED BY <1>1, <1>2, <1>3 DEF Advances

LEMMA PlayAdvances ==
  ASSUME Player!PlaybackAssumption, Player!IInv, NEW t \in Callers, Player!Play(t) PROVE Advances
<1>f. /\ Types /\ v11 \in Seq(Player!Request) /\ AllDue(v11, v6, v2, v1) /\ Follow(v11, v11)
      /\ (~v3.made => v3.source = Player!NoSource) /\ Len(v11) <= MaxSent
  BY PlayerFacts
<1>1. t \in v1 /\ Len(v11') <= MaxSent /\ UNCHANGED <<v1, v4, v5, v6, v7, v8, v9, v10>>
  BY DEF Player!Play, Player!Within, Player!unaffected
<1>2. CASE Player!MustAsk(t)
  <2>1. UNCHANGED <<v2, v3>> /\ v11' = IF v6 = Nobody THEN v11 ELSE Player!Asked(v11, t, "play")
    BY <1>2 DEF Player!Play
  <2>2. "play" \in Kinds
    BY DEF Kinds
  <2>3. Follow(v11', v11) /\ AllDue(v11', v6, v2', v1')
    <3>1. CASE v6 = Nobody
      BY <1>1, <1>f, <2>1, <3>1
    <3>2. CASE v6 # Nobody
      <4>1. v6 \in Instances
        BY <1>f, <3>2 DEF Types
      <4> QED BY <1>1, <1>f, <2>1, <2>2, <3>2, <4>1, AskedDue
    <3> QED BY <3>1, <3>2
  <2>4. Types' /\ Shows /\ (~v3'.made => v3'.source = Player!NoSource)
    BY <1>1, <1>f, <2>1 DEF Types, Shows
  <2> QED BY <1>1, <2>3, <2>4, QuietAdvance
<1>3. CASE ~Player!MustAsk(t)
  <2>1. Player!SetTrack(t, v11, v4)
    BY <1>3 DEF Player!Play
  <2>2. /\ v2' = t /\ v3' \in [made : BOOLEAN, source : Player!Sources, error : BOOLEAN] /\ v3'.made
        /\ v3'.source = Player!NoSource \/ (v3'.source.track = t /\ v3'.source.grant \in {0, v7[t]})
        /\ Follow(v11', v11) /\ AllDue(v11', v6, t, v1)
    BY <1>1, <2>1, TrackSet
  <2>3. Types' /\ Shows
    BY <1>1, <1>f, <2>2 DEF Types, Shows
  <2> QED BY <1>1, <2>2, <2>3, QuietAdvance
<1> QED BY <1>2, <1>3

LEMMA SelectAdvances ==
  ASSUME Player!PlaybackAssumption, Player!IInv, NEW t \in Callers, Player!Select(t) PROVE Advances
<1>f. /\ Types /\ v11 \in Seq(Player!Request) /\ AllDue(v11, v6, v2, v1)
  BY PlayerFacts
<1>1. v1' = {t} /\ v2' = t /\ Len(v11') <= MaxSent /\ UNCHANGED <<v4, v5, v6, v7, v8, v9, v10>>
  BY DEF Player!Select, Player!Within, Player!unaffected
<1>2. /\ Follow(Player!Outdated(v11), v11) /\ Player!Outdated(v11) \in Seq(Player!Request)
      /\ AllDue(Player!Outdated(v11), v6, t, {t})
  BY <1>f, OutdatedDue DEF Follow
<1>3. Follow(v11', v11) /\ AllDue(v11', v6, t, {t})
  <2>1. CASE v11' = Player!Outdated(v11)
    BY <1>2, <2>1
  <2>2. CASE v11' = Player!Asked(Player!Outdated(v11), t, "play") /\ v6 # Nobody
    <3>1. v6 \in Instances /\ "play" \in Kinds
      BY <1>f, <2>2 DEF Types, Kinds
    <3>2. Follow(v11', Player!Outdated(v11)) /\ AllDue(v11', v6, t, {t})
      BY <1>2, <2>2, <3>1, AskedDue
    <3> QED BY <1>2, <1>f, <3>2, FollowsTwice
  <2> QED BY <2>1, <2>2 DEF Player!Select
<1>4. /\ v3' \in [made : BOOLEAN, source : Player!Sources, error : BOOLEAN]
      /\ ~v3'.made => v3'.source = Player!NoSource
      /\ v3'.source = Player!NoSource \/ (v3'.source.track = t /\ v3'.source.grant \in {0, v7[t]})
  <2>1. CASE Player!MustAsk(t)
    <3>1. v3' = [v3 EXCEPT !.source = Player!NoSource, !.error = FALSE]
      BY <2>1 DEF Player!Select
    <3> QED BY <3>1, <1>f DEF Types, Player!Sources
  <2>2. CASE ~Player!MustAsk(t)
    <3>1. v3' = Player!Loaded(Player!SrcFor(t, v4))
      BY <2>2 DEF Player!Select
    <3> QED BY <3>1, <1>f, SourceFor, ElementWith
  <2> QED BY <2>1, <2>2
<1>5. Types' /\ Shows
  BY <1>1, <1>f, <1>4 DEF Types, Shows
<1> QED BY <1>1, <1>3, <1>4, <1>5, QuietAdvance

LEMMA ResumeAdvances ==
  ASSUME Player!PlaybackAssumption, Player!IInv, Player!Resume PROVE Advances
<1>f. /\ Types /\ v11 \in Seq(Player!Request) /\ AllDue(v11, v6, v2, v1) /\ Follow(v11, v11)
      /\ (~v3.made => v3.source = Player!NoSource) /\ v2 \in v1 /\ v2 \in Callers
  BY PlayerFacts DEF Types
<1>1. Len(v11') <= MaxSent /\ UNCHANGED <<v1, v4, v5, v6, v7, v8, v9, v10>>
  BY DEF Player!Resume, Player!Within, Player!unaffected
<1>2. CASE Player!MustAsk(v2)
  <2>1. UNCHANGED <<v2, v3>> /\ v11' = IF v6 = Nobody THEN v11 ELSE Player!Asked(v11, v2, "resume")
    BY <1>2 DEF Player!Resume
  <2>2. Follow(v11', v11) /\ AllDue(v11', v6, v2', v1')
    <3>1. CASE v6 = Nobody
      BY <1>1, <1>f, <2>1, <3>1
    <3>2. CASE v6 # Nobody
      <4>1. v6 \in Instances /\ "resume" \in Kinds
        BY <1>f, <3>2 DEF Types, Kinds
      <4> QED BY <1>1, <1>f, <2>1, <3>2, <4>1, AskedDue
    <3> QED BY <3>1, <3>2
  <2>3. Types' /\ Shows /\ (~v3'.made => v3'.source = Player!NoSource)
    BY <1>1, <1>f, <2>1 DEF Types, Shows
  <2> QED BY <1>1, <2>2, <2>3, QuietAdvance
<1>3. CASE ~Player!MustAsk(v2) /\ v3.source = Player!NoSource
  <2>1. Player!SetTrack(v2, v11, v4)
    BY <1>3 DEF Player!Resume, Player!Resumed
  <2>2. /\ v2' = v2 /\ v3' \in [made : BOOLEAN, source : Player!Sources, error : BOOLEAN] /\ v3'.made
        /\ v3'.source = Player!NoSource \/ (v3'.source.track = v2 /\ v3'.source.grant \in {0, v7[v2]})
        /\ Follow(v11', v11) /\ AllDue(v11', v6, v2, v1)
    BY <1>f, <2>1, TrackSet
  <2>3. Types' /\ Shows
    BY <1>1, <1>f, <2>2 DEF Types, Shows
  <2> QED BY <1>1, <2>2, <2>3, QuietAdvance
<1>4. CASE ~Player!MustAsk(v2) /\ v3.source # Player!NoSource
  <2>1. /\ v2' = v2 /\ v11' = v11
        /\ v3' = IF Player!SrcFor(v2, v4) = Player!NoSource THEN v3 ELSE Player!LoadSource(Player!SrcFor(v2, v4))
    BY <1>4 DEF Player!Resume, Player!Resumed
  <2>2. v3' = v3 \/ (v3' \in [made : BOOLEAN, source : Player!Sources, error : BOOLEAN] /\ v3'.made /\ v3'.source = Player!SrcFor(v2, v4))
    BY <1>f, <2>1, SourceFor, ElementWith
  <2>3. Types' /\ Shows /\ (~v3'.made => v3'.source = Player!NoSource)
    BY <1>1, <1>f, <2>1, <2>2, SourceFor DEF Types, Shows
  <2> QED BY <1>1, <1>f, <2>1, <2>3, QuietAdvance
<1> QED BY <1>2, <1>3, <1>4

\* One request is answered.
Replaces(out, reqs, i, r, w, t, tracks) ==
  /\ reqs \in Seq(Player!Request) /\ i \in 1..Len(reqs) /\ r \in Player!Request /\ out = [reqs EXCEPT ![i] = r]
  /\ AllDue(reqs, w, t, tracks) /\ Player!Due(r, w, t, tracks)
  /\ r.by = "player" => reqs[i].by = "player" /\ r.wallet = reqs[i].wallet

LEMMA ReplacedDue ==
  ASSUME NEW out, NEW reqs, NEW i, NEW r, NEW w, NEW t, NEW tracks, Replaces(out, reqs, i, r, w, t, tracks)
  PROVE  out \in Seq(Player!Request) /\ Len(out) = Len(reqs) /\ out[i] = r /\ Follow(out, reqs) /\ AllDue(out, w, t, tracks)
<1> USE DEF Replaces
<1>1. /\ out \in Seq(Player!Request) /\ Len(out) = Len(reqs)
      /\ \A j \in 1..Len(reqs) : out[j] = IF j = i THEN r ELSE reqs[j]
  OBVIOUS
<1>2. Len(reqs) \in Nat
  BY SeqIsFunction
<1>3. Follow(out, reqs) /\ AllDue(out, w, t, tracks)
  BY <1>1, <1>2 DEF Follow, AllDue
<1> QED BY <1>1, <1>3

Shut(r) == [r EXCEPT !.shared = FALSE, !.pending = FALSE, !.tasks = <<>>]

LEMMA ShutDue ==
  ASSUME NEW r \in Player!Request, NEW w, NEW t, NEW tracks, Player!Due(r, w, t, tracks)
  PROVE  /\ Shut(r) \in Player!Request /\ Shut(r).by = r.by /\ Shut(r).wallet = r.wallet /\ Shut(r).track = r.track
         /\ Player!Due(Shut(r), w, t, tracks)
<1>1. <<>> \in Seq(Kinds)
  OBVIOUS
<1>2. /\ Shut(r) \in Player!Request /\ Shut(r).by = r.by /\ Shut(r).wallet = r.wallet /\ Shut(r).track = r.track
      /\ Shut(r).tasks = <<>> /\ ~Shut(r).shared
  BY <1>1 DEF Shut, Player!Request, Kinds
<1> QED BY <1>2, TaskSets DEF Player!Due

LEMMA FruitlessDue ==
  /\ Player!Fruitless \in Player!Request /\ Player!Fruitless.by # "player"
  /\ \A w, t, tracks : Player!Due(Player!Fruitless, w, t, tracks)
<1>1. <<>> \in Seq(Kinds)
  OBVIOUS
<1> QED BY <1>1, TaskSets DEF Player!Fruitless, Player!Request, Player!Due, Kinds

LEMMA DeniedAdvances ==
  ASSUME Player!PlaybackAssumption, Player!IInv, NEW i \in DOMAIN v11, v11' = [v11 EXCEPT ![i] = Player!Fruitless],
         UNCHANGED <<v1, v2, v3, v4, v5, v6, v7, v8, v9, v10>>
  PROVE  Advances
<1>f. /\ Types /\ v11 \in Seq(Player!Request) /\ AllDue(v11, v6, v2, v1) /\ i \in 1..Len(v11) /\ Len(v11) <= MaxSent
      /\ (~v3.made => v3.source = Player!NoSource)
  BY PlayerFacts
<1>1. v11' \in Seq(Player!Request) /\ Len(v11') = Len(v11) /\ Follow(v11', v11) /\ AllDue(v11', v6, v2, v1)
  <2>1. Replaces(v11', v11, i, Player!Fruitless, v6, v2, v1)
    BY <1>f, FruitlessDue DEF Replaces
  <2> QED BY <2>1, ReplacedDue
<1>2. Types' /\ Shows
  BY <1>f DEF Types, Shows
<1> QED BY <1>f, <1>1, <1>2, QuietAdvance

LEMMA UnlockAdvances ==
  ASSUME Player!PlaybackAssumption, Player!IInv, NEW t \in Callers, Player!Unlock(t) PROVE Advances
<1> DEFINE new == [track |-> t, wallet |-> v6, by |-> "page", shared |-> FALSE, pending |-> TRUE, tasks |-> <<>>]
<1>f. /\ Types /\ v11 \in Seq(Player!Request) /\ Len(v11) \in Nat /\ AllDue(v11, v6, v2, v1)
      /\ (~v3.made => v3.source = Player!NoSource)
  BY PlayerFacts
<1>1. /\ Len(v11') <= MaxSent /\ UNCHANGED <<v1, v2, v3, v4, v5, v6, v7, v8, v9, v10>>
      /\ v11' = Append(v11, new) /\ v6 \in Instances
  BY <1>f DEF Player!Unlock, Player!Within, Player!unaffected, Types
<1>2. new \in Player!Request /\ Player!Due(new, v6, v2, v1)
  <2>1. <<>> \in Seq(Kinds)
    OBVIOUS
  <2> QED BY <1>1, <2>1, TaskSets DEF Player!Request, Player!Due, Kinds
<1> HIDE DEF new
<1>3. /\ v11' \in Seq(Player!Request) /\ Len(v11') = Len(v11) + 1 /\ v11'[Len(v11) + 1] = new
      /\ \A j \in 1..Len(v11) : v11'[j] = v11[j]
  BY <1>1, <1>2, <1>f, SeqAppended
<1>4. Follow(v11', v11)
  BY <1>f, <1>3 DEF Follow
<1>5. ASSUME NEW j \in 1..Len(v11') PROVE Player!Due(v11'[j], v6, v2, v1)
  <2>1. j \in 1..Len(v11) \/ j = Len(v11) + 1
    BY <1>f, <1>3
  <2> QED BY <1>f, <1>2, <1>3, <2>1 DEF AllDue
<1>6. Types' /\ Shows
  BY <1>1, <1>f DEF Types, Shows
<1> QED BY <1>1, <1>4, <1>5, <1>6, <1>f, QuietAdvance DEF AllDue

\* A grant arrives, for the player or for a page.
LEMMA StreamShown ==
  ASSUME Player!PlaybackAssumption, Player!IInv, NEW t \in Callers, NEW i \in 1..Len(v11)
  PROVE  /\ Player!Loaded(Player!Stream(t, i)) \in [made : BOOLEAN, source : Player!Sources, error : BOOLEAN]
         /\ Player!Loaded(Player!Stream(t, i)).made
         /\ Player!Loaded(Player!Stream(t, i)).source.track = t /\ Player!Loaded(Player!Stream(t, i)).source.grant = i
<1>f. MaxSent \in Nat /\ Len(v11) \in Nat /\ Len(v11) <= MaxSent
  BY PlayerFacts
<1> QED BY <1>f DEF Player!Loaded, Player!Stream, Player!Sources

LEMMA GrantedAdvances ==
  ASSUME Player!PlaybackAssumption, Player!IInv, NEW i \in DOMAIN v11, Player!Granted(i) PROVE Advances
<1>f. /\ Types /\ v11 \in Seq(Player!Request) /\ AllDue(v11, v6, v2, v1) /\ i \in 1..Len(v11) /\ Len(v11) <= MaxSent
      /\ (~v3.made => v3.source = Player!NoSource) /\ v7 \in [Callers -> 0..MaxSent] /\ MaxSent \in Nat
      /\ (\A t \in Callers : v7[t] \in 0..Len(v11)) /\ v11[i] \in Player!Request /\ Len(v11) \in Nat
  BY PlayerFacts
<1>u. UNCHANGED <<v1, v4, v5, v6, v10>> /\ v11[i].by = "player"
  BY DEF Player!Granted
<1>1. CASE ~Player!Stored(i)
  <2>1. v11' = [v11 EXCEPT ![i] = Player!Fruitless] /\ UNCHANGED <<v2, v3, v7, v8, v9>>
    BY <1>1 DEF Player!Granted
  <2> QED BY <1>u, <2>1, DeniedAdvances
<1>2. CASE Player!Stored(i)
  <2> DEFINE t == v11[i].track
  <2>d. Player!Due(v11[i], v6, v2, v1)
    BY <1>f DEF AllDue
  <2>t. t \in Callers /\ v11[i].wallet = v6 /\ v6 \in Instances /\ (v11[i].tasks # <<>> => t \in v1)
    BY <2>d, <1>2, <1>u DEF Player!Due, Player!Stored
  <2>1. /\ v7' = [v7 EXCEPT ![t] = i] /\ v8' = v8 \cup {t} /\ v9' = v9 \ {t}
        /\ v3' = IF v11[i].tasks = <<>> THEN v3 ELSE Player!Loaded(Player!Stream(t, i))
        /\ v2' = IF Player!SetsTrack(i) THEN t ELSE v2
        /\ v11' = IF Player!SetsTrack(i) THEN Player!Outdated(Player!Closed(v11, i)) ELSE Player!Closed(v11, i)
    BY <1>2 DEF Player!Granted
  <2> HIDE DEF t
  <2>2. Player!Closed(v11, i) = [v11 EXCEPT ![i] = Shut(v11[i])]
    BY DEF Player!Closed, Shut
  <2>3. /\ Player!Closed(v11, i) \in Seq(Player!Request) /\ Len(Player!Closed(v11, i)) = Len(v11)
        /\ Player!Closed(v11, i)[i] = Shut(v11[i])
        /\ Follow(Player!Closed(v11, i), v11) /\ AllDue(Player!Closed(v11, i), v6, v2, v1)
    <3>1. /\ Shut(v11[i]) \in Player!Request /\ Shut(v11[i]).by = v11[i].by /\ Shut(v11[i]).wallet = v11[i].wallet
          /\ Player!Due(Shut(v11[i]), v6, v2, v1)
      BY <1>f, <2>d, ShutDue
    <3>2. Replaces(Player!Closed(v11, i), v11, i, Shut(v11[i]), v6, v2, v1)
      BY <1>f, <2>d, <2>2, <3>1 DEF Replaces
    <3> QED BY <3>2, ReplacedDue
  <2>4. Follow(v11', v11) /\ AllDue(v11', v6, v2', v1') /\ Len(v11') = Len(v11)
    <3>1. CASE Player!SetsTrack(i)
      <4>1. /\ v11' = Player!Outdated(Player!Closed(v11, i)) /\ Follow(v11', Player!Closed(v11, i)) /\ Len(v11') = Len(v11)
            /\ AllDue(v11', v6, v2', v1')
        BY <2>1, <2>3, <3>1, OutdatedDue
      <4> QED BY <4>1, <2>3, <1>f, FollowsTwice
    <3>2. CASE ~Player!SetsTrack(i)
      BY <2>1, <2>3, <1>u, <3>2
    <3> QED BY <3>1, <3>2
  <2>5. v11'[i].by = "player" => v11'[i].wallet = v6'
    BY <2>4, <1>f, <2>t, <1>u DEF Follow
  <2>6. \A u \in Callers : Given(u)
    <3>1. \A u \in Callers : v7'[u] = IF u = t THEN i ELSE v7[u]
      BY <1>f, <2>1
    <3> QED BY <3>1, <2>5, <1>f, <1>u DEF Given
  <2>7. v7' \in [Callers -> Nat] /\ v7'[t] = i
    BY <1>f, <2>1, <2>t
  <2>8. v11[i].tasks # <<>> /\ ~Player!SetsTrack(i) => t = v2
    <3>1. SUFFICES ASSUME v11[i].tasks # <<>>, ~Player!SetsTrack(i) PROVE Player!ToSet(v11[i].tasks) \ {"play"} # {}
      BY <2>d DEF Player!Due, t
    <3>2. v11[i].tasks \in Seq(Kinds) /\ DOMAIN v11[i].tasks = 1..Len(v11[i].tasks) /\ Len(v11[i].tasks) \in Nat \ {0}
      BY <1>f, <3>1, SeqIsFunction DEF Player!Request, Kinds
    <3>3. v11[i].tasks[1] \in Player!ToSet(v11[i].tasks)
      BY <3>2 DEF Player!ToSet
    <3> QED BY <3>1, <3>3 DEF Player!SetsTrack
  <2>9. CASE v11[i].tasks = <<>>
    <3>1. ~Player!SetsTrack(i)
      BY <2>9, TaskSets DEF Player!SetsTrack
    <3>2. v3' = v3 /\ v2' = v2
      BY <2>1, <2>9, <3>1
    <3>3. Types' /\ Shows /\ Relocks /\ (~v3'.made => v3'.source = Player!NoSource)
      BY <3>2, <1>f, <1>u, <2>1, <2>t DEF Types, Shows, Relocks, Locked
    <3> QED BY <3>3, <1>f, <1>u, <2>4, <2>6, <2>7 DEF Advances
  <2>10. CASE v11[i].tasks # <<>>
    <3>1. v2' = t
      BY <2>1, <2>8, <2>10
    <3>2. /\ v3' \in [made : BOOLEAN, source : Player!Sources, error : BOOLEAN] /\ v3'.made
          /\ v3'.source.track = t /\ v3'.source.grant = i
      BY <2>1, <2>10, <2>t, <1>f, StreamShown
    <3>3. Types' /\ Shows /\ Relocks
      BY <3>1, <3>2, <1>f, <1>u, <2>1, <2>t, <2>7, <2>10 DEF Types, Shows, Relocks, Locked
    <3> QED BY <3>2, <3>3, <1>f, <1>u, <2>4, <2>6, <2>7 DEF Advances
  <2> QED BY <2>9, <2>10
<1> QED BY <1>1, <1>2

LEMMA UnlockGrantedAdvances ==
  ASSUME Player!PlaybackAssumption, Player!IInv, NEW i \in DOMAIN v11, Player!UnlockGranted(i) PROVE Advances
<1> DEFINE t == v11[i].track
<1>f. /\ Types /\ v11 \in Seq(Player!Request) /\ AllDue(v11, v6, v2, v1) /\ i \in 1..Len(v11) /\ Len(v11) <= MaxSent
      /\ v7 \in [Callers -> 0..MaxSent] /\ MaxSent \in Nat
      /\ (\A u \in Callers : v7[u] \in 0..Len(v11)) /\ v11[i] \in Player!Request /\ Len(v11) \in Nat
  BY PlayerFacts
<1>1. /\ UNCHANGED <<v4, v5, v6, v10>> /\ v11[i].by = "page"
      /\ v7' = [v7 EXCEPT ![t] = i] /\ v8' = v8 \cup {t} /\ v9' = v9 \ {t}
      /\ v1' = {t} /\ v2' = t /\ v3' = Player!Loaded(Player!Stream(t, i))
      /\ v11' = Player!Outdated(Player!Closed(v11, i))
  BY DEF Player!UnlockGranted
<1>d. Player!Due(v11[i], v6, v2, v1)
  BY <1>f DEF AllDue
<1>t. t \in Callers
  BY <1>1, <1>d DEF Player!Due
<1> HIDE DEF t
<1>2. /\ Player!Closed(v11, i) \in Seq(Player!Request) /\ Len(Player!Closed(v11, i)) = Len(v11)
      /\ Follow(Player!Closed(v11, i), v11) /\ AllDue(Player!Closed(v11, i), v6, v2, v1)
  <2>1. Player!Closed(v11, i) = [v11 EXCEPT ![i] = Shut(v11[i])]
    BY DEF Player!Closed, Shut
  <2>2. /\ Shut(v11[i]) \in Player!Request /\ Shut(v11[i]).by = v11[i].by /\ Shut(v11[i]).wallet = v11[i].wallet
        /\ Player!Due(Shut(v11[i]), v6, v2, v1)
    BY <1>f, <1>d, ShutDue
  <2>3. Replaces(Player!Closed(v11, i), v11, i, Shut(v11[i]), v6, v2, v1)
    BY <1>f, <1>d, <2>1, <2>2 DEF Replaces
  <2> QED BY <2>3, ReplacedDue
<1>3. Follow(v11', v11) /\ AllDue(v11', v6, v2', v1') /\ Len(v11') = Len(v11)
  <2>1. Follow(v11', Player!Closed(v11, i)) /\ AllDue(v11', v6, v2', v1') /\ Len(v11') = Len(v11)
    BY <1>1, <1>2, OutdatedDue
  <2> QED BY <2>1, <1>2, <1>f, FollowsTwice
<1>4. v11'[i].by # "player"
  BY <1>1, <1>3, <1>f DEF Follow
<1>5. (\A u \in Callers : Given(u)) /\ v7' \in [Callers -> Nat] /\ v7'[t] = i
  <2>1. \A u \in Callers : v7'[u] = IF u = t THEN i ELSE v7[u]
    BY <1>f, <1>1
  <2>2. v7' \in [Callers -> Nat]
    <3>1. v7 \in [Callers -> Nat] /\ i \in Nat
      BY <1>f
    <3> QED BY <3>1, <1>1
  <2> QED BY <2>1, <2>2, <1>4, <1>f, <1>1, <1>t DEF Given
<1>6. /\ v3' \in [made : BOOLEAN, source : Player!Sources, error : BOOLEAN] /\ v3'.made
      /\ v3'.source.track = t /\ v3'.source.grant = i
  BY <1>1, <1>t, <1>f, StreamShown
<1>7. Types' /\ Shows /\ Relocks
  BY <1>1, <1>5, <1>6, <1>f, <1>t DEF Types, Shows, Relocks, Locked
<1> QED BY <1>1, <1>3, <1>5, <1>6, <1>7, <1>f DEF Advances

\* The wallet.
LEMMA SignInAdvances ==
  ASSUME Player!PlaybackAssumption, Player!IInv, NEW w \in Instances, Player!SignedIn(w) PROVE Advances
<1>f. /\ Types /\ v11 \in Seq(Player!Request) /\ AllDue(v11, v6, v2, v1) /\ Follow(v11, v11) /\ Len(v11) <= MaxSent
      /\ (~v3.made => v3.source = Player!NoSource) /\ v7 \in [Callers -> 0..MaxSent] /\ MaxSent \in Nat
      /\ Nobody \notin Instances
  BY PlayerFacts
<1>1. /\ UNCHANGED <<v1, v2, v3, v4, v10>> /\ Player!Authorize(w) /\ v6' = w
      /\ v5' = [v5 EXCEPT !.signing = @ \ {w}, !.late = @ \/ v5.account = Nobody]
  BY DEF Player!SignedIn, Player!Authorize
<1>2. Types' /\ Shows /\ Relocks
  <2>1. v5' \in WalletType /\ v5'.account = v5.account /\ (v5.account = Nobody => v5'.late)
    BY <1>1, <1>f DEF Types, WalletType
  <2> QED BY <2>1, <1>1, <1>f DEF Types, Shows, Relocks, Locked, Player!Authorize
<1>3. CASE w = v6
  <2>1. UNCHANGED <<v6, v7, v8, v9, v11>>
    BY <1>1, <1>3 DEF Player!Authorize
  <2>2. (\A t \in Callers : Given(t)) /\ v7' \in [Callers -> Nat]
    BY <2>1, <1>f DEF Given
  <2> QED BY <1>1, <1>2, <1>f, <2>1, <2>2 DEF Advances
<1>4. CASE w # v6
  <2>1. v7' = Player!NoGrants /\ v11' = Player!Outdated(Player!Dropped(v11))
    BY <1>1, <1>4 DEF Player!Authorize
  <2>2. (\A t \in Callers : Given(t)) /\ v7' \in [Callers -> Nat]
    BY <2>1 DEF Given, Player!NoGrants
  <2>3. /\ Player!Dropped(v11) \in Seq(Player!Request) /\ Follow(Player!Dropped(v11), v11) /\ Len(Player!Dropped(v11)) = Len(v11)
        /\ AllDue(Player!Dropped(v11), w, v2, v1)
    BY <1>f, DroppedDue DEF Follow
  <2>4. Follow(v11', Player!Dropped(v11)) /\ Len(v11') = Len(v11) /\ AllDue(v11', v6', v2', v1')
    BY <1>1, <2>1, <2>3, OutdatedDue
  <2>5. Follow(v11', v11)
    BY <1>f, <2>3, <2>4, FollowsTwice
  <2> QED BY <1>1, <1>2, <1>f, <2>2, <2>4, <2>5 DEF Advances
<1> QED BY <1>3, <1>4

\* A change of account or chain, and a disconnection.
LEMMA ClearAdvances ==
  ASSUME Player!PlaybackAssumption, Player!IInv, Player!ClearAuthentication, UNCHANGED <<v1, v2, v3, v4, v10>>,
         v5' \in WalletType,
         v5'.account # Nobody \/ v5'.clearing \/ v5' = v5
  PROVE  Advances
<1>f. /\ Types /\ v11 \in Seq(Player!Request) /\ AllDue(v11, v6, v2, v1) /\ Len(v11) <= MaxSent
      /\ (~v3.made => v3.source = Player!NoSource)
  BY PlayerFacts
<1>1. v6' = Nobody /\ v7' = Player!NoGrants /\ v8' = {} /\ v9' = {}
  BY DEF Player!ClearAuthentication
<1>2. Types' /\ Shows /\ Relocks
  BY <1>1, <1>f DEF Types, Shows, Relocks, Locked
<1>3. (\A t \in Callers : Given(t)) /\ v7' \in [Callers -> Nat]
  BY <1>1 DEF Given, Player!NoGrants
<1>4. /\ Player!Dropped(v11) \in Seq(Player!Request) /\ Follow(Player!Dropped(v11), v11) /\ Len(Player!Dropped(v11)) = Len(v11)
      /\ AllDue(Player!Dropped(v11), Nobody, v2, v1)
  BY <1>f, DroppedDue DEF Follow
<1>5. /\ Follow(Player!Outdated(Player!Dropped(v11)), Player!Dropped(v11)) /\ Len(Player!Outdated(Player!Dropped(v11))) = Len(v11)
      /\ AllDue(Player!Outdated(Player!Dropped(v11)), Nobody, v2, v1)
  BY <1>4, OutdatedDue
<1>6. Follow(Player!Outdated(Player!Dropped(v11)), v11)
  BY <1>f, <1>4, <1>5, FollowsTwice
<1>7. v11' = Player!Dropped(v11) \/ v11' = Player!Outdated(Player!Dropped(v11))
  BY DEF Player!ClearAuthentication
<1>8. Follow(v11', v11) /\ Len(v11') <= MaxSent /\ AllDue(v11', v6', v2', v1')
  BY <1>1, <1>4, <1>5, <1>6, <1>7, <1>f
<1> QED BY <1>2, <1>3, <1>8, <1>f DEF Advances

LEMMA OwnershipAdvances ==
  ASSUME Player!PlaybackAssumption, Player!IInv, NEW tracks \in SUBSET Callers, Player!SetOwnership(tracks) PROVE Advances
<1>f. /\ Types /\ v11 \in Seq(Player!Request) /\ AllDue(v11, v6, v2, v1) /\ Follow(v11, v11) /\ v2 \in v1
      /\ (~v3.made => v3.source = Player!NoSource) /\ v7 \in [Callers -> 0..MaxSent] /\ MaxSent \in Nat
  BY PlayerFacts DEF Types
<1>1. /\ UNCHANGED <<v1, v6, v7, v8, v9, v10>> /\ Len(v11') <= MaxSent
      /\ v4' = tracks /\ v5' = [v5 EXCEPT !.clearing = FALSE]
  BY DEF Player!SetOwnership, Player!Within
<1>2. (\A t \in Callers : Given(t)) /\ v7' \in [Callers -> Nat]
  BY <1>1, <1>f DEF Given
<1>5. v5' \in WalletType /\ v5'.account = v5.account /\ v5'.late = v5.late
  BY <1>1, <1>f DEF Types, WalletType
<1>3. CASE v3.made
  <2>1. Player!SetTrack(v2, v11, tracks)
    BY <1>3 DEF Player!SetOwnership
  <2>2. /\ v2' = v2 /\ v3' \in [made : BOOLEAN, source : Player!Sources, error : BOOLEAN] /\ v3'.made
        /\ v3'.source = Player!NoSource \/ (v3'.source.track = v2 /\ v3'.source.grant \in {0, v7[v2]})
        /\ Follow(v11', v11) /\ AllDue(v11', v6, v2, v1)
    BY <1>f, <2>1, TrackSet
  <2>3. Types' /\ Shows /\ Relocks
    BY <1>1, <1>5, <1>f, <2>2 DEF Types, Shows, Relocks
  <2> QED BY <1>1, <1>2, <2>2, <2>3 DEF Advances
<1>4. CASE ~v3.made
  <2>1. UNCHANGED <<v2, v3, v11>>
    BY <1>4 DEF Player!SetOwnership
  <2>2. Types' /\ Shows /\ Relocks
    BY <1>1, <1>5, <1>f, <1>4, <2>1 DEF Types, Shows, Relocks
  <2> QED BY <1>1, <1>2, <1>f, <2>1, <2>2 DEF Advances
<1> QED BY <1>3, <1>4

\* The element fails.
LEMMA BreakAdvances ==
  ASSUME Player!PlaybackAssumption, Player!IInv, Player!Break PROVE Advances
<1>f. /\ Types /\ v11 \in Seq(Player!Request) /\ AllDue(v11, v6, v2, v1) /\ Follow(v11, v11) /\ v2 \in v1 /\ v2 \in Callers
      /\ (~v3.made => v3.source = Player!NoSource) /\ v7 \in [Callers -> 0..MaxSent] /\ MaxSent \in Nat
  BY PlayerFacts DEF Types
<1>1. /\ UNCHANGED <<v1, v2, v4, v5, v6, v8>> /\ Len(v11') <= MaxSent /\ v3' = [v3 EXCEPT !.error = TRUE]
  BY DEF Player!Break, Player!Within
<1>2. /\ v3' \in [made : BOOLEAN, source : Player!Sources, error : BOOLEAN] /\ v3'.source = v3.source
      /\ v3'.made = v3.made
  BY <1>1, <1>f DEF Types
<1>3. CASE /\ Player!Renewable /\ v10' = v10 \cup {v2} /\ v7' = [v7 EXCEPT ![v2] = 0] /\ v9' = v9 \ {v2}
           /\ v11' = Player!Asked(v11, v2, "renew")
  <2>1. v6 \in Instances /\ "renew" \in Kinds
    BY <1>3, <1>f DEF Player!Renewable, Types, Kinds
  <2>2. Follow(v11', v11) /\ AllDue(v11', v6, v2, v1)
    BY <1>3, <1>f, <2>1, AskedDue
  <2>3. v7' \in [Callers -> Nat] /\ \A t \in Callers : Given(t)
    <3>1. v7 \in [Callers -> Nat]
      BY <1>f
    <3>2. v7' \in [Callers -> Nat] /\ \A t \in Callers : v7'[t] = IF t = v2 THEN 0 ELSE v7[t]
      BY <1>3, <3>1
    <3> QED BY <1>1, <3>2 DEF Given
  <2>4. Types' /\ Shows /\ Relocks
    BY <1>1, <1>2, <1>3, <1>f DEF Types, Shows, Relocks, Locked
  <2> QED BY <1>1, <1>2, <1>f, <2>2, <2>3, <2>4 DEF Advances
<1>4. CASE UNCHANGED <<v10, v7, v9, v11>>
  <2>1. Types' /\ Shows
    BY <1>1, <1>2, <1>4, <1>f DEF Types, Shows
  <2> QED BY <1>1, <1>2, <1>4, <1>f, <2>1, QuietAdvance
<1> QED BY <1>3, <1>4 DEF Player!Break

LEMMA PlayerStarts == Player!PlaybackAssumption /\ Player!Init => Player!IInv
<1> SUFFICES ASSUME Player!PlaybackAssumption, Player!Init PROVE Player!IInv
  OBVIOUS
<1>1. Player!TypeOK
  <2>1. <<>> \in Seq(Player!Request) /\ Len(<<>>) = 0
    OBVIOUS
  <2> QED BY <2>1 DEF Player!Init, Player!TypeOK, Player!Sources, Player!NoGrants, Player!PlaybackAssumption
<1>2. Player!SourceOfTrack /\ Player!GrantsOfSession /\ Player!Relocked /\ Player!Signed
  BY DEF Player!Init, Player!Signed, Player!SourceOfTrack, Player!GrantsOfSession, Player!Relocked, Player!OfPlayer, Player!NoGrants, Player!NoSource
<1>3. DOMAIN v11 = {}
  BY DEF Player!Init
<1> QED BY <1>1, <1>2, <1>3 DEF Player!Init, Player!IInv, Player!Answers, Player!NoGrants, Player!NoSource

LEMMA PlayerKept == Player!PlaybackAssumption /\ Player!IInv /\ Player!Next => Player!IInv'
<1> SUFFICES ASSUME Player!PlaybackAssumption, Player!IInv, Player!Next PROVE Advances
  BY PlayerAdvances
<1>f. /\ Types /\ AllDue(v11, v6, v2, v1) /\ Follow(v11, v11) /\ Len(v11) <= MaxSent
      /\ (~v3.made => v3.source = Player!NoSource) /\ v7 \in [Callers -> 0..MaxSent] /\ MaxSent \in Nat
  BY PlayerFacts
<1>1. ASSUME NEW t \in Callers, Player!Expire(t) PROVE Advances
  <2>1. v9' = v9 \cup {t} /\ UNCHANGED <<v1, v2, v3, v4, v5, v6, v7, v8, v10, v11>>
    BY <1>1 DEF Player!Expire
  <2>2. Types' /\ Shows
    BY <1>f, <2>1 DEF Types, Shows
  <2> QED BY <1>f, <2>1, <2>2, QuietAdvance
<1>2. ASSUME NEW i \in DOMAIN v11, Player!Denied(i) PROVE Advances
  BY <1>2, DeniedAdvances DEF Player!Denied, Player!unaffected
<1>3. ASSUME UNCHANGED <<v1, v2, v3, v4, v6, v7, v8, v9, v10, v11>>,
             v5' \in WalletType,
             v5'.account # Nobody \/ (v5'.account = v5.account /\ v5'.clearing = v5.clearing /\ v5'.late = v5.late)
      PROVE  Advances
  <2>1. Types' /\ Shows /\ Relocks
    BY <1>f, <1>3 DEF Types, Shows, Relocks, Locked
  <2>2. (\A t \in Callers : Given(t)) /\ v7' \in [Callers -> Nat]
    BY <1>f, <1>3 DEF Given
  <2> QED BY <1>f, <1>3, <2>1, <2>2 DEF Advances
<1>4. ASSUME NEW w \in Instances, Player!Connect(w) PROVE Advances
  <2>1. /\ v5' = [v5 EXCEPT !.account = w, !.signing = @ \cup {w}, !.wired = TRUE, !.late = FALSE]
        /\ UNCHANGED <<v1, v2, v3, v4, v6, v7, v8, v9, v10, v11>>
    BY <1>4 DEF Player!Connect
  <2>2. v5' \in WalletType /\ v5'.account = w
    BY <1>f, <2>1 DEF Types, WalletType
  <2> QED BY <1>3, <2>1, <2>2 DEF Player!PlaybackAssumption
<1>5. ASSUME NEW w \in Instances, Player!SignInFails(w) PROVE Advances
  <2>1. v5' = [v5 EXCEPT !.signing = @ \ {w}] /\ UNCHANGED <<v1, v2, v3, v4, v6, v7, v8, v9, v10, v11>>
    BY <1>5 DEF Player!SignInFails
  <2>2. /\ v5' \in WalletType
        /\ v5'.account = v5.account /\ v5'.clearing = v5.clearing /\ v5'.late = v5.late
    BY <1>f, <2>1 DEF Types, WalletType
  <2> QED BY <1>3, <2>1, <2>2
<1>6. ASSUME NEW w \in Instances, Player!ChangeAccount(w) PROVE Advances
  <2>1. /\ v5' = [v5 EXCEPT !.account = w, !.late = FALSE]
        /\ UNCHANGED <<v1, v2, v3, v4, v10>> /\ Player!ClearAuthentication
    BY <1>6 DEF Player!ChangeAccount
  <2>2. v5' \in WalletType /\ v5'.account # Nobody
    BY <1>f, <2>1 DEF Types, WalletType, Player!PlaybackAssumption
  <2> QED BY <2>1, <2>2, ClearAdvances
<1>7. CASE Player!ChangeChain
  <2>1. UNCHANGED <<v1, v2, v3, v4, v5, v10>> /\ Player!ClearAuthentication
    BY <1>7 DEF Player!ChangeChain
  <2> QED BY <1>f, <2>1, ClearAdvances DEF Types
<1>8. CASE Player!LoseAccount \/ Player!Disconnect
  <2>1. /\ UNCHANGED <<v1, v2, v3, v4, v10>> /\ Player!ClearAuthentication
        /\ \/ v5' = [v5 EXCEPT !.account = Nobody, !.clearing = TRUE, !.late = FALSE]
           \/ v5' = [v5 EXCEPT !.account = Nobody, !.clearing = TRUE, !.wired = FALSE, !.late = FALSE]
    BY <1>8 DEF Player!LoseAccount, Player!Disconnect
  <2>2. v5' \in WalletType /\ v5'.clearing
    BY <1>f, <2>1 DEF Types, WalletType
  <2> QED BY <2>1, <2>2, ClearAdvances
<1> QED BY <1>1, <1>2, <1>4, <1>5, <1>6, <1>7, <1>8, PlayAdvances, SelectAdvances, UnlockAdvances, ResumeAdvances, BreakAdvances,
           GrantedAdvances, UnlockGrantedAdvances, SignInAdvances, OwnershipAdvances DEF Player!Next

\* The player's invariant holds in every behaviour.
LEMMA PlayerInvariant == SpecOne => [](part = "player" => Player!IInv)
<1> DEFINE Inv == part = "player" => Player!IInv
<1>1. InitOne => Inv
  BY Parameters, PlayerStarts DEF InitOne, Starts
<1>2. Inv /\ [NextOne]_allVars => Inv'
  <2> SUFFICES ASSUME Player!IInv, part = "player", [NextOne]_allVars PROVE Player!IInv'
    BY DEF NextOne, Steps, allVars
  <2>1. CASE Player!Next
    BY <2>1, Parameters, PlayerKept
  <2>2. CASE UNCHANGED Player!vars
    BY <2>2 DEF Player!vars, Player!IInv, Player!TypeOK, Player!SourceOfTrack, Player!GrantsOfSession, Player!Relocked,
      Player!Signed, Player!OfPlayer, Player!Answers
  <2> QED BY <2>1, <2>2, PlayerStep
<1> QED BY <1>1, <1>2, PTL DEF SpecOne

\* What sounds is a source of the track shown; of the grants the player asked for it keeps only those
\* of the wallet authorized now, and none is on the element once there is no account and the player
\* was told, unless a sign-in that outlived the account was taken since (src/lib/audio.js,
\* src/lib/WalletContext.jsx), for any number of tracks, wallets, requests and sign-ins under way.
THEOREM PlaybackAlwaysKept == SpecOne => []PlaybackKept
<1> DEFINE Inv == part = "player" => Player!IInv
<1>1. Inv => PlaybackKept
  BY DEF PlaybackKept, Player!IInv
<1>2. SpecOne => []Inv
  BY PlayerInvariant
<1> QED BY <1>1, <1>2, PTL
=============================================================================
