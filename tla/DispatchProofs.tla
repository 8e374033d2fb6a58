--------------------------- MODULE DispatchProofs ---------------------------
(***************************************************************************)
(* The proofs about Dispatch, for every policy and every server: the type  *)
(* invariant, the inductive invariant IInv, the safety properties that     *)
(* follow from it (among them what a call may sleep, and that its steps    *)
(* run out), and that Dispatch implements RemoteCall.                      *)
(***************************************************************************)
EXTENDS Dispatch, TLAPS

-----------------------------------------------------------------------------
(* The waits of the policy.                                                *)

LEMMA Powers == \A k \in 0..16 : 2^k \in Nat
<1>1. /\ 2^0 \in Nat /\ 2^1 \in Nat /\ 2^2 \in Nat /\ 2^3 \in Nat /\ 2^4 \in Nat
      /\ 2^5 \in Nat /\ 2^6 \in Nat /\ 2^7 \in Nat /\ 2^8 \in Nat /\ 2^9 \in Nat
      /\ 2^10 \in Nat /\ 2^11 \in Nat /\ 2^12 \in Nat /\ 2^13 \in Nat
      /\ 2^14 \in Nat /\ 2^15 \in Nat /\ 2^16 \in Nat
  OBVIOUS
<1>2. \A k \in 0..16 :
          k \in {0, 1, 2, 3, 4, 5, 6, 7, 8, 9, 10, 11, 12, 13, 14, 15, 16}
  OBVIOUS
<1>3. QED BY <1>1, <1>2

LEMMA Grown ==
    ASSUME NEW a \in Nat, NEW k \in 0..16, NEW b \in Nat
    PROVE  Lesser(a * 2^k, b) \in 0..b
<1>1. 2^k \in Nat
  BY Powers
<1>2. a * 2^k \in Nat
  BY <1>1
<1>3. QED BY <1>2 DEF Lesser

LEMMA LesserCaps ==
    ASSUME NEW a \in Nat, NEW b \in Nat
    PROVE  Lesser(a, b) \in 0..b
BY DEF Lesser

LEMMA Percent ==
    ASSUME NEW a \in Nat, NEW p \in Nat, NEW b \in Nat
    PROVE  Lesser((a * p) \div 100, b) \in 0..b
<1>1. a * p \in Nat
  OBVIOUS
<1>2. (a * p) \div 100 \in Nat
  BY <1>1
<1>3. QED BY <1>2 DEF Lesser

(* A computed backoff is at most MaxBackoff, jitter included.              *)
LEMMA BackoffCapped ==
    ASSUME NEW n \in Nat \ {0}
    PROVE  backoff(n) \subseteq 0..MaxBackoff
<1> DEFINE e == Lesser(n - 1, 16)
           base == Lesser(BaseDelay * 2^e, MaxBackoff)
           spread(percent) == Lesser((base * percent) \div 100, MaxBackoff)
<1>1. e \in 0..16
  <2>1. n - 1 \in Nat /\ 16 \in Nat
    OBVIOUS
  <2>2. QED BY <2>1, LesserCaps
<1> HIDE DEF e
<1>2. base \in 0..MaxBackoff
  BY <1>1, Grown, PolicyAssumption
<1>3. base \in Nat
  BY <1>2
<1> HIDE DEF base
<1>4. ASSUME NEW p \in Nat PROVE  spread(p) \in 0..MaxBackoff
  BY <1>3, Percent, PolicyAssumption
<1>5. 100 - JitterPercent \in Nat /\ 100 + JitterPercent \in Nat
  BY PolicyAssumption
<1> HIDE DEF spread
<1>6. {spread(100 - JitterPercent), spread(100 + JitterPercent)} \subseteq 0..MaxBackoff
  BY <1>4, <1>5
<1>7. backoff(n) = {spread(100 - JitterPercent), spread(100 + JitterPercent)}
  BY DEF backoff, spread, base, e
<1>8. QED BY <1>6, <1>7

Longest == Greater(MaxBackoff, MaxRetryAfter)

(* Whatever Retry-After a server sends, one wait is at most the larger cap.*)
LEMMA DelaysCapped ==
    ASSUME NEW n \in Nat \ {0}
    PROVE  /\ Longest \in Nat
           /\ backoff(n) \subseteq 0..Longest
           /\ StatusDelays(n) \subseteq 0..Longest
<1>1. Longest \in Nat /\ MaxBackoff <= Longest /\ MaxRetryAfter <= Longest
  BY PolicyAssumption DEF Longest, Greater
<1>2. \A x \in 0..MaxBackoff : x \in 0..Longest
  BY <1>1, PolicyAssumption
<1>3. \A d \in RetryAfters : Lesser(d, MaxRetryAfter) \in 0..MaxRetryAfter
  BY LesserCaps, PolicyAssumption
<1>4. \A d \in RetryAfters : Lesser(d, MaxRetryAfter) \in 0..Longest
  BY <1>1, <1>3, PolicyAssumption
<1>5. backoff(n) \subseteq 0..Longest
  BY <1>2, BackoffCapped
<1>6. QED BY <1>1, <1>4, <1>5 DEF StatusDelays

(* One wait more, and fewer waits are no longer.                           *)
LEMMA OneWaitMore ==
    ASSUME NEW k \in Int, NEW c \in Nat
    PROVE  (k - 1) * c + c = k * c
OBVIOUS

LEMMA FewerWaits ==
    ASSUME NEW k \in Nat, NEW m \in Nat, k <= m, NEW c \in Nat
    PROVE  k * c <= m * c
<1>1. PICK d \in Nat : m = k + d
  BY m - k \in Nat
<1>2. d * c \in Nat /\ k * c \in Nat
  OBVIOUS
<1>3. (k + d) * c = k * c + d * c
  OBVIOUS
<1>4. QED BY <1>1, <1>2, <1>3

USE PolicyAssumption

(* A wait of either kind adds one sleep of at most the larger cap.         *)
LEMMA OneSleep ==
    ASSUME TypeOK, NEW r \in Requests,
           Wait(r, StatusDelays(attempt[r])) \/ Wait(r, backoff(attempt[r]))
    PROVE  /\ pc' = [pc EXCEPT ![r] = "waiting"]
           /\ \E d \in 0..Longest : slept' = [slept EXCEPT ![r] = @ + d]
<1>1. attempt[r] \in Nat \ {0}
  BY DEF TypeOK, Attempts
<1>2. QED BY <1>1, DelaysCapped DEF Wait

LEMMA SleptStays ==
    ASSUME TypeOK, NEW r \in Requests,
           Wait(r, StatusDelays(attempt[r])) \/ Wait(r, backoff(attempt[r]))
    PROVE  slept' \in [Requests -> Nat]
<1>1. PICK d \in 0..Longest : slept' = [slept EXCEPT ![r] = @ + d]
  BY OneSleep
<1>2. d \in Nat
  BY DelaysCapped
<1>3. QED BY <1>1, <1>2 DEF TypeOK

-----------------------------------------------------------------------------
(* Each part of IInv survives every step. *)

LEMMA TypeStep ==
    ASSUME IInv, [Next]_vars
    PROVE  TypeOK'
<1> USE DEF IInv, TypeOK, Requests, Attempts, Fates, Statuses, NoAnswer, SameCall, AttemptsLeft
<1>1. ASSUME NEW r \in Requests, Send(r) PROVE TypeOK'
  BY <1>1 DEF Send
<1>2. ASSUME NEW r \in Requests, OnStatus(r) PROVE TypeOK'
  <2>1. CASE on_status(r, answer[r])
    BY <1>2, <2>1, SleptStays DEF OnStatus, Wait, on_status, BodyReplayable, MethodOf
  <2>2. CASE ~on_status(r, answer[r])
    BY <1>2, <2>2 DEF OnStatus, Return
  <2>3. QED BY <2>1, <2>2
<1>3. ASSUME NEW r \in Requests, OnTransport(r) PROVE TypeOK'
  <2>1. PICK kind \in TransportErrors :
          IF on_transport(r, kind) THEN Wait(r, backoff(attempt[r]))
                                   ELSE Return(r, "transport")
    BY <1>3 DEF OnTransport
  <2>2. CASE on_transport(r, kind)
    BY <1>3, <2>1, <2>2, SleptStays DEF OnTransport, Wait, on_transport, BodyReplayable, MethodOf
  <2>3. CASE ~on_transport(r, kind)
    BY <1>3, <2>1, <2>3 DEF OnTransport, Return
  <2>4. QED BY <2>2, <2>3
<1>4. ASSUME NEW r \in Requests, Wake(r) PROVE TypeOK'
  BY <1>4 DEF Wake
<1>5. ASSUME NEW r \in Requests, NEW n \in Attempts,
             Apply(r, n) \/ Refuse(r, n) \/ Limit(r, n) \/ Lose(r, n)
      PROVE  TypeOK'
  <2>1. fate' \in [Requests -> [Attempts -> Fates]]
    <3>1. PICK f \in Fates : fate' = [fate EXCEPT ![r][n] = f]
      BY <1>5 DEF Apply, Refuse, Limit, Lose, Handled
    <3>2. [fate[r] EXCEPT ![n] = f] \in [Attempts -> Fates]
      BY <3>1
    <3>3. QED BY <3>1, <3>2
  <2>2. answer' \in [Requests -> Statuses \union {NoAnswer}]
    <3>1. CASE Apply(r, n)
      BY <3>1 DEF Apply, Handled
    <3>2. CASE Refuse(r, n)
      BY <3>2 DEF Refuse, Handled
    <3>3. CASE Limit(r, n)
      BY <3>3 DEF Limit, Handled
    <3>4. CASE Lose(r, n)
      BY <3>4 DEF Lose, Handled
    <3>5. QED BY <1>5, <3>1, <3>2, <3>3, <3>4
  <2>3. QED
    BY <1>5, <2>1, <2>2 DEF Apply, Refuse, Limit, Lose, Handled
<1>6. ASSUME NEW r \in Requests, GatewayGivesUp(r) PROVE TypeOK'
  BY <1>6 DEF GatewayGivesUp
<1>7. CASE UNCHANGED vars
  BY <1>7 DEF vars
<1>8. QED
  BY <1>1, <1>2, <1>3, <1>4, <1>5, <1>6, <1>7 DEF Next, Client, Server

LEMMA AttemptsLeftStep ==
    ASSUME IInv, [Next]_vars
    PROVE  AttemptsLeft'
<1> USE DEF IInv, TypeOK, Requests, Attempts, Fates, Statuses, NoAnswer, SameCall, AttemptsLeft
<1>1. ASSUME NEW r \in Requests, Send(r) PROVE AttemptsLeft'
  BY <1>1 DEF Send
<1>2. ASSUME NEW r \in Requests, OnStatus(r) PROVE AttemptsLeft'
  <2>1. CASE on_status(r, answer[r])
    BY <1>2, <2>1 DEF OnStatus, Wait, on_status, BodyReplayable, MethodOf
  <2>2. CASE ~on_status(r, answer[r])
    BY <1>2, <2>2 DEF OnStatus, Return
  <2>3. QED BY <2>1, <2>2
<1>3. ASSUME NEW r \in Requests, OnTransport(r) PROVE AttemptsLeft'
  <2>1. PICK kind \in TransportErrors :
          IF on_transport(r, kind) THEN Wait(r, backoff(attempt[r]))
                                   ELSE Return(r, "transport")
    BY <1>3 DEF OnTransport
  <2>2. CASE on_transport(r, kind)
    BY <1>3, <2>1, <2>2 DEF OnTransport, Wait, on_transport, BodyReplayable, MethodOf
  <2>3. CASE ~on_transport(r, kind)
    BY <1>3, <2>1, <2>3 DEF OnTransport, Return
  <2>4. QED BY <2>2, <2>3
<1>4. ASSUME NEW r \in Requests, Wake(r) PROVE AttemptsLeft'
  BY <1>4 DEF Wake
<1>5. ASSUME NEW r \in Requests, NEW n \in Attempts,
             Apply(r, n) \/ Refuse(r, n) \/ Limit(r, n) \/ Lose(r, n)
      PROVE  AttemptsLeft'
  BY <1>5 DEF Apply, Refuse, Limit, Lose, Handled
<1>6. ASSUME NEW r \in Requests, GatewayGivesUp(r) PROVE AttemptsLeft'
  BY <1>6 DEF GatewayGivesUp
<1>7. CASE UNCHANGED vars
  BY <1>7 DEF vars
<1>8. QED
  BY <1>1, <1>2, <1>3, <1>4, <1>5, <1>6, <1>7 DEF Next, Client, Server

LEMMA FutureUnsentStep ==
    ASSUME IInv, [Next]_vars
    PROVE  FutureUnsent'
<1> USE DEF IInv, TypeOK, Requests, Attempts, Fates, Statuses, NoAnswer, SameCall, FutureUnsent, OutcomeIsAnswer
<1>1. ASSUME NEW r \in Requests, Send(r) PROVE FutureUnsent'
  BY <1>1 DEF Send
<1>2. ASSUME NEW r \in Requests, OnStatus(r) PROVE FutureUnsent'
  <2>1. CASE on_status(r, answer[r])
    BY <1>2, <2>1 DEF OnStatus, Wait, on_status, BodyReplayable, MethodOf
  <2>2. CASE ~on_status(r, answer[r])
    <3>1. Return(r, answer[r])
      BY <1>2, <2>2 DEF OnStatus
    <3>2. CASE r = "main" /\ answer[r] = "notFound" /\ probes
      <4>1. fate' = fate /\ attempt' = attempt
        BY <1>2 DEF OnStatus
      <4>2. pc' = [pc EXCEPT !["main"] = "probing", !["probe"] = "ready"]
        BY <3>1, <3>2 DEF Return
      <4>3. pc["main"] = "sent" /\ pc["probe"] = "idle" /\ attempt["probe"] = 1
        BY <1>2, <3>2 DEF OnStatus
      <4>4. QED BY <4>1, <4>2, <4>3
    <3>3. CASE r = "main" /\ ~(answer[r] = "notFound" /\ probes)
      BY <1>2, <3>1, <3>3 DEF OnStatus, Return
    <3>4. CASE r = "probe"
      <4>1. fate' = fate /\ attempt' = attempt
        BY <1>2 DEF OnStatus
      <4>2. \A q \in Requests : pc'[q] = "done"
        BY <3>1, <3>4 DEF Return
      <4>3. QED BY <4>1, <4>2
    <3>5. QED BY <3>2, <3>3, <3>4
  <2>3. QED BY <2>1, <2>2
<1>3. ASSUME NEW r \in Requests, OnTransport(r) PROVE FutureUnsent'
  <2>1. PICK kind \in TransportErrors :
          IF on_transport(r, kind) THEN Wait(r, backoff(attempt[r]))
                                   ELSE Return(r, "transport")
    BY <1>3 DEF OnTransport
  <2>2. CASE on_transport(r, kind)
    BY <1>3, <2>1, <2>2 DEF OnTransport, Wait, on_transport, BodyReplayable, MethodOf
  <2>3. CASE ~on_transport(r, kind)
    BY <1>3, <2>1, <2>3 DEF OnTransport, Return
  <2>4. QED BY <2>2, <2>3
<1>4. ASSUME NEW r \in Requests, Wake(r) PROVE FutureUnsent'
  BY <1>4 DEF Wake
<1>5. ASSUME NEW r \in Requests, NEW n \in Attempts,
             Apply(r, n) \/ Refuse(r, n) \/ Limit(r, n) \/ Lose(r, n)
      PROVE  FutureUnsent'
  BY <1>5 DEF Apply, Refuse, Limit, Lose, Handled
<1>6. ASSUME NEW r \in Requests, GatewayGivesUp(r) PROVE FutureUnsent'
  BY <1>6 DEF GatewayGivesUp
<1>7. CASE UNCHANGED vars
  BY <1>7 DEF vars
<1>8. QED
  BY <1>1, <1>2, <1>3, <1>4, <1>5, <1>6, <1>7 DEF Next, Client, Server

LEMMA PastTurnedAwayStep ==
    ASSUME IInv, [Next]_vars
    PROVE  PastTurnedAway'
<1> USE DEF IInv, TypeOK, Requests, Attempts, Fates, Statuses, NoAnswer, SameCall, PastTurnedAway, AnswerTruthful, FutureUnsent
<1>1. ASSUME NEW r \in Requests, Send(r) PROVE PastTurnedAway'
  BY <1>1 DEF Send
<1>2. ASSUME NEW r \in Requests, OnStatus(r) PROVE PastTurnedAway'
  <2>1. CASE on_status(r, answer[r])
    BY <1>2, <2>1 DEF OnStatus, Wait, on_status, BodyReplayable, MethodOf
  <2>2. CASE ~on_status(r, answer[r])
    BY <1>2, <2>2 DEF OnStatus, Return
  <2>3. QED BY <2>1, <2>2
<1>3. ASSUME NEW r \in Requests, OnTransport(r) PROVE PastTurnedAway'
  <2>1. PICK kind \in TransportErrors :
          IF on_transport(r, kind) THEN Wait(r, backoff(attempt[r]))
                                   ELSE Return(r, "transport")
    BY <1>3 DEF OnTransport
  <2>2. CASE on_transport(r, kind)
    BY <1>3, <2>1, <2>2 DEF OnTransport, Wait, on_transport, BodyReplayable, MethodOf
  <2>3. CASE ~on_transport(r, kind)
    BY <1>3, <2>1, <2>3 DEF OnTransport, Return
  <2>4. QED BY <2>2, <2>3
<1>4. ASSUME NEW r \in Requests, Wake(r) PROVE PastTurnedAway'
  BY <1>4 DEF Wake
<1>5. ASSUME NEW r \in Requests, NEW n \in Attempts,
             Apply(r, n) \/ Refuse(r, n) \/ Limit(r, n) \/ Lose(r, n)
      PROVE  PastTurnedAway'
  BY <1>5 DEF Apply, Refuse, Limit, Lose, Handled
<1>6. ASSUME NEW r \in Requests, GatewayGivesUp(r) PROVE PastTurnedAway'
  BY <1>6 DEF GatewayGivesUp
<1>7. CASE UNCHANGED vars
  BY <1>7 DEF vars
<1>8. QED
  BY <1>1, <1>2, <1>3, <1>4, <1>5, <1>6, <1>7 DEF Next, Client, Server

LEMMA AnswerTruthfulStep ==
    ASSUME IInv, [Next]_vars
    PROVE  AnswerTruthful'
<1> USE DEF IInv, TypeOK, Requests, Attempts, Fates, Statuses, NoAnswer, SameCall, AnswerTruthful, FutureUnsent, OutcomeIsAnswer
<1>1. ASSUME NEW r \in Requests, Send(r) PROVE AnswerTruthful'
  BY <1>1 DEF Send
<1>2. ASSUME NEW r \in Requests, OnStatus(r) PROVE AnswerTruthful'
  <2>1. CASE on_status(r, answer[r])
    BY <1>2, <2>1 DEF OnStatus, Wait, on_status, BodyReplayable, MethodOf
  <2>2. CASE ~on_status(r, answer[r])
    BY <1>2, <2>2 DEF OnStatus, Return
  <2>3. QED BY <2>1, <2>2
<1>3. ASSUME NEW r \in Requests, OnTransport(r) PROVE AnswerTruthful'
  <2>1. PICK kind \in TransportErrors :
          IF on_transport(r, kind) THEN Wait(r, backoff(attempt[r]))
                                   ELSE Return(r, "transport")
    BY <1>3 DEF OnTransport
  <2>2. CASE on_transport(r, kind)
    BY <1>3, <2>1, <2>2 DEF OnTransport, Wait, on_transport, BodyReplayable, MethodOf
  <2>3. CASE ~on_transport(r, kind)
    BY <1>3, <2>1, <2>3 DEF OnTransport, Return
  <2>4. QED BY <2>2, <2>3
<1>4. ASSUME NEW r \in Requests, Wake(r) PROVE AnswerTruthful'
  BY <1>4 DEF Wake
<1>5. ASSUME NEW r \in Requests, NEW n \in Attempts,
             Apply(r, n) \/ Refuse(r, n) \/ Limit(r, n) \/ Lose(r, n)
      PROVE  AnswerTruthful'
  BY <1>5 DEF Apply, Refuse, Limit, Lose, Handled
<1>6. ASSUME NEW r \in Requests, GatewayGivesUp(r) PROVE AnswerTruthful'
  BY <1>6 DEF GatewayGivesUp
<1>7. CASE UNCHANGED vars
  BY <1>7 DEF vars
<1>8. QED
  BY <1>1, <1>2, <1>3, <1>4, <1>5, <1>6, <1>7 DEF Next, Client, Server

LEMMA OutcomeIsAnswerStep ==
    ASSUME IInv, [Next]_vars
    PROVE  OutcomeIsAnswer'
<1> USE DEF IInv, TypeOK, Requests, Attempts, Fates, Statuses, NoAnswer, SameCall, OutcomeIsAnswer
<1>1. ASSUME NEW r \in Requests, Send(r) PROVE OutcomeIsAnswer'
  BY <1>1 DEF Send
<1>2. ASSUME NEW r \in Requests, OnStatus(r) PROVE OutcomeIsAnswer'
  <2>1. CASE on_status(r, answer[r])
    BY <1>2, <2>1 DEF OnStatus, Wait, on_status, BodyReplayable, MethodOf
  <2>2. CASE ~on_status(r, answer[r])
    BY <1>2, <2>2 DEF OnStatus, Return
  <2>3. QED BY <2>1, <2>2
<1>3. ASSUME NEW r \in Requests, OnTransport(r) PROVE OutcomeIsAnswer'
  <2>1. PICK kind \in TransportErrors :
          IF on_transport(r, kind) THEN Wait(r, backoff(attempt[r]))
                                   ELSE Return(r, "transport")
    BY <1>3 DEF OnTransport
  <2>2. CASE on_transport(r, kind)
    BY <1>3, <2>1, <2>2 DEF OnTransport, Wait, on_transport, BodyReplayable, MethodOf
  <2>3. CASE ~on_transport(r, kind)
    BY <1>3, <2>1, <2>3 DEF OnTransport, Return
  <2>4. QED BY <2>2, <2>3
<1>4. ASSUME NEW r \in Requests, Wake(r) PROVE OutcomeIsAnswer'
  BY <1>4 DEF Wake
<1>5. ASSUME NEW r \in Requests, NEW n \in Attempts,
             Apply(r, n) \/ Refuse(r, n) \/ Limit(r, n) \/ Lose(r, n)
      PROVE  OutcomeIsAnswer'
  BY <1>5 DEF Apply, Refuse, Limit, Lose, Handled
<1>6. ASSUME NEW r \in Requests, GatewayGivesUp(r) PROVE OutcomeIsAnswer'
  BY <1>6 DEF GatewayGivesUp
<1>7. CASE UNCHANGED vars
  BY <1>7 DEF vars
<1>8. QED
  BY <1>1, <1>2, <1>3, <1>4, <1>5, <1>6, <1>7 DEF Next, Client, Server

LEMMA OneBodyStep ==
    ASSUME IInv, [Next]_vars
    PROVE  OneBody'
<1> USE DEF IInv, TypeOK, Requests, Attempts, Fates, Statuses, NoAnswer, SameCall, OneBody
<1>1. ASSUME NEW r \in Requests, Send(r) PROVE OneBody'
  BY <1>1 DEF Send
<1>2. ASSUME NEW r \in Requests, OnStatus(r) PROVE OneBody'
  <2>1. CASE on_status(r, answer[r])
    BY <1>2, <2>1 DEF OnStatus, Wait, on_status, BodyReplayable, MethodOf
  <2>2. CASE ~on_status(r, answer[r])
    BY <1>2, <2>2 DEF OnStatus, Return
  <2>3. QED BY <2>1, <2>2
<1>3. ASSUME NEW r \in Requests, OnTransport(r) PROVE OneBody'
  <2>1. PICK kind \in TransportErrors :
          IF on_transport(r, kind) THEN Wait(r, backoff(attempt[r]))
                                   ELSE Return(r, "transport")
    BY <1>3 DEF OnTransport
  <2>2. CASE on_transport(r, kind)
    BY <1>3, <2>1, <2>2 DEF OnTransport, Wait, on_transport, BodyReplayable, MethodOf
  <2>3. CASE ~on_transport(r, kind)
    BY <1>3, <2>1, <2>3 DEF OnTransport, Return
  <2>4. QED BY <2>2, <2>3
<1>4. ASSUME NEW r \in Requests, Wake(r) PROVE OneBody'
  BY <1>4 DEF Wake
<1>5. ASSUME NEW r \in Requests, NEW n \in Attempts,
             Apply(r, n) \/ Refuse(r, n) \/ Limit(r, n) \/ Lose(r, n)
      PROVE  OneBody'
  BY <1>5 DEF Apply, Refuse, Limit, Lose, Handled
<1>6. ASSUME NEW r \in Requests, GatewayGivesUp(r) PROVE OneBody'
  BY <1>6 DEF GatewayGivesUp
<1>7. CASE UNCHANGED vars
  BY <1>7 DEF vars
<1>8. QED
  BY <1>1, <1>2, <1>3, <1>4, <1>5, <1>6, <1>7 DEF Next, Client, Server

LEMMA WaitsCappedStep ==
    ASSUME IInv, [Next]_vars
    PROVE  WaitsCapped'
<1> USE DEF Requests, SameCall
<1>0. /\ Longest \in Nat
      /\ attempt \in [Requests -> Attempts] /\ slept \in [Requests -> Nat]
      /\ \A q \in Requests : slept[q] <= Waits(q) * Longest
      /\ pc \in [Requests -> {"idle", "ready", "sent", "waiting", "probing", "done"}]
  BY DelaysCapped DEF IInv, TypeOK, WaitsCapped, Longest
<1> SUFFICES ASSUME NEW q \in Requests PROVE slept'[q] <= Waits(q)' * Longest
  BY DEF WaitsCapped, Longest
<1>1. attempt[q] \in Nat /\ slept[q] \in Nat
  BY <1>0 DEF Attempts
(* The loop has not begun a wait and its count stands.                     *)
<1>2. ASSUME slept'[q] = slept[q], Waits(q)' = Waits(q)
      PROVE  slept'[q] <= Waits(q)' * Longest
  BY <1>0, <1>2
<1>3. ASSUME NEW r \in Requests, pc[r] = "sent", UNCHANGED attempt,
             Wait(r, StatusDelays(attempt[r])) \/ Wait(r, backoff(attempt[r]))
      PROVE  slept'[q] <= Waits(q)' * Longest
  <2>1. PICK d \in 0..Longest :
            slept' = [slept EXCEPT ![r] = @ + d]
    BY <1>3, OneSleep DEF IInv
  <2>2. pc' = [pc EXCEPT ![r] = "waiting"]
    BY <1>3 DEF Wait
  <2>3. CASE q # r
    BY <1>0, <1>2, <1>3, <2>1, <2>2, <2>3 DEF Waits
  <2>4. CASE q = r
    <3>1. Waits(q) = attempt[q] - 1 /\ Waits(q)' = attempt[q]
      BY <1>0, <1>3, <2>2, <2>4 DEF Waits
    <3>2. slept[q] <= (attempt[q] - 1) * Longest
      BY <1>0, <3>1
    <3>3. slept'[q] = slept[q] + d
      BY <1>0, <2>1, <2>4
    <3>4. (attempt[q] - 1) * Longest + Longest = attempt[q] * Longest
      BY <1>0, <1>1, OneWaitMore
    <3>5. (attempt[q] - 1) * Longest \in Int /\ attempt[q] * Longest \in Int
      BY <1>0, <1>1
    <3>6. slept[q] + d <= attempt[q] * Longest
      BY <1>0, <1>1, <2>1, <3>2, <3>4, <3>5
    <3>7. QED BY <3>1, <3>3, <3>6
  <2>5. QED BY <2>3, <2>4
<1>4. ASSUME NEW r \in Requests, NEW res, pc[r] = "sent", UNCHANGED attempt,
             r = "probe" => pc["main"] = "probing", Return(r, res)
      PROVE  slept'[q] <= Waits(q)' * Longest
  BY <1>0, <1>2, <1>4 DEF Return, Waits, IInv, OutcomeIsAnswer
<1>5. \A r \in Requests : r = "probe" /\ pc[r] = "sent" => pc["main"] = "probing"
  BY DEF IInv, OutcomeIsAnswer
<1>6. ASSUME NEW r \in Requests, Send(r) PROVE slept'[q] <= Waits(q)' * Longest
  BY <1>0, <1>2, <1>6 DEF Send, Waits
<1>7. ASSUME NEW r \in Requests, OnStatus(r) PROVE slept'[q] <= Waits(q)' * Longest
  BY <1>3, <1>4, <1>5, <1>7 DEF OnStatus
<1>8. ASSUME NEW r \in Requests, OnTransport(r) PROVE slept'[q] <= Waits(q)' * Longest
  BY <1>3, <1>4, <1>5, <1>8 DEF OnTransport
<1>9. ASSUME NEW r \in Requests, Wake(r) PROVE slept'[q] <= Waits(q)' * Longest
  <2>1. Waits(q)' = Waits(q)
    BY <1>0, <1>1, <1>9 DEF Wake, Waits, Attempts
  <2>2. QED BY <1>2, <1>9, <2>1 DEF Wake
<1>10. ASSUME NEW r \in Requests, NEW n \in Attempts,
              Apply(r, n) \/ Refuse(r, n) \/ Limit(r, n) \/ Lose(r, n)
       PROVE  slept'[q] <= Waits(q)' * Longest
  BY <1>2, <1>10 DEF Apply, Refuse, Limit, Lose, Handled, Waits
<1>11. ASSUME NEW r \in Requests, GatewayGivesUp(r)
       PROVE  slept'[q] <= Waits(q)' * Longest
  BY <1>2, <1>11 DEF GatewayGivesUp, Waits
<1>12. CASE UNCHANGED vars
  BY <1>2, <1>12 DEF vars, Waits
<1>13. QED
  BY <1>6, <1>7, <1>8, <1>9, <1>10, <1>11, <1>12 DEF Next, Client, Server

-----------------------------------------------------------------------------
(* IInv holds of every reachable state.                                    *)
THEOREM Inductive == Spec => []IInv
<1>1. Init => IInv
  <2>1. Init => WaitsCapped
    <3>1. (1 - 1) * Longest = 0
      BY DelaysCapped
    <3>2. QED BY <3>1 DEF Init, WaitsCapped, Waits, Longest, Requests
  <2>2. QED
    BY <2>1 DEF Init, IInv, TypeOK, AttemptsLeft, FutureUnsent, PastTurnedAway,
           AnswerTruthful, OutcomeIsAnswer, OneBody, Requests, Attempts, Fates,
           Statuses, NoAnswer
<1>2. IInv /\ [Next]_vars => IInv'
  BY TypeStep, AttemptsLeftStep, FutureUnsentStep, PastTurnedAwayStep,
     AnswerTruthfulStep, OutcomeIsAnswerStep, OneBodyStep,
     WaitsCappedStep DEF IInv
<1>3. QED BY <1>1, <1>2, PTL DEF Spec

(* Every variable keeps its type, whatever the network does.               *)
THEOREM TypeCorrect == Spec => []TypeOK
<1>1. IInv => TypeOK
  BY DEF IInv
<1>2. QED BY <1>1, Inductive, PTL

(* Of a request that must not be repeated, only the current attempt can    *)
(* have taken effect or still be on its way.                               *)
LEMMA OneLiveAttempt ==
    ASSUME IInv, ~is_idempotent(method), NEW n \in Attempts,
           fate["main"][n] \in {"wire", "applied", "lost", "refused"}
    PROVE  n = attempt["main"]
BY DEF IInv, TypeOK, FutureUnsent, PastTurnedAway, Requests, Attempts

(* What the caller was told is the truth about the current attempt.        *)
LEMMA OutcomeTruthful ==
    ASSUME IInv
    PROVE  /\ outcome = "ok" => fate["main"][attempt["main"]] = "applied"
           /\ outcome \in {"notFound", "rejected", "limited"}
                => fate["main"][attempt["main"]] \in {"refused", "limited"}
BY DEF IInv, AnswerTruthful, OutcomeIsAnswer, Requests

(* A POST or PATCH takes effect at most once, however its attempts are     *)
(* lost, delayed, half-processed or answered, and for every retry policy.  *)
THEOREM MutatesAtMostOnce == Spec => []AtMostOnce
<1>1. IInv => AtMostOnce
  BY OneLiveAttempt DEF AtMostOnce, Effects
<1>2. QED BY <1>1, Inductive, PTL

(* A POST or PATCH reported as refused or rate limited has not happened    *)
(* and will not: no attempt of it is still on its way.                     *)
THEOREM RefusalsAreDefinite == Spec => []RefusalIsDefinite
<1>1. IInv => RefusalIsDefinite
  BY OneLiveAttempt, OutcomeTruthful DEF RefusalIsDefinite, Effects
<1>2. QED BY <1>1, Inductive, PTL

(* A reported success answers an attempt that was carried out.             *)
THEOREM SuccessesAreReal == Spec => []SuccessIsReal
<1>1. IInv => SuccessIsReal
  BY OutcomeTruthful DEF SuccessIsReal, Effects, IInv, TypeOK, Requests
<1>2. QED BY <1>1, Inductive, PTL

(* A body that can be read only once leaves the client only once.          *)
THEOREM BodiesSentOnce == Spec => []BodySentOnce
<1>1. IInv => BodySentOnce
  BY DEF IInv, BodySentOnce, OneBody, FutureUnsent, Requests, Attempts
<1>2. QED BY <1>1, Inductive, PTL

(* The verdict in a 404 message is the answer the probe got.               *)
THEOREM VerdictsEarned == Spec => []VerdictEarned
<1>1. IInv => VerdictEarned
  BY DEF IInv, TypeOK, VerdictEarned, OutcomeIsAnswer, AnswerTruthful,
         Effects, Requests
<1>2. QED BY <1>1, Inductive, PTL

(* No server can make a request sleep longer than the caps allow in all,   *)
(* whatever Retry-After it sends and whatever the policy.                  *)
THEOREM SleepsBounded == Spec => []SleepBounded
<1>1. IInv => SleepBounded
  <2> SUFFICES ASSUME IInv, NEW r \in Requests
               PROVE  slept[r] \in 0..(MaxAttempts - 1) * Longest
    BY DEF SleepBounded, Longest
  <2>1. /\ Longest \in Nat /\ slept[r] \in Nat /\ attempt[r] \in Attempts
        /\ slept[r] <= Waits(r) * Longest
    BY DelaysCapped DEF IInv, TypeOK, WaitsCapped, Longest
  <2>2. Waits(r) \in Nat /\ Waits(r) <= MaxAttempts - 1
    BY <2>1 DEF Waits, Attempts, IInv, AttemptsLeft
  <2>3. Waits(r) * Longest <= (MaxAttempts - 1) * Longest
    BY <2>1, <2>2, FewerWaits, MaxAttempts - 1 \in Nat
  <2>4. Waits(r) * Longest \in Int /\ (MaxAttempts - 1) * Longest \in Int
    BY <2>1, <2>2
  <2>5. QED BY <2>1, <2>3, <2>4
<1>2. QED BY <1>1, Inductive, PTL

(* A loop never gets a step back; one that acts loses at least one.        *)
LEMMA StepsFall ==
    ASSUME IInv, NEW r \in Requests, Client(r)
    PROVE  /\ StepsLeftOf(r)' < StepsLeftOf(r)
           /\ \A q \in Requests : StepsLeftOf(q)' <= StepsLeftOf(q)
<1> USE DEF Requests
<1>1. /\ pc \in [Requests -> {"idle", "ready", "sent", "waiting", "probing", "done"}]
      /\ attempt \in [Requests -> Attempts]
      /\ \A q \in Requests : attempt[q] \in 1..MaxAttempts
  BY DEF IInv, TypeOK, Attempts
<1>2. CASE Send(r)
  BY <1>1, <1>2 DEF Send, StepsLeftOf
<1>3. CASE Wake(r)
  <2>1. attempt[r] < MaxAttempts
    BY <1>3 DEF Wake, IInv, AttemptsLeft
  <2>2. /\ pc' = [pc EXCEPT ![r] = "ready"] /\ pc[r] = "waiting"
        /\ attempt' = [attempt EXCEPT ![r] = @ + 1]
    BY <1>3 DEF Wake
  <2> QED
    BY <1>1, <2>1, <2>2 DEF StepsLeftOf
<1>4. ASSUME pc[r] = "sent", UNCHANGED attempt, pc' = [pc EXCEPT ![r] = "waiting"]
      PROVE  /\ StepsLeftOf(r)' < StepsLeftOf(r)
             /\ \A q \in Requests : StepsLeftOf(q)' <= StepsLeftOf(q)
  BY <1>1, <1>4 DEF StepsLeftOf
<1>5. ASSUME pc[r] = "sent", UNCHANGED attempt, NEW res, Return(r, res)
      PROVE  /\ StepsLeftOf(r)' < StepsLeftOf(r)
             /\ \A q \in Requests : StepsLeftOf(q)' <= StepsLeftOf(q)
  <2>1. r = "main" => pc["probe"] = "idle"
    BY <1>1, <1>5 DEF IInv, OutcomeIsAnswer
  <2>2. \/ /\ r = "main" /\ pc' = [pc EXCEPT !["main"] = "probing", !["probe"] = "ready"]
        \/ /\ r = "main" /\ pc' = [pc EXCEPT !["main"] = "done"]
        \/ /\ r = "probe" /\ pc' = [pc EXCEPT !["main"] = "done", !["probe"] = "done"]
    BY <1>5 DEF Return
  <2> QED
    BY <1>1, <1>5, <2>1, <2>2 DEF StepsLeftOf
<1>6. CASE OnStatus(r)
  BY <1>4, <1>5, <1>6 DEF OnStatus, Wait
<1>7. CASE OnTransport(r)
  BY <1>4, <1>5, <1>7 DEF OnTransport, Wait
<1> QED
  BY <1>2, <1>3, <1>6, <1>7 DEF Client

(* A call takes six steps of the client for every attempt at most, and so  *)
(* two requests, whatever is answered and however often the server and the *)
(* network act in between (dispatch and probe_repo in http/mod.rs).        *)
THEOREM CallsAreFinite == Spec => [](StepsLeft \in 0..6 * MaxAttempts) /\ StepsRunOut
<1>1. ASSUME IInv PROVE \A r \in Requests : StepsLeftOf(r) \in 0..3 * MaxAttempts
  <2>1. \A r \in Requests : attempt[r] \in 1..MaxAttempts
    BY <1>1 DEF IInv, TypeOK, Attempts
  <2> QED
    BY <2>1 DEF StepsLeftOf
<1>2. IInv => StepsLeft \in 0..6 * MaxAttempts
  BY <1>1 DEF StepsLeft, Requests
<1>3. IInv /\ IInv' /\ [Next]_vars =>
        [StepsLeft' < StepsLeft \/ UNCHANGED <<pc, attempt, slept, repoProbe, outcome>>]_vars
  <2> SUFFICES ASSUME IInv, IInv', [Next]_vars
               PROVE  \/ StepsLeft' < StepsLeft
                      \/ UNCHANGED <<pc, attempt, slept, repoProbe, outcome>>
    OBVIOUS
  <2>1. ASSUME NEW r \in Requests, Client(r) PROVE StepsLeft' < StepsLeft
    <3>1. \A q \in Requests : /\ StepsLeftOf(q) \in 0..3 * MaxAttempts
                              /\ StepsLeftOf(q)' \in 0..3 * MaxAttempts
                              /\ StepsLeftOf(q)' <= StepsLeftOf(q)
      <4>1. \A q \in Requests : StepsLeftOf(q)' \in 0..3 * MaxAttempts
        <5>1. \A q \in Requests : attempt'[q] \in 1..MaxAttempts
          BY DEF IInv, TypeOK, Attempts
        <5> QED
          BY <5>1 DEF StepsLeftOf
      <4> QED
        BY <1>1, <2>1, <4>1, StepsFall
    <3>2. StepsLeftOf(r)' < StepsLeftOf(r)
      BY <2>1, StepsFall
    <3> QED
      BY <3>1, <3>2 DEF StepsLeft, Requests
  <2>2. ASSUME NEW r \in Requests, Server(r)
        PROVE  UNCHANGED <<pc, attempt, slept, repoProbe, outcome>>
    BY <2>2 DEF Server, Apply, Refuse, Limit, Lose, Handled, GatewayGivesUp
  <2>3. CASE UNCHANGED vars
    BY <2>3 DEF vars
  <2> QED
    BY <2>1, <2>2, <2>3 DEF Next
<1> QED
  BY <1>2, <1>3, Inductive, PTL DEF Spec, StepsRunOut

-----------------------------------------------------------------------------
(* Steps that touch neither what took effect nor what was reported.        *)
LEMMA Stutter ==
    ASSUME method' = method, Effects("main")' = Effects("main"), outcome' = outcome
    PROVE  UNCHANGED RC!rcVars
BY DEF RC!rcVars, is_idempotent

(* A return of dispatch to its caller is a report, or the probe begins.    *)
LEMMA ReturnReports ==
    ASSUME IInv, SameCall, UNCHANGED fate, NEW r \in Requests, pc[r] = "sent",
           NEW res, Return(r, res),
           (res = answer[r] /\ res # NoAnswer) \/ res = "transport"
    PROVE  [RC!Next]_RC!rcVars
<1>1. Effects("main")' = Effects("main") /\ method' = method
  BY DEF Effects, SameCall
<1>2. CASE r = "main" /\ res = "notFound" /\ probes
  BY <1>1, <1>2, Stutter DEF Return
<1>3. CASE ~(r = "main" /\ res = "notFound" /\ probes)
  <2> DEFINE o == IF r = "main" THEN res ELSE "notFound"
  <2>1. outcome = "pending" /\ outcome' = o
    BY <1>3 DEF Return, IInv, OutcomeIsAnswer, Requests
  <2>2. o = "transport" \/ o = answer["main"]
    BY DEF IInv, OutcomeIsAnswer, Requests
  <2>3. o \in RC!Outcomes
    BY <2>2 DEF IInv, TypeOK, RC!Outcomes, RC!Definite, Requests, Statuses,
                NoAnswer, OutcomeIsAnswer
  <2>4. pc["main"] \in {"sent", "probing"}
    BY DEF IInv, OutcomeIsAnswer, Requests
  <2>5. o = "ok" => fate["main"][attempt["main"]] = "applied"
    BY <2>2, <2>4 DEF IInv, AnswerTruthful, Requests
  <2>6. o = "ok" => Effects("main") # {}
    BY <2>5 DEF Effects, IInv, TypeOK, Requests
  <2>7. o \in RC!Definite => fate["main"][attempt["main"]] \in {"refused", "limited"}
    BY <2>2, <2>4 DEF IInv, AnswerTruthful, Requests, RC!Definite
  <2>8. o \in RC!Definite /\ ~is_idempotent(method) => Effects("main") = {}
    BY <2>7, OneLiveAttempt DEF Effects
  <2>9. RC!Report(o)
    BY <1>1, <2>1, <2>6, <2>8 DEF RC!Report, is_idempotent
  <2>10. QED BY <2>3, <2>9 DEF RC!Next
<1>4. QED BY <1>2, <1>3

(* Dispatch and the network implement RemoteCall: seen from the caller, a  *)
(* call takes effect at most once unless it may be repeated, and what is   *)
(* reported agrees with what happened.                                     *)
THEOREM Implementation == Spec => ImplementsRemoteCall
<1>1. Init => RC!Init
  BY DEF Init, RC!Init, Effects, Requests, Attempts, is_idempotent
<1>2. IInv /\ [Next]_vars => [RC!Next]_RC!rcVars
  <2> SUFFICES ASSUME IInv, [Next]_vars PROVE [RC!Next]_RC!rcVars
    OBVIOUS
  <2> USE DEF SameCall
  <2>1. ASSUME NEW r \in Requests, Send(r) PROVE [RC!Next]_RC!rcVars
    <3>1. fate[r][attempt[r]] = "unsent"
      BY <2>1 DEF Send, IInv, TypeOK, FutureUnsent
    <3>2. Effects("main")' = Effects("main")
      BY <2>1, <3>1 DEF Send, Effects, IInv, TypeOK, Requests
    <3>3. QED BY <2>1, <3>2, Stutter DEF Send
  <2>2. ASSUME NEW r \in Requests, OnStatus(r) PROVE [RC!Next]_RC!rcVars
    <3>1. CASE on_status(r, answer[r])
      BY <2>2, <3>1, Stutter DEF OnStatus, Wait, Effects
    <3>2. CASE ~on_status(r, answer[r])
      BY <2>2, <3>2, ReturnReports DEF OnStatus
    <3>3. QED BY <3>1, <3>2
  <2>3. ASSUME NEW r \in Requests, OnTransport(r) PROVE [RC!Next]_RC!rcVars
    <3>1. PICK kind \in TransportErrors :
            IF on_transport(r, kind) THEN Wait(r, backoff(attempt[r]))
                                     ELSE Return(r, "transport")
      BY <2>3 DEF OnTransport
    <3>2. CASE on_transport(r, kind)
      BY <2>3, <3>1, <3>2, Stutter DEF OnTransport, Wait, Effects
    <3>3. CASE ~on_transport(r, kind)
      BY <2>3, <3>1, <3>3, ReturnReports DEF OnTransport
    <3>4. QED BY <3>2, <3>3
  <2>4. ASSUME NEW r \in Requests, Wake(r) PROVE [RC!Next]_RC!rcVars
    BY <2>4, Stutter DEF Wake, Effects
  <2>5. ASSUME NEW r \in Requests, NEW n \in Attempts, Apply(r, n)
        PROVE  [RC!Next]_RC!rcVars
    <3>1. CASE r = "main"
      <4>1. fate["main"][n] = "wire"
        BY <2>5, <3>1 DEF Apply, Handled
      <4>2. Effects("main")' = Effects("main") \union {n}
        BY <2>5, <3>1 DEF Apply, Handled, Effects, IInv, TypeOK, Requests
      <4>3. ~is_idempotent(method) => Effects("main") = {}
        BY <4>1, OneLiveAttempt DEF Effects
      <4>4. ~is_idempotent(method) => outcome \notin RC!Definite
        BY <4>1, OneLiveAttempt, OutcomeTruthful DEF RC!Definite
      <4>5. RC!TakeEffect(n)
        BY <2>5, <4>2, <4>3, <4>4 DEF RC!TakeEffect, Apply, Handled, is_idempotent
      <4>6. QED BY <4>5 DEF RC!Next
    <3>2. CASE r = "probe"
      <4>1. Effects("main")' = Effects("main")
        BY <2>5, <3>2 DEF Apply, Handled, Effects, IInv, TypeOK, Requests
      <4>2. QED BY <2>5, <4>1, Stutter DEF Apply, Handled
    <3>3. QED BY <3>1, <3>2 DEF Requests
  <2>6. ASSUME NEW r \in Requests, NEW n \in Attempts,
               Refuse(r, n) \/ Limit(r, n) \/ Lose(r, n)
        PROVE  [RC!Next]_RC!rcVars
    <3>1. Effects("main")' = Effects("main")
      BY <2>6 DEF Refuse, Limit, Lose, Handled, Effects, IInv, TypeOK, Requests
    <3>2. QED BY <2>6, <3>1, Stutter DEF Refuse, Limit, Lose, Handled
  <2>7. ASSUME NEW r \in Requests, GatewayGivesUp(r) PROVE [RC!Next]_RC!rcVars
    BY <2>7, Stutter DEF GatewayGivesUp, Effects
  <2>8. CASE UNCHANGED vars
    BY <2>8, Stutter DEF vars, Effects
  <2>9. QED
    BY <2>1, <2>2, <2>3, <2>4, <2>5, <2>6, <2>7, <2>8 DEF Next, Client, Server
<1>3. QED
  BY <1>1, <1>2, Inductive, PTL DEF Spec, ImplementsRemoteCall, RC!Spec
=============================================================================
