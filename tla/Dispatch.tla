------------------------------ MODULE Dispatch ------------------------------
(***************************************************************************)
(* One call of gitea_core::http::Client::send: the retry loop of dispatch, *)
(* the policy that decides when to try again, the one probe a 404 under a  *)
(* repository costs, and the server at the other end of a network that may *)
(* lose, delay or half-process every attempt.                              *)
(*                                                                         *)
(* The hazard is that the client cannot see whether a failed attempt took  *)
(* effect: a gateway may answer 504 for a request that is still running,   *)
(* and a timeout says nothing.  A POST repeated on such a failure creates  *)
(* two pull requests and reports one.                                      *)
(***************************************************************************)
EXTENDS Integers

CONSTANTS Methods,         \* the HTTP methods callers use
          MaxAttempts,     \* RetryPolicy.max: attempts, not retries
          BaseDelay,       \* RetryPolicy.base
          MaxBackoff,      \* RetryPolicy.max_backoff
          MaxRetryAfter,   \* RetryPolicy.max_retry_after
          JitterPercent,   \* RetryPolicy.jitter, in percent
          RetryAfters      \* the Retry-After values a server may send

ASSUME PolicyAssumption ==
    /\ Methods \subseteq {"GET", "HEAD", "PUT", "DELETE", "OPTIONS", "POST", "PATCH"}
    /\ MaxAttempts \in Nat \ {0}
    /\ BaseDelay \in Nat
    /\ MaxBackoff \in Nat
    /\ MaxRetryAfter \in Nat
    /\ JitterPercent \in 0..100
    /\ RetryAfters \subseteq Nat

VARIABLES method,      \* of the request
          replayable,  \* whether its body can be sent a second time
          probes,      \* probe_404 is on and the path lies under a repository
          pc,          \* where the dispatch loop of each request stands
          attempt,     \* the attempt each loop is making, from 1
          fate,        \* what became of every attempt, at the server
          answer,      \* the status waiting to be read by the client
          slept,       \* how long each loop has waited in all
          repoProbe,   \* what the probe found out
          outcome      \* what the caller was told

vars == <<method, replayable, probes, pc, attempt, fate, answer, slept,
          repoProbe, outcome>>

-----------------------------------------------------------------------------
(* The request the caller made and the probe error_from may make for it.   *)
Requests == {"main", "probe"}

Statuses == {"ok", "notFound", "rejected", "limited", "unavailable"}
TransportErrors == {"Dns", "Connect", "Tls", "Timeout", "Proxy", "Io"}
Fates == {"unsent", "wire", "lost", "applied", "refused", "limited"}
NoAnswer == "none"

Attempts == 1..MaxAttempts
MethodOf(r) == IF r = "main" THEN method ELSE "GET"
BodyReplayable(r) == r = "main" => replayable

Lesser(a, b) == IF a <= b THEN a ELSE b
Greater(a, b) == IF a <= b THEN b ELSE a

-----------------------------------------------------------------------------
(* The policy.                                                             *)

is_idempotent(m) == m \in {"GET", "HEAD", "PUT", "DELETE", "OPTIONS"}

(* The waits the jitter allows, by its two extremes.                       *)
backoff(n) ==
    LET base == Lesser(BaseDelay * 2^(Lesser(n - 1, 16)), MaxBackoff)
        spread(percent) == Lesser((base * percent) \div 100, MaxBackoff)
    IN  {spread(100 - JitterPercent), spread(100 + JitterPercent)}

StatusDelaysUncapped(n) == RetryAfters \union backoff(n)

(* A Retry-After the server sent, capped, or the computed backoff.         *)
StatusDelays(n) ==
    {Lesser(d, MaxRetryAfter) : d \in RetryAfters} \union backoff(n)

(* Mistakes in the policy that the properties below must notice.           *)
on_statusAnyMethod(r, status) ==
    /\ attempt[r] < MaxAttempts
    /\ BodyReplayable(r)
    /\ status \in {"limited", "unavailable"}
on_statusAnyBody(r, status) ==
    /\ attempt[r] < MaxAttempts
    /\ status = "limited" \/ (status = "unavailable" /\ is_idempotent(MethodOf(r)))
on_transportAnyMethod(r, kind) ==
    /\ attempt[r] < MaxAttempts
    /\ BodyReplayable(r)
    /\ kind \in {"Dns", "Connect", "Tls", "Timeout"}

on_status(r, status) ==
    /\ attempt[r] < MaxAttempts
    /\ BodyReplayable(r)
    /\ \/ status = "limited"
       \/ status = "unavailable" /\ is_idempotent(MethodOf(r))

on_transport(r, kind) ==
    /\ attempt[r] < MaxAttempts
    /\ BodyReplayable(r)
    /\ is_idempotent(MethodOf(r))
    /\ kind \in {"Dns", "Connect", "Tls", "Timeout"}

-----------------------------------------------------------------------------
Init ==
    /\ method \in Methods
    /\ replayable \in BOOLEAN
    /\ probes \in BOOLEAN
    /\ pc = [r \in Requests |-> IF r = "main" THEN "ready" ELSE "idle"]
    /\ attempt = [r \in Requests |-> 1]
    /\ fate = [r \in Requests |-> [n \in Attempts |-> "unsent"]]
    /\ answer = [r \in Requests |-> NoAnswer]
    /\ slept = [r \in Requests |-> 0]
    /\ repoProbe = "NotAttempted"
    /\ outcome = "pending"

SameCall == UNCHANGED <<method, replayable, probes>>

(* prepare and Transport::execute: the request leaves.                     *)
Send(r) ==
    /\ pc[r] = "ready"
    /\ pc' = [pc EXCEPT ![r] = "sent"]
    /\ fate' = [fate EXCEPT ![r][attempt[r]] = "wire"]
    /\ answer' = [answer EXCEPT ![r] = NoAnswer]
    /\ SameCall /\ UNCHANGED <<attempt, slept, repoProbe, outcome>>

(* self.wait(..).await begins.                                             *)
Wait(r, delays) ==
    /\ pc' = [pc EXCEPT ![r] = "waiting"]
    /\ \E d \in delays : slept' = [slept EXCEPT ![r] = @ + d]
    /\ UNCHANGED <<repoProbe, outcome>>

(* The wait is over and the loop counts up.                                *)
Wake(r) ==
    /\ pc[r] = "waiting"
    /\ pc' = [pc EXCEPT ![r] = "ready"]
    /\ attempt' = [attempt EXCEPT ![r] = @ + 1]
    /\ SameCall /\ UNCHANGED <<fate, answer, slept, repoProbe, outcome>>

ReturnMissing(r, res) ==
    /\ IF r = "main" /\ res = "notFound" /\ probes
       THEN /\ pc' = [pc EXCEPT !["main"] = "probing", !["probe"] = "ready"]
            /\ UNCHANGED <<repoProbe, outcome>>
       ELSE /\ pc' = [pc EXCEPT !["main"] = "done"]
            /\ repoProbe' = IF r = "probe" THEN "Missing" ELSE repoProbe
            /\ outcome' = IF r = "main" THEN res ELSE "notFound"
    /\ UNCHANGED slept

ReturnSuccess(r, res) ==
    /\ pc' = [q \in Requests |-> "done"]
    /\ outcome' = IF res = "unavailable" THEN "ok" ELSE res
    /\ UNCHANGED <<slept, repoProbe>>

ReturnProbingAgain(r, res) ==
    /\ IF res = "notFound" /\ probes
       THEN pc' = [pc EXCEPT !["main"] = "probing", !["probe"] = "ready"]
            /\ UNCHANGED outcome
       ELSE pc' = [q \in Requests |-> "done"]
            /\ outcome' = IF r = "main" THEN res ELSE "notFound"
    /\ UNCHANGED <<slept, repoProbe>>

(* dispatch returned res to send, or the probe's to probe_repo: a 404      *)
(* starts the probe, and whatever ends the probe ends the call as 404.     *)
Return(r, res) ==
    /\ \/ /\ r = "main" /\ res = "notFound" /\ probes
          /\ pc' = [pc EXCEPT !["main"] = "probing", !["probe"] = "ready"]
          /\ UNCHANGED <<repoProbe, outcome>>
       \/ /\ r = "main" /\ ~(res = "notFound" /\ probes)
          /\ pc' = [pc EXCEPT !["main"] = "done"]
          /\ outcome' = res
          /\ UNCHANGED repoProbe
       \/ /\ r = "probe"
          /\ pc' = [pc EXCEPT !["main"] = "done", !["probe"] = "done"]
          /\ repoProbe' = CASE res = "ok" -> "Exists"
                            [] res = "notFound" -> "Missing"
                            [] OTHER -> "NotAttempted"
          /\ outcome' = "notFound"
    /\ UNCHANGED slept

(* execute returned a response.                                            *)
OnStatus(r) ==
    /\ pc[r] = "sent"
    /\ answer[r] # NoAnswer
    /\ IF on_status(r, answer[r])
       THEN Wait(r, StatusDelays(attempt[r]))
       ELSE Return(r, answer[r])
    /\ SameCall /\ UNCHANGED <<attempt, fate, answer>>

(* execute returned an error.  It may do so whatever became of the request *)
(* and even when an answer is on its way.                                  *)
OnTransport(r) ==
    /\ pc[r] = "sent"
    /\ \E kind \in TransportErrors :
          IF on_transport(r, kind)
          THEN Wait(r, backoff(attempt[r]))
          ELSE Return(r, "transport")
    /\ SameCall /\ UNCHANGED <<attempt, fate, answer>>

-----------------------------------------------------------------------------
(* The server and what stands in front of it.                              *)

(* Attempt n is over at the server; the client hears of it if it is still  *)
(* waiting on that attempt and has not heard otherwise.                    *)
Handled(r, n, f, statuses) ==
    /\ fate[r][n] = "wire"
    /\ fate' = [fate EXCEPT ![r][n] = f]
    /\ IF n = attempt[r] /\ pc[r] = "sent" /\ answer[r] = NoAnswer
       THEN \E s \in statuses : answer' = [answer EXCEPT ![r] = s]
       ELSE UNCHANGED answer
    /\ SameCall /\ UNCHANGED <<pc, attempt, slept, repoProbe, outcome>>

(* The handler commits, and may still fail afterwards.                     *)
Apply(r, n) == Handled(r, n, "applied", {"ok", "unavailable"})
(* The handler declines, or fails before it has done anything.             *)
Refuse(r, n) == Handled(r, n, "refused", {"notFound", "rejected", "unavailable"})
(* The rate limiter rejects the request before any handler sees it.        *)
Limit(r, n) == Handled(r, n, "limited", {"limited"})
(* The attempt never arrives.                                              *)
Lose(r, n) == Handled(r, n, "lost", {NoAnswer})

(* A gateway answers 502 or 504 for a request that is still running.       *)
GatewayGivesUp(r) ==
    /\ pc[r] = "sent"
    /\ fate[r][attempt[r]] = "wire"
    /\ answer[r] = NoAnswer
    /\ answer' = [answer EXCEPT ![r] = "unavailable"]
    /\ SameCall /\ UNCHANGED <<pc, attempt, fate, slept, repoProbe, outcome>>

-----------------------------------------------------------------------------
Client(r) == Send(r) \/ OnStatus(r) \/ OnTransport(r) \/ Wake(r)

Server(r) ==
    \/ \E n \in Attempts : Apply(r, n) \/ Refuse(r, n) \/ Limit(r, n) \/ Lose(r, n)
    \/ GatewayGivesUp(r)

Next == \E r \in Requests : Client(r) \/ Server(r)

Spec == Init /\ [][Next]_vars

(* The client goes on where it can: it sends, a wait ends, and an answer   *)
(* that is there is read.  A transport error is not owed: the default      *)
(* client limits the time to connect only, and execute may hang on a       *)
(* server that stays silent.  Nothing is asked of the server.              *)
Unhindered(r) == Send(r) \/ OnStatus(r) \/ Wake(r)

FairSpec == Spec /\ \A r \in Requests : WF_vars(Unhindered(r))

-----------------------------------------------------------------------------
Effects(r) == {n \in Attempts : fate[r][n] = "applied"}

TypeOK ==
    /\ method \in Methods
    /\ replayable \in BOOLEAN
    /\ probes \in BOOLEAN
    /\ pc \in [Requests -> {"idle", "ready", "sent", "waiting", "probing", "done"}]
    /\ attempt \in [Requests -> Attempts]
    /\ fate \in [Requests -> [Attempts -> Fates]]
    /\ answer \in [Requests -> Statuses \union {NoAnswer}]
    /\ slept \in [Requests -> Nat]
    /\ repoProbe \in {"NotAttempted", "Exists", "Missing"}
    /\ outcome \in Statuses \union {"pending", "transport"}

(* However attempts are lost, delayed and answered, and even when one is   *)
(* handled long after the client gave up on it, a POST or PATCH takes      *)
(* effect at most once ("the hard rule" of retry.rs).                      *)
AtMostOnce ==
    ~is_idempotent(method) =>
        \A m, n \in Effects("main") : m = n

(* A POST or PATCH reported as refused (a 4xx) or rate limited was not and *)
(* will not be carried out: no earlier attempt of it can have taken effect *)
(* and be masked by the refusal of a later one.                            *)
RefusalIsDefinite ==
    ~is_idempotent(method) /\ outcome \in {"notFound", "rejected", "limited"}
        => /\ Effects("main") = {}
           /\ \A n \in Attempts : fate["main"][n] # "wire"

(* A success is reported only if the very attempt it answers was carried   *)
(* out.                                                                    *)
SuccessIsReal ==
    outcome = "ok" => attempt["main"] \in Effects("main")

(* A body that can be read only once (stdin) is sent only once: the server *)
(* never sees the truncated second copy.                                   *)
BodySentOnce ==
    ~replayable => \A n \in Attempts : n > 1 => fate["main"][n] = "unsent"

(* The 404 message says what the probe learnt: "the repository exists" or  *)
(* "no such repository" only when the server answered exactly that.        *)
VerdictEarned ==
    /\ repoProbe = "Exists" => Effects("probe") # {}
    /\ repoProbe = "Missing" => \E n \in Attempts : fate["probe"][n] = "refused"
    /\ repoProbe # "NotAttempted" => outcome = "notFound"

(* No server can make a request sleep longer than the caps allow in all,   *)
(* however large the Retry-After it sends.                                 *)
SleepBounded ==
    \A r \in Requests :
        slept[r] \in 0 .. (MaxAttempts - 1) * Greater(MaxBackoff, MaxRetryAfter)

(* If every execute ends, in an answer or an error, so does the call: the  *)
(* attempts run out, and the probe for a 404 does not start another.  A    *)
(* server that never answers hangs it unless the caller has set a timeout. *)
ExecuteEnds(r) == []<>(pc[r] # "sent")

Terminates == (\A r \in Requests : ExecuteEnds(r)) => <>(pc["main"] = "done")

(* Why the above hold.  Attempts after the current one have not left, and  *)
(* of a request that must not be repeated every attempt before the current *)
(* one was turned away by the rate limiter; an answer the client has read  *)
(* or may read is the truth about the attempt it is on; and a loop has     *)
(* waited once for every attempt behind it.                                *)
AttemptsLeft == \A r \in Requests : pc[r] = "waiting" => attempt[r] < MaxAttempts

FutureUnsent ==
    \A r \in Requests : \A n \in Attempts :
        (n > attempt[r] \/ (n = attempt[r] /\ pc[r] \in {"idle", "ready"}))
            => fate[r][n] = "unsent"

PastTurnedAway ==
    ~is_idempotent(method) =>
        \A n \in Attempts :
            (n < attempt["main"] \/ (n = attempt["main"] /\ pc["main"] = "waiting"))
                => fate["main"][n] = "limited"

AnswerTruthful ==
    \A r \in Requests : pc[r] \in {"sent", "waiting", "probing", "done"} =>
        /\ answer[r] = "ok" => fate[r][attempt[r]] = "applied"
        /\ answer[r] \in {"notFound", "rejected"} => fate[r][attempt[r]] = "refused"
        /\ answer[r] = "limited" => fate[r][attempt[r]] = "limited"

OutcomeIsAnswer ==
    /\ outcome = "pending" <=> pc["main"] # "done"
    /\ outcome \notin {"pending", "transport"} => answer["main"] = outcome
    /\ pc["main"] = "probing" => answer["main"] = "notFound"
    /\ pc["main"] # "idle"
    /\ pc["probe"] \in {"ready", "sent", "waiting"} => pc["main"] = "probing"
    /\ pc["probe"] # "probing"
    /\ pc["probe"] = "done" => pc["main"] = "done"
    /\ pc["probe"] = "idle" => attempt["probe"] = 1
    /\ repoProbe # "NotAttempted" => pc["probe"] = "done" /\ outcome = "notFound"
    /\ repoProbe = "Exists" => answer["probe"] = "ok"
    /\ repoProbe = "Missing" => answer["probe"] = "notFound"

OneBody == ~replayable => attempt["main"] = 1 /\ pc["main"] # "waiting"

Waits(r) == IF pc[r] = "waiting" THEN attempt[r] ELSE attempt[r] - 1

WaitsCapped ==
    \A r \in Requests : slept[r] <= Waits(r) * Greater(MaxBackoff, MaxRetryAfter)

IInv ==
    /\ TypeOK
    /\ AttemptsLeft
    /\ FutureUnsent
    /\ PastTurnedAway
    /\ AnswerTruthful
    /\ OutcomeIsAnswer
    /\ OneBody
    /\ WaitsCapped

(* Why a call ends: what a loop has still to do, a request, an answer and  *)
(* a wait for every attempt that is left to it, and nothing while the      *)
(* probe runs or when it is over.                                          *)
StepsLeftOf(r) ==
    IF pc[r] \in {"probing", "done"} THEN 0
    ELSE 3 * (MaxAttempts - attempt[r]) +
         CASE pc[r] = "waiting" -> 1 [] pc[r] = "sent" -> 2 [] OTHER -> 3
StepsLeft == StepsLeftOf("main") + StepsLeftOf("probe")

(* Each step of the client uses up one of those at least, and no step of   *)
(* the server or the network gives one back or moves the client.           *)
StepsRunOut ==
    [][StepsLeft' < StepsLeft \/ UNCHANGED <<pc, attempt, slept, repoProbe, outcome>>]_vars

(* The retry loop, the probe and the network implement RemoteCall.         *)
RC == INSTANCE RemoteCall WITH repeatable <- is_idempotent(method),
                               effects <- Effects("main")
ImplementsRemoteCall == RC!Spec
=============================================================================
