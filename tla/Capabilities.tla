---------------------------- MODULE Capabilities ----------------------------
(***************************************************************************)
(* Client::capabilities: what the instance can do, asked once and shared.  *)
(* Commands fan out, so several tasks call it at the same moment.  A cache *)
(* with a lifetime answers at once; otherwise a task takes the gate, looks *)
(* at the cache again, and probes /settings/api and /version side by side. *)
(* A task may be dropped at any await, with the gate in its hands or not.  *)
(*                                                                         *)
(* The hazards are the probe sent once per task, the cache that outlives   *)
(* its lifetime, and the deadlock of a probe whose own failure asks for    *)
(* the lock it runs under.                                                 *)
(***************************************************************************)
EXTENDS Integers

CONSTANTS Tasks,     \* the concurrent callers of one client
          TTL,       \* lifetime of a probe
          MaxClock,  \* bound on the time that passes
          NoTask     \* who holds the gate when nobody does

ASSUME CapabilitiesAssumption ==
    /\ TTL \in Nat \ {0} /\ MaxClock \in Nat
    /\ NoTask \notin Tasks

VARIABLES serves,    \* the endpoints this instance answers
          pc,        \* what each task is doing
          gate,      \* the task that holds caps_gate
          pending,   \* per task, the requests of its probe still under way
          answered,  \* per task, the endpoints that answered its probe
          cache,     \* caps: the last probe and when it ended
          result,    \* per task, what its last call returned
          clock

probe == <<pending, answered>>
capsVars == <<serves, pc, gate, pending, answered, cache, result, clock>>

Endpoints == {"settings", "version"}
Idle == {"idle", "done"}

(* Capabilities: which endpoints it rests on, and the instant it was       *)
(* stored at.  settings_known is "settings" \in known.                     *)
Capability == [known : SUBSET Endpoints, at : 0..MaxClock]
Nothing == [known |-> {}, at |-> -1]    \* no probe yet

CapsInit ==
    /\ serves \in SUBSET Endpoints
    /\ pc = [t \in Tasks |-> "idle"]
    /\ gate = NoTask
    /\ pending = [t \in Tasks |-> {}]
    /\ answered = [t \in Tasks |-> {}]
    /\ cache = Nothing
    /\ result = [t \in Tasks |-> Nothing]
    /\ clock = 0

FreshForEver == cache # Nothing
(* cached_caps has something to give.                                      *)
Fresh == cache # Nothing /\ clock - cache.at < TTL

(* capabilities returns c to its caller t.                                 *)
Answered(t, c) ==
    /\ pc' = [pc EXCEPT ![t] = "done"]
    /\ result' = [result EXCEPT ![t] = c]

(* A task calls capabilities, and waits for the gate if the cache is cold. *)
Call(t) ==
    /\ pc[t] \in Idle
    /\ \/ Fresh /\ Answered(t, cache)
       \/ ~Fresh /\ pc' = [pc EXCEPT ![t] = "waiting"]
                 /\ result' = [result EXCEPT ![t] = Nothing]
    /\ UNCHANGED <<serves, gate, probe, cache, clock>>

StartProbe(t) ==
    /\ gate' = t
    /\ pc' = [pc EXCEPT ![t] = "probing"]
    /\ pending' = [pending EXCEPT ![t] = Endpoints]
    /\ UNCHANGED <<answered, result>>

EnterWithoutRecheck(t) ==
    /\ pc[t] = "waiting" /\ gate = NoTask
    /\ StartProbe(t)
    /\ UNCHANGED <<serves, cache, clock>>

EnterWithoutGate(t) ==
    /\ pc[t] = "waiting"
    /\ \/ Fresh /\ Answered(t, cache) /\ UNCHANGED <<gate, probe>>
       \/ ~Fresh /\ StartProbe(t)
    /\ UNCHANGED <<serves, cache, clock>>

(* The gate falls to a waiting task, which looks at the cache again.       *)
Enter(t) ==
    /\ pc[t] = "waiting" /\ gate = NoTask
    /\ \/ Fresh /\ Answered(t, cache) /\ UNCHANGED <<gate, probe>>
       \/ ~Fresh /\ StartProbe(t)
    /\ UNCHANGED <<serves, cache, clock>>

AnswerTakingGate(t, e) ==
    /\ e \in pending[t]
    /\ e \notin serves => gate = NoTask
    /\ pending' = [pending EXCEPT ![t] = @ \ {e}]
    /\ answered' = [answered EXCEPT ![t] = @ \union ({e} \intersect serves)]
    /\ UNCHANGED <<serves, pc, gate, cache, result, clock>>

(* One of the two requests of a probe ends.  A failure goes through        *)
(* error_from, which reads the cache for the instance's name: the lock it  *)
(* takes for that is never held across an await, so it does not wait.      *)
Answer(t, e) ==
    /\ e \in pending[t]
    /\ pending' = [pending EXCEPT ![t] = @ \ {e}]
    /\ answered' = [answered EXCEPT ![t] = @ \union ({e} \intersect serves)]
    /\ UNCHANGED <<serves, pc, gate, cache, result, clock>>

(* Both have ended: the result is stored, returned, and the gate released. *)
Finish(t) ==
    /\ pc[t] = "probing" /\ pending[t] = {}
    /\ cache' = [known |-> answered[t], at |-> clock]
    /\ Answered(t, cache')
    /\ gate' = NoTask
    /\ answered' = [answered EXCEPT ![t] = {}]
    /\ UNCHANGED <<serves, pending, clock>>

(* The future of a call is dropped: a waiter leaves, a holder lets the     *)
(* gate go and its requests are abandoned.                                 *)
Cancel(t) ==
    /\ pc[t] \in {"waiting", "probing"}
    /\ pc' = [pc EXCEPT ![t] = "idle"]
    /\ gate' = IF gate = t THEN NoTask ELSE gate
    /\ pending' = [pending EXCEPT ![t] = {}]
    /\ answered' = [answered EXCEPT ![t] = {}]
    /\ UNCHANGED <<serves, cache, result, clock>>

Tick ==
    /\ clock < MaxClock
    /\ clock' = clock + 1
    /\ UNCHANGED <<serves, pc, gate, probe, cache, result>>

Task(t) == Call(t) \/ Enter(t) \/ (\E e \in Endpoints : Answer(t, e)) \/ Finish(t) \/ Cancel(t)

CapsNext == Tick \/ \E t \in Tasks : Task(t)

CapsSpec == CapsInit /\ [][CapsNext]_capsVars

(* Requests end, and the gate, a queueing lock, passes no waiter over for  *)
(* ever.  Nothing says that a task is ever cancelled, or calls.            *)
CapsFairSpec ==
    /\ CapsSpec
    /\ \A t \in Tasks :
          /\ SF_capsVars(Enter(t))
          /\ WF_capsVars(Finish(t))
          /\ \A e \in Endpoints : WF_capsVars(Answer(t, e))

-----------------------------------------------------------------------------
CapsTypeOK ==
    /\ serves \subseteq Endpoints
    /\ clock \in 0..MaxClock
    /\ pc \in [Tasks -> Idle \union {"waiting", "probing"}]
    /\ gate \in Tasks \union {NoTask}
    /\ pending \in [Tasks -> SUBSET Endpoints]
    /\ answered \in [Tasks -> SUBSET Endpoints]
    /\ cache \in Capability \union {Nothing} /\ cache.at <= clock
    /\ result \in [Tasks -> Capability \union {Nothing}]

(* Concurrent first calls probe once, not once each: two tasks are never   *)
(* asking the instance at the same time.                                   *)
OneProbe == \A t, u \in Tasks : pc[t] = "probing" /\ pc[u] = "probing" => t = u

(* What the gate is for, and why looking at the cache a second time is     *)
(* enough: while a task probes, nobody else can have warmed the cache.     *)
ProbeNeeded ==
    \A t \in Tasks : pc[t] = "probing" => gate = t /\ ~Fresh

(* The gate is held by a probing task or by nobody: no cancelled or failed *)
(* call takes it away.                                                     *)
GateHeld == gate # NoTask => pc[gate] = "probing"

(* Requests are under way for a probe only, its results are exact for those *)
(* that have ended, and so is everything that is cached or was returned.   *)
AnswersExact ==
    /\ \A t \in Tasks : pending[t] # {} => pc[t] = "probing"
    /\ \A t \in Tasks :
          answered[t] = IF pc[t] = "probing" THEN serves \ pending[t] ELSE {}
    /\ \A t \in Tasks : pc[t] = "done" => result[t].known = serves
    /\ cache # Nothing => cache.known = serves

CapsIInv == CapsTypeOK /\ ProbeNeeded /\ GateHeld /\ AnswersExact

(* A client asks its instance at most once per lifetime of the answer,     *)
(* however many of its tasks call and however they are interleaved.        *)
ProbesApart ==
    [][cache' # cache => cache = Nothing \/ cache'.at - cache.at >= TTL]_capsVars

(* No call returns an answer past its lifetime.                            *)
AnswersFresh ==
    [][\A t \in Tasks : pc[t] # "done" /\ pc'[t] = "done"
            => result'[t] # Nothing /\ clock - result'[t].at < TTL]_capsVars

(* An endpoint that is missing takes nothing away from the other: an       *)
(* instance without /settings/api is still named in error messages.        *)
EndpointsIndependent == \A t \in Tasks : pc[t] = "done" => result[t].known = serves

(* Every call that is not dropped returns, also on instances that refuse   *)
(* both endpoints and with holders of the gate dropped in the middle.      *)
EveryCallReturns ==
    \A t \in Tasks : pc[t] \in {"waiting", "probing"} ~> pc[t] \in Idle
=============================================================================
