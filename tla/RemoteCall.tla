----------------------------- MODULE RemoteCall -----------------------------
(***************************************************************************)
(* What one call through gitea_core::http::Client promises its caller,     *)
(* with attempts, waits and the network left out.  The call may take       *)
(* effect on the server, perhaps after it has already been reported; it is *)
(* reported once.  Dispatch implements this specification.                 *)
(***************************************************************************)
CONSTANT Attempts   \* the attempts a call may make

VARIABLES repeatable,   \* whether repeating the request is harmless
          effects,      \* the attempts whose handler ran on the server
          outcome       \* what the caller was told

rcVars == <<repeatable, effects, outcome>>

(* Answers that say the server did nothing.                                *)
Definite == {"notFound", "rejected", "limited"}
Outcomes == Definite \union {"ok", "unavailable", "transport"}

Init ==
    /\ repeatable \in BOOLEAN
    /\ effects = {}
    /\ outcome = "pending"

(* The handler runs.  A request that must not be repeated takes effect at  *)
(* most once, and never when its caller was told that it did not.          *)
TakeEffect(n) ==
    /\ \/ repeatable
       \/ effects = {} /\ outcome \notin Definite
    /\ effects' = effects \union {n}
    /\ UNCHANGED <<repeatable, outcome>>

(* The caller hears the outcome: a success only of something that really   *)
(* happened, a refusal only of something that did not.                     *)
Report(o) ==
    /\ outcome = "pending"
    /\ o = "ok" => effects # {}
    /\ o \in Definite /\ ~repeatable => effects = {}
    /\ outcome' = o
    /\ UNCHANGED <<repeatable, effects>>

Next == (\E n \in Attempts : TakeEffect(n)) \/ (\E o \in Outcomes : Report(o))

Spec == Init /\ [][Next]_rcVars
=============================================================================
