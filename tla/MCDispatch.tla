---------------------------- MODULE MCDispatch ----------------------------
(* One method of each kind: reading, idempotent writing, and the two that   *)
(* must not be repeated.                                                    *)
EXTENDS Dispatch

MCMethods == {"GET", "PUT", "POST", "PATCH"}
=============================================================================
