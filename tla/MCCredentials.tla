--------------------------- MODULE MCCredentials ----------------------------
(* Two accounts on one host, and enough invocations for a store, a fallback *)
(* of it, a logout and what is left behind to meet.                         *)
EXTENDS Credentials, TLC

MCSymmetry == Permutations(Logins)
=============================================================================
