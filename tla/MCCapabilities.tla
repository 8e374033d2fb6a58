--------------------------- MODULE MCCapabilities ---------------------------
(* Three callers of one client, one waiting while another probes and a      *)
(* third arrives late, over a little more than two lifetimes of an answer.  *)
EXTENDS Capabilities
=============================================================================
