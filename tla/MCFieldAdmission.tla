-------------------------- MODULE MCFieldAdmission --------------------------
(***************************************************************************)
(* One edge node, which starts up to three times, a cache of one id and   *)
(* two messages a second: enough for an id to fall out of the cache, for   *)
(* the rate limit to bite, and for messages to grow stale, be overtaken,   *)
(* come twice and outlive a boot and a restart of the gateway.             *)
(***************************************************************************)
EXTENDS FieldAdmission
MCSrc == {"n1"}
MCReported == {"ok"}
MCFlaws == {"schema", "bad_signature"}
=============================================================================
