----------------------------- MODULE MCKeepalive -----------------------------
(* Keepalive for TLC: a tick is ten seconds, so the interval is 6, the         *)
(* production backoff 30 and the debug backoff 1.                              *)
EXTENDS Keepalive
=============================================================================
