---------------------------- MODULE MCStateStore -----------------------------
(* StateStore for TLC: a request handler and the worker's shutdown path use  *)
(* one file; the constants are in state_store.cfg.                           *)
EXTENDS StateStore
=============================================================================
