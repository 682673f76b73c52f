------------------------------ MODULE MCProcess ------------------------------
(* Process for TLC: two plants, two log levels and a subnet with more hosts  *)
(* than goroutines to scan it.                                               *)
EXTENDS Process
=============================================================================
