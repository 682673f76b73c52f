------------------------------ MODULE MCDriver -------------------------------
(* Driver for TLC.  connectionAttempts = 11 and sequenceAttempts = 10 become *)
(* small; with one number less than calls the last call uses one again.      *)
EXTENDS Driver
=============================================================================
