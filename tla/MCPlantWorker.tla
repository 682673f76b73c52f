---------------------------- MODULE MCPlantWorker ----------------------------
(* PlantWorker for TLC: two requests, and a tick of ten seconds, so that the *)
(* grace period is 3, the production backoff 30, the debug backoff 1 and the *)
(* longest cancelled Solarman exchange (10 writes and reads of 5 s) 10.      *)
EXTENDS PlantWorker
=============================================================================
