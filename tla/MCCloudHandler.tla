--------------------------- MODULE MCCloudHandler ----------------------------
(* CloudHandler for TLC: two sub-inverters, one of them listed twice, and   *)
(* messages of up to three lines.                                           *)
EXTENDS CloudHandler

CONSTANTS s1, s2
Subs == <<s1, s2, s1>>
=============================================================================
