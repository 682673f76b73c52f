----------------------------- MODULE MCLogStream -----------------------------
(* LogStream for TLC.  Three days are enough for a cursor that is of today, *)
(* of yesterday and older than that.                                        *)
EXTENDS LogStream
=============================================================================
