---------------------------- MODULE MCFrameReader ----------------------------
(* FrameReader for TLC: real bytes and the real CRC, a few requests.         *)
EXTENDS FrameReader
=============================================================================
