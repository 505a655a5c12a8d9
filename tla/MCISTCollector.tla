--------------------------- MODULE MCISTCollector ---------------------------
(* Small instances of ISTCollector for TLC. *)
EXTENDS ISTCollector

CONSTANTS loop, s1, g1
=============================================================================
