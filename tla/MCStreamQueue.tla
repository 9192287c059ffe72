--------------------------- MODULE MCStreamQueue ----------------------------
(* Two transaction ids and keyless messages over a log of three rows, with  *)
(* a batch smaller than the log.                                            *)
EXTENDS StreamQueue

CONSTANTS t1, t2
=============================================================================
