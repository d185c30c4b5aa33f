--------------------------- MODULE MCReplayGuard ---------------------------
(* ReplayGuard for model checking: the numbers 0..7 around a window of 3.  *)
EXTENDS ReplayGuard

MCSeqs == 0..7
=============================================================================
