--------------------------- MODULE MCTwoHandlers ---------------------------
(* TwoHandlers for model checking.  The numbers 0..4 lie around a window   *)
(* of 2 and a rollback threshold of 1; they wrap at 5, as 2^64 does in the *)
(* code, so that 4 stands for the largest uint64_t.                        *)
EXTENDS TwoHandlers

Frame(n, t, c) == [seq |-> n, tagOk |-> t, nonceOk |-> c]

MCFrames == {Frame(n, TRUE, TRUE) : n \in 0..4} \cup {Frame(2, FALSE, TRUE), Frame(2, TRUE, FALSE)}
=============================================================================
