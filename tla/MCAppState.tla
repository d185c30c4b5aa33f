----------------------------- MODULE MCAppState -----------------------------
(* AppState for model checking.                                            *)
EXTENDS AppState

CONSTANTS i1, i2, h1

\* A file that passes the checks, and one for each way to fail.
SomeUploads ==
    {[id |-> 1, sound |-> TRUE, chain |-> "ok"], [id |-> 2, sound |-> FALSE, chain |-> "ok"],
     [id |-> 3, sound |-> TRUE, chain |-> "bad"], [id |-> 4, sound |-> TRUE, chain |-> "throws"]}

\* The first of them.
OneUpload == {[id |-> 1, sound |-> TRUE, chain |-> "ok"]}
=============================================================================
