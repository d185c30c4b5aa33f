--------------------------- MODULE ReplayPromise ---------------------------
(***************************************************************************)
(* What a replay guard of a given width promises to the frame handler,     *)
(* stated without saying how it remembers: a sequence number is accepted   *)
(* at most once, and one that is new is refused only when it lies at least *)
(* Window below some accepted number.                                      *)
(***************************************************************************)
EXTENDS Naturals

CONSTANTS Window, Seqs

VARIABLES accepted,     \* the numbers accepted so far
          answer        \* <<seq, TRUE|FALSE>> of the last call, << >> before it

vars == <<accepted, answer>>

Stale(s) == \E t \in accepted : s + Window <= t

Init == accepted = {} /\ answer = << >>

Accept(s) ==
    /\ s \notin accepted
    /\ ~ Stale(s)
    /\ accepted' = accepted \cup {s}
    /\ answer' = <<s, TRUE>>

Refuse(s) ==
    /\ s \in accepted \/ Stale(s)
    /\ answer' = <<s, FALSE>>
    /\ UNCHANGED accepted

Next == \E s \in Seqs : Accept(s) \/ Refuse(s)

Spec == Init /\ [][Next]_vars
=============================================================================
