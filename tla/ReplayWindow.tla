---------------------------- MODULE ReplayWindow ----------------------------
(***************************************************************************)
(* The sliding replay window of protocol_lib (class ReplayWindow), as      *)
(* operators on a record that holds its three mutable members:             *)
(*   maxSeen  _maxSeen, the highest sequence number remembered;            *)
(*   seen     _seen, the hash set used for lookup;                         *)
(*   order    _order, the deque of insertions, oldest first.               *)
(* Sequence numbers are uint64_t in the code.  No operation adds to one    *)
(* and the only subtraction is guarded, so nothing here can wrap and they  *)
(* are plain naturals.                                                     *)
(***************************************************************************)
EXTENDS Naturals, Sequences

CONSTANT Window     \* capacity of the window (_window)

\* FrameHandler::getOrCreateWindow never builds a window of capacity 0.
ASSUME WindowAssumption == Window \in Nat \ {0}

\* A window as the constructor leaves it.
FreshWindow == [maxSeen |-> 0, seen |-> {}, order |-> << >>]

\* Mutant: the lowest number of the live range counts as too old.
TooOldEarly(w, seq) == w.maxSeen >= Window /\ seq <= w.maxSeen - Window + 1

\* Mutant: the highest number below the live range does not.
TooOldLate(w, seq) == w.maxSeen >= Window /\ seq < w.maxSeen - Window

\* Is seq below the live range (maxSeen - Window, maxSeen]?
isTooOld(w, seq) ==
    /\ w.maxSeen # 0
    /\ w.maxSeen >= Window
    /\ seq <= w.maxSeen - Window

\* The lookup that the frame handler calls "replay".
contains(w, seq) == isTooOld(w, seq) \/ seq \in w.seen

\* Mutant: an off-by-one in the capacity check.
EvictOneEarly(w) ==
    IF Len(w.order) >= Window
    THEN [w EXCEPT !.seen = @ \ {Head(w.order)}, !.order = Tail(@)]
    ELSE w

\* Forget the oldest INSERTION once the deque exceeds the capacity.
evictOldestIfFull(w) ==
    IF Len(w.order) > Window
    THEN [w EXCEPT !.seen = @ \ {Head(w.order)}, !.order = Tail(@)]
    ELSE w

\* Record seq; a sequence number that is contained already changes nothing.
remember(w, seq) ==
    IF contains(w, seq)
    THEN w
    ELSE evictOldestIfFull(
           [maxSeen |-> IF seq > w.maxSeen THEN seq ELSE w.maxSeen,
            seen    |-> w.seen \cup {seq},
            order   |-> Append(w.order, seq)])
=============================================================================
