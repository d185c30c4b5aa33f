-------------------------- MODULE AnomalyDetector --------------------------
(***************************************************************************)
(* ProtocolAnomalyDetector of access_core, as operators on the ReaderState *)
(* of one reader.  A reader without an entry in _readers behaves like one  *)
(* with a default-constructed entry.  Every method runs under the          *)
(* detector's own mutex, so each operator is one atomic step.  Timestamps  *)
(* and detail texts of a quarantine are left out.                          *)
(***************************************************************************)
EXTENDS Naturals

CONSTANTS RollbackThreshold,    \* DetectorConfig::rollbackThreshold
          TagFailStreakLimit,   \* DetectorConfig::tagFailStreakLimit
          SeqModulus            \* 2^64 in the code: sums of sequence numbers wrap

ASSUME DetectorAssumption ==
    /\ RollbackThreshold \in Nat
    /\ TagFailStreakLimit \in Nat
    /\ SeqModulus \in Nat \ {0}

AnomalyType == {"seq_reuse", "seq_rollback", "nonce_mismatch", "tag_fail_streak"}

NotQuarantined == "not_quarantined"

FreshReader ==
    [maxSeenSeq |-> 0, consecutiveTagFails |-> 0, quarantine |-> NotQuarantined]

ReaderState ==
    [maxSeenSeq : Nat, consecutiveTagFails : Nat,
     quarantine : AnomalyType \cup {NotQuarantined}]

isQuarantined(d) == d.quarantine # NotQuarantined

doQuarantine(d, reason) == [d EXCEPT !.quarantine = reason]

\* Mutant: any step backwards counts as a rollback.
RollsBackAtOnce(d, seq) == d.maxSeenSeq > 0 /\ seq < d.maxSeenSeq

\* The test of reportSeq; the sum is a uint64_t and wraps.
RollsBack(d, seq) ==
    /\ d.maxSeenSeq > 0
    /\ (seq + RollbackThreshold) % SeqModulus < d.maxSeenSeq

RaiseMaxSeen(d, seq) ==
    IF seq > d.maxSeenSeq THEN [d EXCEPT !.maxSeenSeq = seq] ELSE d

reportSeq(d, seq) ==
    IF RollsBack(d, seq) THEN doQuarantine(d, "seq_rollback") ELSE RaiseMaxSeen(d, seq)

reportReplay(d) == doQuarantine(d, "seq_reuse")

reportNonceMismatch(d) == doQuarantine(d, "nonce_mismatch")

\* Mutant: the streak is compared before it is counted.
ReportTagFailureLate(d) ==
    LET n == [d EXCEPT !.consecutiveTagFails = @ + 1]
    IN  IF d.consecutiveTagFails >= TagFailStreakLimit
        THEN doQuarantine(n, "tag_fail_streak") ELSE n

\* Counts one failure; at the limit the reader is quarantined.
reportTagFailure(d) ==
    LET n == [d EXCEPT !.consecutiveTagFails = @ + 1]
    IN  IF n.consecutiveTagFails >= TagFailStreakLimit
        THEN doQuarantine(n, "tag_fail_streak") ELSE n

\* Mutant: a good frame lifts the quarantine as well.
ReportSuccessLifts(d, seq) ==
    RaiseMaxSeen([d EXCEPT !.consecutiveTagFails = 0, !.quarantine = NotQuarantined], seq)

reportSuccess(d, seq) ==
    RaiseMaxSeen([d EXCEPT !.consecutiveTagFails = 0], seq)

\* Lifts a quarantine and forgives the streak; no effect otherwise.
unquarantine(d) ==
    IF isQuarantined(d)
    THEN [d EXCEPT !.quarantine = NotQuarantined, !.consecutiveTagFails = 0]
    ELSE d
=============================================================================
