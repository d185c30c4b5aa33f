---------------------------- MODULE TwoHandlers ----------------------------
(***************************************************************************)
(* DecisionEngine::handleFrameBytes on two threads at once.  The decision  *)
(* endpoint runs it under engineMutex, the hardware route in local mode    *)
(* under the admin mutex m; the two share the replay windows, which have   *)
(* no lock of their own, and the anomaly detector, which has one.          *)
(*                                                                         *)
(* One reader, with the anti-replay check, the detector and deterministic  *)
(* nonces on.  A use of the shared window has a first and a last step;     *)
(* uses that overlap, one of them a write, are a data race: from then on a *)
(* lookup may answer anything, an insertion may be lost, and the process   *)
(* may die.  Every call into the detector is one step.  The policy is a    *)
(* free choice (it is modelled in DecisionEngine) and the window starts    *)
(* empty: one life of the process is modelled.                             *)
(***************************************************************************)
EXTENDS ReplayWindow, AnomalyDetector, FiniteSets

CONSTANTS Frames,       \* frames that can arrive (see FrameType)
          NoWindow,     \* the reader has no entry in replayByReader yet
          MaxFrames,    \* bound: frames received
          MaxReleases   \* bound: quarantines lifted by an administrator

FrameType == [seq : 0..(SeqModulus - 1), tagOk : BOOLEAN, nonceOk : BOOLEAN]

ASSUME HandlersAssumption ==
    /\ Frames \subseteq FrameType /\ Frames # {}
    /\ NoWindow \notin [maxSeen : Nat, seen : SUBSET Nat, order : Seq(Nat)]
    /\ {MaxFrames, MaxReleases} \subseteq Nat

Handlers == {"endpoint", "local"}
-----------------------------------------------------------------------------
VARIABLES win,          \* the reader's window in replayByReader
          det,          \* the reader's ReaderState in the detector
          job,          \* what each handler is doing (see Idle and Receive)
          use,          \* each handler's use of the window: "none", "read", "write"
          raced,        \* history: two uses of the window conflicted
          received,     \* history: the frames received, in order
          granted,      \* history: the numbers granted
          reordered,    \* history: a number was inserted below the maximum
          releases      \* number of quarantines lifted

shared  == <<win, det>>
history == <<raced, received, granted, reordered>>
vars    == <<shared, job, use, history, releases>>

\* A handler without a request, and one that died with its process.
Idle == [pc |-> "idle"]
Crashed == [pc |-> "crashed"]

Init ==
    /\ win = NoWindow /\ det = FreshReader
    /\ job = [h \in Handlers |-> Idle] /\ use = [h \in Handlers |-> "none"]
    /\ raced = FALSE /\ received = << >>
    /\ granted = {} /\ reordered = FALSE
    /\ releases = 0

At(h, where) == job[h].pc = where

\* h goes on to a step, or returns.
Goto(h, to) ==
    job' = [job EXCEPT ![h] = IF to = "idle" THEN Idle ELSE [@ EXCEPT !.pc = to]]

\* A frame that parses, of a known reader with an accepted key version.  A
\* job is the frame and the HandleResult's reason, and as history what held
\* when the frame arrived.
Receive(h, f) ==
    /\ At(h, "idle") /\ Len(received) < MaxFrames
    /\ job' = [job EXCEPT ![h] =
                 [pc |-> "lookup", frame |-> f, reason |-> "ok",
                  wasGranted |-> f.seq \in granted, wasHeld |-> isQuarantined(det)]]
    /\ received' = Append(received, f)
    /\ UNCHANGED <<shared, use, raced, granted, reordered, releases>>
-----------------------------------------------------------------------------
(* The window                                                              *)

\* h starts a use of the given kind; it conflicts with one in progress
\* unless both only read.
Begin(h, kind) ==
    /\ use' = [use EXCEPT ![h] = kind]
    /\ raced' = (raced \/ \E o \in Handlers \ {h} : "write" \in {kind, use[o]} /\ use[o] # "none")

End(h) == use' = [use EXCEPT ![h] = "none"]

\* getOrCreateWindow: the first frame of the reader inserts into the map.
getOrCreateWindow(h) ==
    /\ At(h, "lookup")
    /\ Begin(h, IF win = NoWindow THEN "write" ELSE "read")
    /\ win' = IF win = NoWindow THEN FreshWindow ELSE win
    /\ Goto(h, "contains")
    /\ UNCHANGED <<det, received, granted, reordered, releases>>

\* What a lookup can answer.
LookupResults(seq) == IF raced THEN BOOLEAN ELSE {contains(win, seq)}

\* isReplay, and after it the decryption, which shares nothing.
checkReplay(h) ==
    /\ At(h, "contains")
    /\ End(h)
    /\ \E found \in LookupResults(job[h].frame.seq) :
         LET why == IF found THEN "replay"
                    ELSE IF ~ job[h].frame.tagOk THEN "decrypt_failed"
                    ELSE "ok"
         IN  job' = [job EXCEPT ![h].reason = why,
                                ![h].pc = IF why = "ok" THEN "remember" ELSE "detector"]
    /\ UNCHANGED <<shared, history, releases>>

BeginRemember(h) ==
    /\ At(h, "remember")
    /\ Begin(h, "write")
    /\ Goto(h, "remembering")
    /\ UNCHANGED <<shared, received, granted, reordered, releases>>

\* Mutant: the frame is accepted and its number is not kept.
ForgetNumber(h) ==
    /\ At(h, "remembering")
    /\ End(h)
    /\ Goto(h, "detector")
    /\ UNCHANGED <<shared, history, releases>>

\* remember looks the number up again; the verdict "ok" stands either way.
EndRemember(h) ==
    /\ At(h, "remembering")
    /\ End(h)
    /\ win' \in {remember(win, job[h].frame.seq)} \cup (IF raced THEN {win} ELSE {})
    /\ reordered' = (reordered \/ (win' # win /\ job[h].frame.seq < win.maxSeen))
    /\ Goto(h, "detector")
    /\ UNCHANGED <<det, raced, received, granted, releases>>

\* The undefined behaviour of a race ends the process.
Crash ==
    /\ raced
    /\ job' = [h \in Handlers |-> Crashed]
    /\ use' = [h \in Handlers |-> "none"]
    /\ UNCHANGED <<shared, history, releases>>
-----------------------------------------------------------------------------
(* The detector                                                            *)

\* isQuarantined: the frame of a quarantined reader is denied here.
checkQuarantine(h) ==
    /\ At(h, "detector")
    /\ Goto(h, IF isQuarantined(det) THEN "idle" ELSE "sequence")
    /\ UNCHANGED <<shared, use, history, releases>>

\* reportSeq, for a number above 0; a rollback denies the frame.
checkSequence(h) ==
    LET f == job[h].frame
    IN  /\ At(h, "sequence")
        /\ det' = IF f.seq > 0 THEN reportSeq(det, f.seq) ELSE det
        /\ Goto(h, IF f.seq > 0 /\ RollsBack(det, f.seq) THEN "idle"
                   ELSE IF ~ f.nonceOk THEN "mismatch" ELSE "report")
        /\ UNCHANGED <<win, use, history, releases>>

denyNonce(h) ==
    /\ At(h, "mismatch")
    /\ det' = reportNonceMismatch(det)
    /\ Goto(h, "idle")
    /\ UNCHANGED <<win, use, history, releases>>

\* The report of the verdict; only a good frame goes on to the policy.
reportVerdict(h) ==
    /\ At(h, "report")
    /\ det' = CASE job[h].reason = "replay"         -> reportReplay(det)
                [] job[h].reason = "decrypt_failed" -> reportTagFailure(det)
                [] job[h].reason = "ok"             -> reportSuccess(det, job[h].frame.seq)
    /\ Goto(h, IF job[h].reason = "ok" THEN "policy" ELSE "idle")
    /\ UNCHANGED <<win, use, history, releases>>

\* checkAccessPolicy grants or denies, and the handler returns.
checkAccessPolicy(h) ==
    /\ At(h, "policy")
    /\ granted' \in {granted, granted \cup {job[h].frame.seq}}
    /\ Goto(h, "idle")
    /\ UNCHANGED <<shared, use, raced, received, reordered, releases>>

\* unquarantineReader holds m, so the local handler is not running.
UnquarantineReader ==
    /\ At("local", "idle") /\ releases < MaxReleases
    /\ isQuarantined(det)
    /\ det' = unquarantine(det)
    /\ job' = IF At("endpoint", "idle") THEN job ELSE [job EXCEPT !["endpoint"].wasHeld = FALSE]
    /\ releases' = releases + 1
    /\ UNCHANGED <<win, use, history>>
-----------------------------------------------------------------------------
Step(h) ==
    \/ \E f \in Frames : Receive(h, f)
    \/ getOrCreateWindow(h) \/ checkReplay(h) \/ BeginRemember(h) \/ EndRemember(h)
    \/ checkQuarantine(h) \/ checkSequence(h) \/ denyNonce(h) \/ reportVerdict(h)
    \/ checkAccessPolicy(h)

\* Between requests, and after a crash, nothing happens.
Rest == (\A h \in Handlers : At(h, "idle") \/ At(h, "crashed")) /\ UNCHANGED vars

Next == (\E h \in Handlers : Step(h)) \/ UnquarantineReader \/ Crash \/ Rest

Spec == Init /\ [][Next]_vars
-----------------------------------------------------------------------------
(* Properties                                                              *)

Stages == {"lookup", "contains", "remember", "remembering", "detector", "sequence",
           "mismatch", "report", "policy"}

JobType ==
    [pc : Stages, frame : Frames, reason : {"ok", "replay", "decrypt_failed"},
     wasGranted : BOOLEAN, wasHeld : BOOLEAN]

\* Every variable has its type.
TypeOK ==
    /\ win \in {NoWindow} \cup [maxSeen : Nat, seen : SUBSET Nat, order : Seq(Nat)]
    /\ det \in ReaderState
    /\ job \in [Handlers -> {Idle, Crashed} \cup JobType]
    /\ use \in [Handlers -> {"none", "read", "write"}]
    /\ {raced, reordered} \subseteq BOOLEAN
    /\ received \in Seq(Frames) /\ granted \subseteq Nat /\ releases \in Nat

\* The lookup and the insertion of a number are two steps of the handler, so
\* two copies of a frame handled at the same time may both be granted.  That
\* is the only way: a frame that arrives once its number has been granted
\* does not reach the policy, unless the two threads raced on the window or
\* it was filled out of order (see ReplayGuard).
NoRegrantLater ==
    \A h \in Handlers : At(h, "policy") /\ job[h].wasGranted => raced \/ reordered

\* A frame that arrives while its reader is quarantined, and sees no
\* administrator lift the quarantine, does not reach the policy, whatever the
\* other handler reports about its own frame meanwhile, race or no race.
QuarantineHolds ==
    \A h \in Handlers : At(h, "policy") => ~ job[h].wasHeld

Received == {received[i] : i \in 1..Len(received)}

Copies(n) == Cardinality({i \in 1..Len(received) : received[i].seq = n})

WrongTags == Cardinality({i \in 1..Len(received) : ~ received[i].tagOk})

\* What may explain a quarantine for each of the reasons.
ReuseCause ==
    \/ raced
    \/ \E n \in 0..(SeqModulus - 1) : Copies(n) > 1
    \/ \E f, g \in Received : f.seq + Window <= g.seq

RollbackCause ==
    \E f, g \in Received :
        \/ f.seq + RollbackThreshold < g.seq
        \/ f.seq + RollbackThreshold >= SeqModulus

NonceCause == \E f \in Received : ~ f.nonceOk

TagCause == WrongTags >= TagFailStreakLimit

\* A quarantine has a cause among the frames received: a number used twice or
\* overtaken by a whole window, a number more than the threshold below
\* another, or so close to the largest uint64_t that adding the threshold to
\* it wraps, a wrong nonce, or wrong tags up to the limit.  Handling two honest frames at
\* once, in whatever order their steps fall, never looks like an anomaly.
AnomalyHasCause ==
    /\ det.quarantine = "seq_reuse" => ReuseCause
    /\ det.quarantine = "seq_rollback" => RollbackCause
    /\ det.quarantine = "nonce_mismatch" => NonceCause
    /\ det.quarantine = "tag_fail_streak" => TagCause
=============================================================================
