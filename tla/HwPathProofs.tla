---------------------------- MODULE HwPathProofs ----------------------------
(***************************************************************************)
(* Theorems about HwPath, for every number of scans and attempts, every    *)
(* capacity of the window, every threshold and any number of faults.       *)
(***************************************************************************)
EXTENDS HwPath, FiniteSetTheorems, TLAPS

WindowType == [maxSeen : Nat, seen : SUBSET Seqs, order : Seq(Seqs)]
PcType == {"none", "request", "post", "wait", "local", "answer", "done"}
VerdictType == {"none", "allow", "deny", "error"}
JobType == [pc : PcType, attempt : 1..Attempts, verdict : VerdictType]
-----------------------------------------------------------------------------
(* What the operators return.                                              *)

\* A fresh window is a window.
LEMMA FreshWindowType == FreshWindow \in WindowType
  BY DEF FreshWindow, WindowType

\* remember() returns a window over the numbers of scans.
LEMMA RememberType ==
    ASSUME NEW w \in WindowType, NEW n \in Seqs
    PROVE  remember(w, n) \in WindowType
<1> DEFINE q == Append(w.order, n)
           top == IF n > w.maxSeen THEN n ELSE w.maxSeen
           v == [maxSeen |-> top, seen |-> w.seen \cup {n}, order |-> q]
<1>1. w.maxSeen \in Nat /\ w.seen \in SUBSET Seqs /\ w.order \in Seq(Seqs) /\ n \in Nat
  BY DEF WindowType, Seqs
<1>2. top \in Nat /\ w.seen \cup {n} \in SUBSET Seqs
  BY <1>1
<1>3. q \in Seq(Seqs) /\ Len(q) = Len(w.order) + 1 /\ Len(w.order) \in Nat
  BY <1>1
<1> HIDE DEF q
<1>4. Tail(q) \in Seq(Seqs)
  <2>1. q # << >>
    <3>1. Len(q) # 0
      BY <1>3
    <3> QED
      BY <3>1
  <2> QED
    BY <1>3, <2>1
<1>5. v \in WindowType
  BY <1>2, <1>3 DEF WindowType
<1>6. [v EXCEPT !.seen = @ \ {Head(v.order)}, !.order = Tail(@)] \in WindowType
  BY <1>2, <1>4 DEF WindowType
<1>7. evictOldestIfFull(v) \in WindowType
  BY <1>5, <1>6 DEF evictOldestIfFull
<1> QED
  BY <1>7 DEF remember, q

\* What remember() adds: at most the number itself.
LEMMA RememberAdds ==
    ASSUME NEW w \in WindowType, NEW n \in Seqs
    PROVE  /\ remember(w, n).seen \subseteq w.seen \cup {n}
           /\ remember(w, n).maxSeen \in {w.maxSeen, n}
<1> DEFINE top == IF n > w.maxSeen THEN n ELSE w.maxSeen
           v == [maxSeen |-> top, seen |-> w.seen \cup {n}, order |-> Append(w.order, n)]
<1>1. evictOldestIfFull(v).seen \subseteq v.seen /\ evictOldestIfFull(v).maxSeen = v.maxSeen
  <2>1. v.seen = w.seen \cup {n} /\ v.maxSeen = top
    OBVIOUS
  <2>2. CASE Len(v.order) > Window
    <3>1. evictOldestIfFull(v) = [v EXCEPT !.seen = @ \ {Head(v.order)}, !.order = Tail(@)]
      BY <2>2 DEF evictOldestIfFull
    <3>2. evictOldestIfFull(v).seen = v.seen \ {Head(v.order)}
      BY <3>1
    <3>3. evictOldestIfFull(v).maxSeen = v.maxSeen
      BY <3>1
    <3> QED
      BY <3>2, <3>3
  <2>3. CASE ~ (Len(v.order) > Window)
    BY <2>3 DEF evictOldestIfFull
  <2> QED
    BY <2>2, <2>3
<1>2. CASE contains(w, n)
  BY <1>2 DEF remember
<1>3. CASE ~ contains(w, n)
  <2>1. remember(w, n) = evictOldestIfFull(v)
    BY <1>3 DEF remember
  <2>2. v.seen = w.seen \cup {n} /\ v.maxSeen \in {w.maxSeen, n}
    OBVIOUS
  <2> QED
    BY <1>1, <2>1, <2>2
<1> QED
  BY <1>2, <1>3

\* The detector's operations return a reader state; the highest number seen
\* stays or becomes the number reported.
LEMMA DetectorType ==
    ASSUME NEW d \in ReaderState, NEW n \in Seqs
    PROVE  /\ FreshReader \in ReaderState
           /\ reportSeq(d, n) \in ReaderState
           /\ reportReplay(d) \in ReaderState
           /\ reportSuccess(d, n) \in ReaderState
           /\ unquarantine(d) \in ReaderState
           /\ reportSeq(d, n).maxSeenSeq \in {d.maxSeenSeq, n}
           /\ reportReplay(d).maxSeenSeq = d.maxSeenSeq
           /\ reportSuccess(d, n).maxSeenSeq \in {d.maxSeenSeq, n}
           /\ unquarantine(d).maxSeenSeq = d.maxSeenSeq
           /\ ~ isQuarantined(unquarantine(d))
           /\ isQuarantined(reportSuccess(d, n)) = isQuarantined(d)
           /\ ~ RollsBack(d, n) => isQuarantined(reportSeq(d, n)) = isQuarantined(d)
<1> USE DEF ReaderState, AnomalyType, NotQuarantined, doQuarantine, isQuarantined
<1>0. n \in Nat
  BY DEF Seqs
<1>1. FreshReader \in ReaderState
  BY DEF FreshReader
<1>2. /\ reportReplay(d) \in ReaderState
      /\ doQuarantine(d, "seq_rollback") \in ReaderState
      /\ reportReplay(d).maxSeenSeq = d.maxSeenSeq
      /\ doQuarantine(d, "seq_rollback").maxSeenSeq = d.maxSeenSeq
  BY DEF reportReplay
<1>3. /\ RaiseMaxSeen(d, n) \in ReaderState
      /\ RaiseMaxSeen(d, n).maxSeenSeq \in {d.maxSeenSeq, n}
      /\ RaiseMaxSeen(d, n).quarantine = d.quarantine
  BY <1>0 DEF RaiseMaxSeen
<1>4. /\ reportSeq(d, n) \in ReaderState
      /\ reportSeq(d, n).maxSeenSeq \in {d.maxSeenSeq, n}
      /\ ~ RollsBack(d, n) => isQuarantined(reportSeq(d, n)) = isQuarantined(d)
  BY <1>2, <1>3 DEF reportSeq
<1>5. /\ reportSuccess(d, n) \in ReaderState
      /\ reportSuccess(d, n).maxSeenSeq \in {d.maxSeenSeq, n}
      /\ isQuarantined(reportSuccess(d, n)) = isQuarantined(d)
  BY <1>0 DEF reportSuccess, RaiseMaxSeen
<1>6. /\ unquarantine(d) \in ReaderState
      /\ unquarantine(d).maxSeenSeq = d.maxSeenSeq
      /\ ~ isQuarantined(unquarantine(d))
  BY DEF unquarantine
<1> QED
  BY <1>1, <1>2, <1>4, <1>5, <1>6

\* The next attempt, or the end of the job.
LEMMA RetryType ==
    ASSUME job \in [Seqs -> JobType], NEW n \in Seqs
    PROVE  /\ Retry(n) \in [Seqs -> JobType]
           /\ \A k \in Seqs \ {n} : Retry(n)[k] = job[k]
           /\ Retry(n)[n].pc \in {"post", "answer"}
           /\ Retry(n)[n].pc = "post" => Retry(n)[n].attempt > job[n].attempt
           /\ Retry(n)[n].attempt >= job[n].attempt
           /\ Retry(n)[n].verdict = "allow" => job[n].verdict = "allow"
<1> USE DEF JobType, PcType, VerdictType
<1>1. job[n] \in JobType /\ job[n].attempt \in 1..Attempts
  OBVIOUS
<1>2. CASE job[n].attempt < Attempts
  <2> DEFINE j == [job[n] EXCEPT !.pc = "post", !.attempt = @ + 1]
  <2>1. Retry(n) = [job EXCEPT ![n] = j]
    BY <1>2 DEF Retry
  <2>2. j.pc = "post" /\ j.attempt = job[n].attempt + 1 /\ j.verdict = job[n].verdict
    BY <1>1
  <2>3. job[n].attempt + 1 \in 1..Attempts
    BY <1>1, <1>2, HwAssumption
  <2>4. j \in JobType
    BY <1>1, <2>3
  <2> HIDE DEF j
  <2> QED
    BY <1>1, <2>1, <2>2, <2>4
<1>3. CASE ~ (job[n].attempt < Attempts)
  <2> DEFINE j == [job[n] EXCEPT !.pc = "answer", !.verdict = "deny"]
  <2>1. Retry(n) = [job EXCEPT ![n] = j]
    BY <1>3 DEF Retry
  <2>2. j \in JobType /\ j.pc = "answer" /\ j.attempt = job[n].attempt /\ j.verdict = "deny"
    BY <1>1
  <2> HIDE DEF j
  <2> QED
    BY <1>1, <2>1, <2>2
<1> QED
  BY <1>2, <1>3
\* Finish sets the verdict and moves to the answer; nothing else.
LEMMA FinishType ==
    ASSUME job \in [Seqs -> JobType], NEW n \in Seqs, NEW v \in VerdictType, Finish(n, v)
    PROVE  /\ job' \in [Seqs -> JobType]
           /\ \A k \in Seqs \ {n} : job'[k] = job[k]
           /\ job'[n].pc = "answer" /\ job'[n].attempt = job[n].attempt
           /\ job'[n].verdict = v
<1> DEFINE j == [job[n] EXCEPT !.pc = "answer", !.verdict = v]
<1>1. job[n] \in JobType
  OBVIOUS
<1>2. job' = [job EXCEPT ![n] = j]
  BY DEF Finish
<1>3. /\ j \in JobType
      /\ j.pc = "answer" /\ j.attempt = job[n].attempt /\ j.verdict = v
  BY <1>1 DEF JobType, PcType
<1> HIDE DEF j
<1> QED
  BY <1>2, <1>3
-----------------------------------------------------------------------------
(* Type correctness.                                                       *)

\* TypeOK, conjunct by conjunct.
TypeInv ==
    /\ cfg \in ConfigType
    /\ hwSeq \in 0..MaxScans /\ nvSeq \in 0..MaxScans /\ dev \in 0..MaxScans
    /\ job \in [Seqs -> JobType]
    /\ wire \subseteq Seqs \X (1..Attempts)
    /\ win \in WindowType
    /\ det \in ReaderState
    /\ shown \in [Seqs -> {"none", "allow", "deny"}]
    /\ granted \in [Seqs -> Nat] /\ handled \in Seq(Seqs)

\* The two forms say the same.
LEMMA TypeForms == TypeInv <=> TypeOK
  BY DEF TypeInv, TypeOK, JobType, PcType, VerdictType, WindowType

\* What a handled frame leaves behind is well typed.
LEMMA HandleType ==
    ASSUME TypeInv, NEW n \in Seqs, NEW out \in Outcomes
    PROVE  /\ WindowAfter(n, out) \in WindowType
           /\ DetectorAfter(n, out) \in ReaderState
           /\ Verdict(n, out) \in {"allow", "deny", "error"}
<1>1. WindowAfter(n, out) \in WindowType
  BY RememberType DEF WindowAfter, TypeInv
<1>2. reportSeq(det, n) \in ReaderState
  BY DetectorType DEF TypeInv
<1>3. /\ reportReplay(reportSeq(det, n)) \in ReaderState
      /\ reportSuccess(reportSeq(det, n), n) \in ReaderState
  BY <1>2, DetectorType
<1>4. DetectorAfter(n, out) \in ReaderState
  BY <1>2, <1>3 DEF DetectorAfter, TypeInv
<1>5. Verdict(n, out) \in {"allow", "deny", "error"}
  BY DEF Verdict
<1> QED
  BY <1>1, <1>4, <1>5

\* The engine's part of a decision, or an exception before it, keeps the types.
LEMMA EngineType ==
    ASSUME TypeInv, NEW n \in Seqs, NEW out \in Outcomes,
           Handle(n, out) \/ Fails
    PROVE  /\ win' \in WindowType /\ det' \in ReaderState
           /\ granted' \in [Seqs -> Nat] /\ handled' \in Seq(Seqs)
<1>1. CASE Handle(n, out)
  BY <1>1, HandleType DEF Handle, TypeInv
<1>2. CASE Fails
  BY <1>2 DEF Fails, engine, TypeInv
<1> QED
  BY <1>1, <1>2

\* Every step keeps every type.
LEMMA TypeStep == TypeInv /\ [Next]_vars => TypeInv'
<1> SUFFICES ASSUME TypeInv, [Next]_vars
             PROVE  TypeInv'
  OBVIOUS
<1> USE DEF TypeInv
<1>1. CASE postUidToServer
  <2>1. hwSeq + 1 \in 0..MaxScans /\ hwSeq + 1 \in Seqs
    BY <1>1, HwAssumption DEF postUidToServer, Seqs
  <2>2. [NoJob EXCEPT !.pc = "request"] \in JobType
    <3>1. [NoJob EXCEPT !.pc = "request"] = [pc |-> "request", attempt |-> 1, verdict |-> "none"]
      BY DEF NoJob
    <3>2. 1 \in 1..Attempts /\ "request" \in PcType /\ "none" \in VerdictType
      BY HwAssumption DEF PcType, VerdictType
    <3> QED
      BY <3>1, <3>2 DEF JobType
  <2>3. job' \in [Seqs -> JobType]
    BY <1>1, <2>1, <2>2 DEF postUidToServer
  <2> QED
    BY <1>1, <2>1, <2>3 DEF postUidToServer, engine, counts
<1>2. CASE DeviceGivesUp
  <2>1. shown' \in [Seqs -> {"none", "allow", "deny"}] /\ dev' = 0
    BY <1>2 DEF DeviceGivesUp, Signal
  <2>2. 0 \in 0..MaxScans
    BY HwAssumption
  <2> QED
    BY <1>2, <2>1, <2>2 DEF DeviceGivesUp, engine, counts
<1>3. CASE Reboot
  <2>1. 0 \in 0..MaxScans
    BY HwAssumption
  <2> QED
    BY <1>3, <2>1 DEF Reboot, engine
<1>4. ASSUME NEW n \in Seqs, Work(n)
      PROVE  TypeInv'
  <2>1. CASE RefuseRequest(n) \/ UnknownReader(n)
    <3>1. job' \in [Seqs -> JobType]
      <4>1. Finish(n, "error") \/ Finish(n, "deny")
        BY <2>1 DEF RefuseRequest, UnknownReader
      <4> QED
        BY <4>1, FinishType DEF VerdictType
    <3> QED
      BY <2>1, <3>1 DEF RefuseRequest, UnknownReader, device, engine, counts
  <2>2. CASE buildEncryptedFrameBytes(n)
    <3>1. job' \in [Seqs -> JobType]
      BY <2>2, ZenonT(40) DEF buildEncryptedFrameBytes, JobType, PcType
    <3> QED
      BY <2>2, <3>1 DEF buildEncryptedFrameBytes, device, engine, counts
  <2>3. CASE LoseRequest(n)
    <3>1. job' \in [Seqs -> JobType]
      BY <2>3 DEF LoseRequest, JobType, PcType
    <3> QED
      BY <2>3, <3>1 DEF LoseRequest, device, engine, counts
  <2>4. CASE Post(n)
    <3>1. job' \in [Seqs -> JobType]
      BY <2>4 DEF Post, JobType, PcType
    <3>2. <<n, job[n].attempt>> \in Seqs \X (1..Attempts)
      BY DEF JobType
    <3> QED
      BY <2>4, <3>1, <3>2 DEF Post, device, engine, counts
  <2>5. CASE AttemptFails(n)
    <3>1. job' \in [Seqs -> JobType]
      BY <2>5, RetryType DEF AttemptFails
    <3> QED
      BY <2>5, <3>1 DEF AttemptFails, device, engine, counts
  <2>6. CASE Answer(n)
    <3>1. job' \in [Seqs -> JobType]
      BY <2>6 DEF Answer, JobType, PcType
    <3>2. shown' \in [Seqs -> {"none", "allow", "deny"}] /\ dev' \in 0..MaxScans
      <4>1. CASE dev = n
        <5>1. Signal(n, job[n].verdict)
          BY <2>6, <4>1 DEF Answer
        <5>2. shown' \in [Seqs -> {"none", "allow", "deny"}] /\ dev' = 0
          BY <5>1 DEF Signal
        <5>3. 0 \in 0..MaxScans
          BY HwAssumption
        <5> QED
          BY <5>2, <5>3
      <4>2. CASE dev # n
        BY <2>6, <4>2 DEF Answer
      <4> QED
        BY <4>1, <4>2
    <3> QED
      BY <2>6, <3>1, <3>2 DEF Answer, engine, counts
  <2>7. ASSUME NEW out \in Outcomes, DecideLocal(n, out)
        PROVE  TypeInv'
    <3>1. Handle(n, out) \/ Fails
      BY <2>7 DEF DecideLocal
    <3>2. \E v \in VerdictType : Finish(n, v)
      BY <2>7, HandleType DEF DecideLocal, VerdictType
    <3>3. job' \in [Seqs -> JobType]
      BY <3>2, FinishType
    <3> QED
      BY <2>7, <3>1, <3>3, EngineType DEF DecideLocal, device, counts
  <2> QED
    BY <1>4, <2>1, <2>2, <2>3, <2>4, <2>5, <2>6, <2>7 DEF Work
<1>5. ASSUME NEW nk \in wire, NEW out \in Outcomes, DecideRemote(nk[1], nk[2], out)
      PROVE  TypeInv'
  <2>1. nk[1] \in Seqs
    OBVIOUS
  <2>2. Handle(nk[1], out) \/ Fails
    BY <1>5 DEF DecideRemote
  <2>3. \/ job' = job \/ job' = Retry(nk[1])
        \/ \E v \in VerdictType : Finish(nk[1], v)
    BY <1>5, <2>1, HandleType DEF DecideRemote, VerdictType
  <2>4. job' \in [Seqs -> JobType]
    BY <2>1, <2>3, RetryType, FinishType
  <2> QED
    BY <1>5, <2>1, <2>2, <2>4, EngineType DEF DecideRemote, device, counts
<1>6. CASE Release
  <2>1. unquarantine(det) \in ReaderState
    BY DEF unquarantine, ReaderState, NotQuarantined
  <2> QED
    BY <1>6, <2>1 DEF Release, device
<1>7. CASE Restart
  <2>1. job' \in [Seqs -> JobType]
    BY <1>7 DEF Restart, JobType, PcType
  <2>2. FreshReader \in ReaderState
    BY DEF FreshReader, ReaderState, NotQuarantined
  <2> QED
    BY <1>7, <2>1, <2>2, FreshWindowType DEF Restart, device
<1>8. CASE UNCHANGED vars
  BY <1>8 DEF vars, device, engine, counts
<1> QED
  BY <1>1, <1>2, <1>3, <1>4, <1>5, <1>6, <1>7, <1>8 DEF Next

\* The initial state is well typed.
LEMMA TypeInit == Init => TypeInv
<1> SUFFICES ASSUME Init
             PROVE  TypeInv
  OBVIOUS
<1>1. NoJob \in JobType
  BY HwAssumption DEF NoJob, JobType, PcType, VerdictType
<1>2. FreshReader \in ReaderState
  BY DEF FreshReader, ReaderState, NotQuarantined
<1>3. 0 \in 0..MaxScans
  BY HwAssumption
<1> QED
  BY <1>1, <1>2, <1>3, FreshWindowType, HwAssumption DEF Init, TypeInv

\* TypeOK is an invariant: jobs never run past their attempts and the window and
\* the detector stay well formed through every retry, reboot and restart.
THEOREM TypeCorrect == Spec => []TypeOK
<1>1. TypeInv /\ [Next]_vars => TypeInv'
  BY TypeStep
<1> QED
  BY <1>1, TypeInit, TypeForms, PTL DEF Spec
-----------------------------------------------------------------------------
(* The door opens only for a grant.                                        *)

\* A job that holds an "allow" got it from the engine.
AllowIsGrant == \A n \in Seqs : job[n].verdict = "allow" => granted[n] > 0

GrantInv == TypeInv /\ AllowIsGrant /\ AllowShownIfGranted

\* Grants are never taken back, and an answer "allow" comes with one.
LEMMA HandleGrants ==
    ASSUME TypeInv, NEW n \in Seqs, NEW out \in Outcomes,
           Handle(n, out) \/ Fails
    PROVE  /\ \A k \in Seqs : granted[k] > 0 => granted'[k] > 0
           /\ Handle(n, out) /\ Verdict(n, out) = "allow" => granted'[n] > 0
<1>1. granted \in [Seqs -> Nat]
  BY DEF TypeInv
<1>2. CASE Handle(n, out)
  BY <1>1, <1>2 DEF Handle
<1>3. CASE Fails /\ ~ Handle(n, out)
  BY <1>3 DEF Fails, engine
<1> QED
  BY <1>2, <1>3

\* Every step keeps the link between verdicts, lights and grants.
LEMMA GrantStep == GrantInv /\ [Next]_vars => GrantInv'
<1> SUFFICES ASSUME GrantInv, [Next]_vars
             PROVE  AllowIsGrant' /\ AllowShownIfGranted'
  BY TypeStep DEF GrantInv
<1>0. TypeInv /\ AllowIsGrant /\ AllowShownIfGranted
  BY DEF GrantInv
<1> USE DEF AllowIsGrant, AllowShownIfGranted
<1>1. CASE postUidToServer
  BY <1>0, <1>1 DEF postUidToServer, engine, TypeInv, NoJob
<1>2. CASE DeviceGivesUp
  BY <1>0, <1>2 DEF DeviceGivesUp, Signal, parseAllowFromJson, engine, TypeInv
<1>3. CASE Reboot
  BY <1>0, <1>3 DEF Reboot, engine
<1>4. ASSUME NEW n \in Seqs, Work(n)
      PROVE  AllowIsGrant' /\ AllowShownIfGranted'
  <2>1. CASE RefuseRequest(n) \/ UnknownReader(n)
    BY <1>0, <2>1, ZenonT(40) DEF RefuseRequest, UnknownReader, Finish, device, engine, TypeInv, JobType
  <2>2. CASE buildEncryptedFrameBytes(n)
    BY <1>0, <2>2 DEF buildEncryptedFrameBytes, device, engine, TypeInv, JobType
  <2>3. CASE LoseRequest(n)
    BY <1>0, <2>3 DEF LoseRequest, device, engine, TypeInv, JobType
  <2>4. CASE Post(n)
    BY <1>0, <2>4 DEF Post, device, engine, TypeInv, JobType
  <2>5. CASE AttemptFails(n)
    <3>1. \A k \in Seqs : job'[k].verdict = "allow" => job[k].verdict = "allow"
      BY <1>0, <2>5, RetryType DEF AttemptFails, TypeInv
    <3> QED
      BY <1>0, <2>5, <3>1 DEF AttemptFails, device, engine
  <2>6. CASE Answer(n)
    <3>1. \A k \in Seqs : job'[k].verdict = job[k].verdict
      BY <1>0, <2>6 DEF Answer, TypeInv, JobType
    <3>2. \A k \in Seqs : shown'[k] = "allow" => shown[k] = "allow" \/ job[k].verdict = "allow"
      BY <1>0, <2>6 DEF Answer, Signal, parseAllowFromJson, TypeInv
    <3> QED
      BY <1>0, <2>6, <3>1, <3>2 DEF Answer, engine
  <2>7. ASSUME NEW out \in Outcomes, DecideLocal(n, out)
        PROVE  AllowIsGrant' /\ AllowShownIfGranted'
    <3>1. Handle(n, out) \/ Fails
      BY <2>7 DEF DecideLocal
    <3>2. \A k \in Seqs \ {n} : job'[k] = job[k]
      BY <1>0, <2>7 DEF DecideLocal, Finish, TypeInv
    <3>3. job'[n].verdict = "allow" => Handle(n, out) /\ Verdict(n, out) = "allow"
      BY <1>0, <2>7 DEF DecideLocal, Finish, TypeInv, JobType
    <3> QED
      BY <1>0, <2>7, <3>1, <3>2, <3>3, HandleGrants DEF DecideLocal, device
  <2> QED
    BY <1>4, <2>1, <2>2, <2>3, <2>4, <2>5, <2>6, <2>7 DEF Work
<1>5. ASSUME NEW nk \in wire, NEW out \in Outcomes, DecideRemote(nk[1], nk[2], out)
      PROVE  AllowIsGrant' /\ AllowShownIfGranted'
  <2> DEFINE n == nk[1]
  <2>1. n \in Seqs
    BY <1>0 DEF TypeInv
  <2>2. Handle(n, out) \/ Fails
    BY <1>5 DEF DecideRemote
  <2>3. shown' = shown
    BY <1>5 DEF DecideRemote, device
  <2>4. \/ job' = job
        \/ job' = Retry(n)
        \/ Handle(n, out) /\ Finish(n, Verdict(n, out))
    BY <1>5 DEF DecideRemote
  <2> HIDE DEF n
  <2>5. \A k \in Seqs : job'[k].verdict = "allow" =>
                           \/ job[k].verdict = "allow"
                           \/ k = n /\ Handle(n, out) /\ Verdict(n, out) = "allow"
    <3>1. job \in [Seqs -> JobType]
      BY <1>0 DEF TypeInv
    <3>2. CASE job' = Retry(n)
      BY <2>1, <3>1, <3>2, RetryType
    <3>3. CASE Handle(n, out) /\ Finish(n, Verdict(n, out))
      BY <2>1, <3>1, <3>3 DEF Finish, JobType
    <3> QED
      BY <2>4, <3>2, <3>3
  <2> QED
    BY <1>0, <2>1, <2>2, <2>3, <2>5, HandleGrants
<1>6. CASE Release
  BY <1>0, <1>6 DEF Release, device
<1>7. CASE Restart
  <2>1. \A k \in Seqs : job'[k].verdict = job[k].verdict
    BY <1>0, <1>7 DEF Restart, TypeInv, JobType
  <2> QED
    BY <1>0, <1>7, <2>1 DEF Restart, device
<1>8. CASE UNCHANGED vars
  BY <1>0, <1>8 DEF vars, device, engine, counts
<1> QED
  BY <1>1, <1>2, <1>3, <1>4, <1>5, <1>6, <1>7, <1>8 DEF Next

\* The device shows green only for a scan the engine granted, for any number of
\* scans, attempts, reboots and restarts and in every configuration.
THEOREM OpensOnlyForGrant == Spec => []AllowShownIfGranted
<1>1. Init => GrantInv
  BY TypeInit DEF Init, GrantInv, AllowIsGrant, AllowShownIfGranted, NoJob
<1>2. GrantInv /\ [Next]_vars => GrantInv'
  BY GrantStep
<1>3. GrantInv => AllowShownIfGranted
  BY DEF GrantInv
<1> QED
  BY <1>1, <1>2, <1>3, PTL DEF Spec
-----------------------------------------------------------------------------
(* Quarantine has a cause.                                                 *)

\* The numbers the engine has handled so far.
Done == {handled[i] : i \in 1..Len(handled)}

\* The device's counter is in flash; what it has not sent is unknown.
CounterOK ==
    /\ hwSeq = nvSeq
    /\ \A n \in Seqs : n > hwSeq => job[n] = NoJob /\ n \notin Done

\* A post under way belongs to this or an earlier attempt of a job that posts.
WireOK ==
    \A n \in Seqs, k \in 1..Attempts : <<n, k>> \in wire =>
        /\ k <= job[n].attempt
        /\ job[n].pc \notin {"none", "request", "local"}
        /\ k = job[n].attempt => job[n].pc # "post"

\* A scan that was handled on its first attempt is not handled again.
OnceOK ==
    \A n \in Seqs : n \in Done /\ job[n].attempt = 1 =>
        <<n, 1>> \notin wire /\ job[n].pc \notin {"none", "request", "post", "local"}

\* Window and detector know only numbers that were handled.
KnownOK ==
    /\ \A n \in win.seen : n \in Done
    /\ win.maxSeen = 0 \/ (win.maxSeen \in Seqs /\ win.maxSeen \in Done)
    /\ det.maxSeenSeq = 0 \/ (det.maxSeenSeq \in Seqs /\ det.maxSeenSeq \in Done)

CauseInv == TypeInv /\ CounterOK /\ WireOK /\ OnceOK /\ KnownOK

\* The history with one number more.
LEMMA HistoryGrows ==
    ASSUME NEW h \in Seq(Seqs), NEW n \in Seqs
    PROVE  /\ Append(h, n) \in Seq(Seqs) /\ Len(h) \in Nat
           /\ Len(Append(h, n)) = Len(h) + 1
           /\ \A i \in 1..Len(h) : Append(h, n)[i] = h[i] /\ h[i] \in Seqs
           /\ Append(h, n)[Len(h) + 1] = n
  OBVIOUS

\* The number just handled is the only one that is new in it.
LEMMA DoneGrows ==
    ASSUME TypeInv, NEW n \in Seqs, handled' = Append(handled, n)
    PROVE  Done' = Done \cup {n}
<1> DEFINE l == Len(handled)
<1>1. handled \in Seq(Seqs)
  BY DEF TypeInv
<1>2. /\ l \in Nat /\ Len(handled') = l + 1
      /\ \A i \in 1..l : handled'[i] = handled[i]
      /\ handled'[l + 1] = n
  BY <1>1, HistoryGrows
<1> HIDE DEF l
<1>3. \A i \in 1..(l + 1) : i \in 1..l \/ i = l + 1
  BY <1>2
<1>4. l + 1 \in 1..(l + 1) /\ 1..l \subseteq 1..(l + 1)
  BY <1>2
<1>5. Done' = {handled'[i] : i \in 1..(l + 1)} /\ Done = {handled[i] : i \in 1..l}
  BY <1>2 DEF Done, l
<1>6. \A x \in Done' : x \in Done \cup {n}
  BY <1>2, <1>3, <1>5
<1>7. \A x \in Done \cup {n} : x \in Done'
  BY <1>2, <1>4, <1>5
<1> QED
  BY <1>6, <1>7

\* A reader is put into quarantine by a rollback or a replay only.
LEMMA QuarantinedBy ==
    ASSUME TypeInv, NEW n \in Seqs, NEW out \in Outcomes,
           ~ isQuarantined(det), isQuarantined(DetectorAfter(n, out))
    PROVE  RollsBack(det, n) \/ Replayed(n, out)
<1> SUFFICES ASSUME ~ RollsBack(det, n), ~ Replayed(n, out)
             PROVE  FALSE
  OBVIOUS
<1>1. det \in ReaderState
  BY DEF TypeInv
<1>2. reportSeq(det, n) \in ReaderState /\ ~ isQuarantined(reportSeq(det, n))
  BY <1>1, DetectorType
<1>3. ~ isQuarantined(reportSuccess(reportSeq(det, n), n))
  BY <1>2, DetectorType
<1> QED
  BY <1>2, <1>3 DEF DetectorAfter

\* The highest number the detector or the window knows stays or becomes the one
\* just handled.
LEMMA HandleKnows ==
    ASSUME TypeInv, NEW n \in Seqs, NEW out \in Outcomes
    PROVE  /\ DetectorAfter(n, out).maxSeenSeq \in {det.maxSeenSeq, n}
           /\ WindowAfter(n, out).maxSeen \in {win.maxSeen, n}
           /\ WindowAfter(n, out).seen \subseteq win.seen \cup {n}
<1>1. det \in ReaderState /\ win \in WindowType
  BY DEF TypeInv
<1>2. reportSeq(det, n) \in ReaderState /\ reportSeq(det, n).maxSeenSeq \in {det.maxSeenSeq, n}
  BY <1>1, DetectorType
<1>3. /\ reportReplay(reportSeq(det, n)).maxSeenSeq = reportSeq(det, n).maxSeenSeq
      /\ reportSuccess(reportSeq(det, n), n).maxSeenSeq \in {reportSeq(det, n).maxSeenSeq, n}
  BY <1>2, DetectorType
<1>4. DetectorAfter(n, out).maxSeenSeq \in {det.maxSeenSeq, n}
  BY <1>2, <1>3 DEF DetectorAfter
<1> QED
  BY <1>1, <1>4, RememberAdds DEF WindowAfter

\* When a handled scan brings the reader into quarantine there is a cause: the
\* number was overtaken, or it was handled before.
LEMMA HandleCause ==
    ASSUME MaxScans + RollbackThreshold < SeqModulus,
           CauseInv, NEW n \in Seqs, NEW out \in Outcomes,
           Handle(n, out), ~ isQuarantined(det), isQuarantined(det')
    PROVE  n \in Done \/ \E k \in Done : k > n + RollbackThreshold \/ k >= n + Window
<1>1. TypeInv /\ KnownOK
  BY DEF CauseInv
<1>3. RollsBack(det, n) \/ Replayed(n, out)
  BY <1>1, QuarantinedBy DEF Handle
<1>4. CASE RollsBack(det, n)
  <2>1. n + RollbackThreshold \in Nat /\ n + RollbackThreshold < SeqModulus
    BY DetectorAssumption, HwAssumption DEF Seqs
  <2>2. (n + RollbackThreshold) % SeqModulus = n + RollbackThreshold
    BY <2>1, DetectorAssumption
  <2>3. det.maxSeenSeq > 0 /\ n + RollbackThreshold < det.maxSeenSeq
    BY <1>4, <2>2 DEF RollsBack
  <2>4. det.maxSeenSeq \in Seqs /\ det.maxSeenSeq \in Done
    BY <1>1, <2>3 DEF KnownOK
  <2>5. det.maxSeenSeq > n + RollbackThreshold
    BY <2>1, <2>3, <2>4 DEF Seqs
  <2> QED
    BY <2>4, <2>5
<1>5. CASE Replayed(n, out)
  <2>1. isTooOld(win, n) \/ n \in win.seen
    BY <1>5 DEF Replayed, contains
  <2>2. CASE n \in win.seen
    BY <1>1, <2>2 DEF KnownOK
  <2>3. CASE isTooOld(win, n)
    <3>1. win.maxSeen \in Seqs /\ win.maxSeen \in Done
      BY <1>1, <2>3 DEF KnownOK, isTooOld
    <3>2. win.maxSeen >= n + Window
      BY <2>3, <3>1, WindowAssumption DEF isTooOld, Seqs
    <3> QED
      BY <3>1, <3>2
  <2> QED
    BY <2>1, <2>2, <2>3
<1> QED
  BY <1>3, <1>4, <1>5

\* A step of one job that leaves the engine alone: it goes forward, and posts
\* again only under a new attempt.
LEMMA JobStep ==
    ASSUME CauseInv, TypeInv', NEW n \in Seqs,
           UNCHANGED <<hwSeq, nvSeq, handled, win, det>>,
           job[n].pc # "none",
           \A k \in Seqs \ {n} : job'[k] = job[k],
           job'[n].attempt >= job[n].attempt,
           \/ job'[n] = job[n]
           \/ /\ job'[n].pc \notin {"none", "request"}
              /\ job'[n].pc = "local" => job[n].pc = "request"
              /\ job'[n].pc = "post" =>
                    job[n].pc = "request" \/ job'[n].attempt > job[n].attempt,
           \/ wire' \subseteq wire
           \/ /\ job[n].pc = "post" /\ job'[n].pc = "wait"
              /\ job'[n].attempt = job[n].attempt
              /\ wire' = wire \cup {<<n, job[n].attempt>>}
    PROVE  CauseInv'
<1>0. TypeInv /\ CounterOK /\ WireOK /\ OnceOK /\ KnownOK
  BY DEF CauseInv
<1>1. \A k \in Seqs : job[k].attempt \in 1..Attempts /\ job'[k].attempt \in 1..Attempts
  BY <1>0 DEF TypeInv, JobType
<1>d. Done' = Done
  BY DEF Done
<1>2. CounterOK'
  BY <1>0, <1>d DEF CounterOK, NoJob
<1>3. WireOK'
  <2> SUFFICES ASSUME NEW i \in Seqs, NEW k \in 1..Attempts, <<i, k>> \in wire'
               PROVE  /\ k <= job'[i].attempt
                      /\ job'[i].pc \notin {"none", "request", "local"}
                      /\ k = job'[i].attempt => job'[i].pc # "post"
    BY DEF WireOK
  <2>1. CASE <<i, k>> \in wire
    <3>1. /\ k <= job[i].attempt
          /\ job[i].pc \notin {"none", "request", "local"}
          /\ k = job[i].attempt => job[i].pc # "post"
      BY <1>0, <2>1 DEF WireOK
    <3> QED
      BY <1>1, <3>1, HwAssumption
  <2>2. CASE <<i, k>> \notin wire
    BY <2>2
  <2> QED
    BY <2>1, <2>2
<1>4. OnceOK'
  <2> SUFFICES ASSUME NEW i \in Seqs, i \in Done, job'[i].attempt = 1
               PROVE  /\ <<i, 1>> \notin wire'
                      /\ job'[i].pc \notin {"none", "request", "post", "local"}
    BY <1>d DEF OnceOK
  <2>1. job[i].attempt = 1
    BY <1>1, HwAssumption
  <2>2. <<i, 1>> \notin wire /\ job[i].pc \notin {"none", "request", "post", "local"}
    BY <1>0, <2>1 DEF OnceOK
  <2>3. job'[i].pc \notin {"none", "request", "post", "local"}
    BY <2>1, <2>2
  <2>4. <<i, 1>> \notin wire'
    BY <2>2
  <2> QED
    BY <2>3, <2>4
<1>5. KnownOK'
  BY <1>0, <1>d DEF KnownOK
<1> QED
  BY <1>2, <1>3, <1>4, <1>5 DEF CauseInv

\* A scan is handled that was not handled on its first attempt before.
LEMMA DecideStep ==
    ASSUME CauseInv, TypeInv', NEW n \in Seqs, NEW out \in Outcomes, Handle(n, out),
           UNCHANGED <<hwSeq, nvSeq>>,
           job[n].pc # "none",
           job[n].attempt > 1 \/ n \notin Done,
           \A k \in Seqs \ {n} : job'[k] = job[k],
           job'[n].attempt >= job[n].attempt,
           job'[n].pc \notin {"none", "request", "local"},
           job'[n].pc = "post" =>
               /\ job'[n].attempt > 1
               /\ job'[n] = job[n] \/ job'[n].attempt > job[n].attempt,
           wire' \subseteq wire,
           job'[n].attempt = 1 => <<n, 1>> \notin wire'
    PROVE  CauseInv'
<1>0. TypeInv /\ CounterOK /\ WireOK /\ OnceOK /\ KnownOK
  BY DEF CauseInv
<1>1. \A k \in Seqs : job[k].attempt \in 1..Attempts /\ job'[k].attempt \in 1..Attempts
  BY <1>0 DEF TypeInv, JobType
<1>2. Done' = Done \cup {n}
  BY <1>0, DoneGrows DEF Handle
<1>3. CounterOK'
  BY <1>0, <1>2 DEF CounterOK, NoJob
<1>4. WireOK'
  <2> SUFFICES ASSUME NEW i \in Seqs, NEW k \in 1..Attempts, <<i, k>> \in wire'
               PROVE  /\ k <= job'[i].attempt
                      /\ job'[i].pc \notin {"none", "request", "local"}
                      /\ k = job'[i].attempt => job'[i].pc # "post"
    BY DEF WireOK
  <2>1. /\ k <= job[i].attempt
        /\ job[i].pc \notin {"none", "request", "local"}
        /\ k = job[i].attempt => job[i].pc # "post"
    BY <1>0 DEF WireOK
  <2> QED
    BY <1>1, <2>1, HwAssumption
<1>5. OnceOK'
  <2> SUFFICES ASSUME NEW i \in Seqs, i \in Done', job'[i].attempt = 1
               PROVE  /\ <<i, 1>> \notin wire'
                      /\ job'[i].pc \notin {"none", "request", "post", "local"}
    BY DEF OnceOK
  <2>1. CASE i = n
    BY <2>1
  <2>2. CASE i # n
    BY <1>0, <1>2, <2>2 DEF OnceOK
  <2> QED
    BY <2>1, <2>2
<1>6. KnownOK'
  <2>1. win' = WindowAfter(n, out) /\ det' = DetectorAfter(n, out)
    BY DEF Handle
  <2>2. /\ win'.seen \subseteq win.seen \cup {n}
        /\ win'.maxSeen \in {win.maxSeen, n} /\ det'.maxSeenSeq \in {det.maxSeenSeq, n}
    BY <1>0, <2>1, HandleKnows
  <2>3. win.seen \subseteq Seqs
    BY <1>0 DEF TypeInv, WindowType
  <2>4. \A k \in Seqs : k \in Done \/ k = n => k \in Done'
    BY <1>2
  <2>5. \A k \in win'.seen : k \in Done'
    BY <1>0, <2>2, <2>3, <2>4 DEF KnownOK
  <2>6. win'.maxSeen = 0 \/ (win'.maxSeen \in Seqs /\ win'.maxSeen \in Done')
    BY <1>0, <2>2, <2>4 DEF KnownOK
  <2>7. det'.maxSeenSeq = 0 \/ (det'.maxSeenSeq \in Seqs /\ det'.maxSeenSeq \in Done')
    BY <1>0, <2>2, <2>4 DEF KnownOK
  <2> QED
    BY <2>5, <2>6, <2>7 DEF KnownOK
<1> QED
  BY <1>3, <1>4, <1>5, <1>6 DEF CauseInv

\* Every step keeps the invariant.
LEMMA CauseStep ==
    ASSUME CauseInv, [Next]_vars
    PROVE  CauseInv'
<1>0. /\ TypeInv /\ CounterOK /\ WireOK /\ OnceOK /\ KnownOK
      /\ TypeInv'
  BY TypeStep DEF CauseInv
<1>a. job \in [Seqs -> JobType]
  BY <1>0 DEF TypeInv
<1>1. CASE postUidToServer
  <2> DEFINE s == hwSeq + 1
  <2>1. s \in Seqs /\ s > hwSeq
    BY <1>0, <1>1, HwAssumption DEF postUidToServer, Seqs, TypeInv
  <2>2. job[s] = NoJob /\ s \notin Done
    BY <1>0, <2>1 DEF CounterOK
  <2>3. \A k \in 1..Attempts : <<s, k>> \notin wire
    BY <1>0, <2>1, <2>2 DEF WireOK, NoJob
  <2>4. /\ job' = [job EXCEPT ![s] = [NoJob EXCEPT !.pc = "request"]]
        /\ hwSeq' = s /\ nvSeq' = s
        /\ UNCHANGED <<wire, win, det>> /\ Done' = Done
    BY <1>1 DEF postUidToServer, engine, Done
  <2>5. hwSeq \in Nat
    BY <1>0, HwAssumption DEF TypeInv
  <2> HIDE DEF s
  <2>6. job'[s].attempt = 1 /\ job[s].attempt = 1 /\ \A k \in Seqs \ {s} : job'[k] = job[k]
    BY <1>a, <2>1, <2>2, <2>4 DEF NoJob
  <2>7. CounterOK'
    BY <1>0, <2>1, <2>4, <2>5, <2>6 DEF CounterOK, Seqs
  <2>8. WireOK' /\ OnceOK'
    BY <1>0, <2>2, <2>3, <2>4, <2>6 DEF WireOK, OnceOK
  <2>9. KnownOK'
    BY <1>0, <2>4 DEF KnownOK
  <2> QED
    BY <1>0, <2>7, <2>8, <2>9 DEF CauseInv
<1>2. CASE DeviceGivesUp
  BY <1>0, <1>2 DEF DeviceGivesUp, engine, CauseInv, CounterOK, WireOK, OnceOK, KnownOK, Done
<1>3. CASE Reboot
  BY <1>0, <1>3 DEF Reboot, engine, CauseInv, CounterOK, WireOK, OnceOK, KnownOK, Done
<1>4. ASSUME NEW n \in Seqs, Work(n)
      PROVE  CauseInv'
  <2>0. job[n] \in JobType /\ job[n].attempt \in Nat
    BY <1>a, HwAssumption DEF JobType
  <2>1. CASE RefuseRequest(n) \/ UnknownReader(n)
    <3>1. /\ UNCHANGED <<hwSeq, nvSeq, handled, win, det, wire>>
          /\ job[n].pc = "request"
          /\ Finish(n, "error") \/ Finish(n, "deny")
      BY <2>1 DEF RefuseRequest, UnknownReader, device, engine
    <3>2. /\ \A k \in Seqs \ {n} : job'[k] = job[k]
          /\ job'[n].pc = "answer" /\ job'[n].attempt = job[n].attempt
      BY <1>a, <3>1, FinishType DEF VerdictType
    <3> QED
      BY <1>0, <2>0, <3>1, <3>2, JobStep
  <2>2. CASE buildEncryptedFrameBytes(n)
    <3>1. /\ UNCHANGED <<hwSeq, nvSeq, handled, win, det, wire>>
          /\ job[n].pc = "request"
          /\ \A k \in Seqs \ {n} : job'[k] = job[k]
          /\ job'[n].pc \in {"post", "local"} /\ job'[n].attempt = job[n].attempt
      BY <1>a, <2>2 DEF buildEncryptedFrameBytes, device, engine, JobType
    <3> QED
      BY <1>0, <2>0, <3>1, JobStep
  <2>3. CASE LoseRequest(n)
    <3>1. /\ UNCHANGED <<hwSeq, nvSeq, handled, win, det, wire>>
          /\ job[n].pc = "request"
          /\ \A k \in Seqs \ {n} : job'[k] = job[k]
          /\ job'[n].pc = "done" /\ job'[n].attempt = job[n].attempt
      BY <1>a, <2>3 DEF LoseRequest, device, engine, JobType
    <3> QED
      BY <1>0, <2>0, <3>1, JobStep
  <2>4. CASE Post(n)
    <3>1. /\ UNCHANGED <<hwSeq, nvSeq, handled, win, det>>
          /\ job[n].pc = "post"
          /\ \A k \in Seqs \ {n} : job'[k] = job[k]
          /\ job'[n].pc = "wait" /\ job'[n].attempt = job[n].attempt
          /\ wire' = wire \cup {<<n, job[n].attempt>>}
      BY <1>a, <2>4 DEF Post, device, engine, JobType
    <3> QED
      BY <1>0, <2>0, <3>1, JobStep
  <2>5. CASE AttemptFails(n)
    <3>1. /\ UNCHANGED <<hwSeq, nvSeq, handled, win, det, wire>>
          /\ job[n].pc \in {"post", "wait"}
          /\ job' = Retry(n)
      BY <2>5 DEF AttemptFails, device, engine
    <3>2. /\ \A k \in Seqs \ {n} : job'[k] = job[k]
          /\ job'[n].attempt >= job[n].attempt
          /\ job'[n].pc \in {"post", "answer"}
          /\ job'[n].pc = "post" => job'[n].attempt > job[n].attempt
      BY <1>a, <3>1, RetryType
    <3> QED
      BY <1>0, <3>1, <3>2, JobStep
  <2>6. CASE Answer(n)
    <3>1. /\ UNCHANGED <<hwSeq, nvSeq, handled, win, det, wire>>
          /\ job[n].pc = "answer"
          /\ \A k \in Seqs \ {n} : job'[k] = job[k]
          /\ job'[n].pc = "done" /\ job'[n].attempt = job[n].attempt
      BY <1>a, <2>6 DEF Answer, engine, JobType
    <3> QED
      BY <1>0, <2>0, <3>1, JobStep
  <2>7. ASSUME NEW out \in Outcomes, DecideLocal(n, out)
        PROVE  CauseInv'
    <3>1. UNCHANGED <<hwSeq, nvSeq, wire>> /\ job[n].pc = "local"
      BY <2>7 DEF DecideLocal, device
    <3>2. \E v \in VerdictType : Finish(n, v)
      BY <1>0, <2>7, HandleType DEF DecideLocal, VerdictType
    <3>3. /\ \A k \in Seqs \ {n} : job'[k] = job[k]
          /\ job'[n].pc = "answer" /\ job'[n].attempt = job[n].attempt
      BY <1>a, <3>2, FinishType
    <3>4. CASE Fails
      <4>1. UNCHANGED <<handled, win, det>>
        BY <3>4 DEF Fails, engine
      <4> QED
        BY <1>0, <2>0, <3>1, <3>3, <4>1, JobStep
    <3>5. CASE Handle(n, out)
      <4>1. \A k \in 1..Attempts : <<n, k>> \notin wire
        BY <1>0, <3>1 DEF WireOK
      <4>2. job[n].attempt \in 1..Attempts /\ 1 \in 1..Attempts
        BY <1>a, HwAssumption DEF JobType
      <4>3. ~ (n \in Done /\ job[n].attempt = 1)
        BY <1>0, <3>1 DEF OnceOK
      <4>4. job[n].attempt > 1 \/ n \notin Done
        BY <4>2, <4>3
      <4>5. job'[n].attempt = 1 => <<n, 1>> \notin wire'
        BY <3>1, <4>1, <4>2
      <4>6. /\ job'[n].attempt >= job[n].attempt /\ job[n].pc # "none"
            /\ job'[n].pc \notin {"none", "request", "local", "post"}
            /\ wire' \subseteq wire
        BY <2>0, <3>1, <3>3
      <4> QED
        BY <1>0, <3>1, <3>3, <3>5, <4>4, <4>5, <4>6, DecideStep
    <3> QED
      BY <2>7, <3>4, <3>5 DEF DecideLocal
  <2> QED
    BY <1>4, <2>1, <2>2, <2>3, <2>4, <2>5, <2>6, <2>7 DEF Work
<1>5. ASSUME NEW nk \in wire, NEW out \in Outcomes, DecideRemote(nk[1], nk[2], out)
      PROVE  CauseInv'
  <2>1. PICK n \in Seqs, k \in 1..Attempts : nk = <<n, k>>
    BY <1>0 DEF TypeInv
  <2>2. /\ <<n, k>> \in wire /\ wire' = wire \ {<<n, k>>}
        /\ UNCHANGED <<hwSeq, nvSeq>>
        /\ Handle(n, out) \/ Fails
    BY <1>5, <2>1 DEF DecideRemote, device
  <2>3. /\ k <= job[n].attempt
        /\ job[n].pc \notin {"none", "request", "local"}
        /\ k = job[n].attempt => job[n].pc # "post"
    BY <1>0, <2>2 DEF WireOK
  <2>4. job[n] \in JobType /\ job[n].attempt \in 1..Attempts /\ job[n].attempt \in Nat
    BY <1>a, HwAssumption DEF JobType
  <2>5. \/ job' = job \/ job' = Retry(n)
        \/ \E v \in VerdictType : Finish(n, v)
    BY <1>0, <1>5, <2>1, HandleType DEF DecideRemote, VerdictType
  <2>6. /\ \A i \in Seqs \ {n} : job'[i] = job[i]
        /\ job'[n].attempt >= job[n].attempt
        /\ \/ job'[n] = job[n]
           \/ job'[n].pc = "answer"
           \/ job'[n].pc = "post" /\ job'[n].attempt > job[n].attempt
    BY <1>a, <2>4, <2>5, RetryType, FinishType
  <2>7. CASE Fails
    <3>1. UNCHANGED <<handled, win, det>>
      BY <2>7 DEF Fails, engine
    <3> QED
      BY <1>0, <2>2, <2>3, <2>6, <3>1, JobStep
  <2>8. CASE Handle(n, out)
    <3>1. job[n].attempt = 1 => k = 1
      BY <2>3
    <3>2. job[n].attempt > 1 \/ n \notin Done
      BY <1>0, <2>2, <2>4, <3>1 DEF OnceOK
    <3>3. job'[n].attempt \in 1..Attempts
      BY <1>0 DEF TypeInv, JobType
    <3>4. job'[n].attempt = 1 => <<n, 1>> \notin wire'
      BY <2>2, <2>4, <2>6, <3>1, <3>3
    <3>5. job'[n].pc = "post" => job'[n].attempt > 1
      BY <2>3, <2>4, <2>6, <3>1, <3>3
    <3> QED
      BY <1>0, <2>2, <2>3, <2>6, <2>8, <3>2, <3>4, <3>5, DecideStep
  <2> QED
    BY <2>2, <2>7, <2>8
<1>6. CASE Release
  <2>1. det' = unquarantine(det) /\ UNCHANGED <<hwSeq, nvSeq, job, wire, win>> /\ Done' = Done
    BY <1>6 DEF Release, device, Done
  <2>2. ~ isQuarantined(det') /\ det'.maxSeenSeq = det.maxSeenSeq
    BY <1>0, <2>1 DEF TypeInv, unquarantine, isQuarantined, ReaderState
  <2> QED
    BY <1>0, <2>1, <2>2 DEF CauseInv, CounterOK, WireOK, OnceOK, KnownOK
<1>7. CASE Restart
  <2>1. /\ wire' = {} /\ win' = FreshWindow /\ det' = FreshReader
        /\ UNCHANGED <<hwSeq, nvSeq>> /\ Done' = Done
    BY <1>7 DEF Restart, device, Done
  <2>2. \A n \in Seqs : /\ job'[n].attempt = job[n].attempt
                        /\ job[n].pc = "none" => job'[n] = job[n]
                        /\ job[n].pc # "none" => job'[n].pc = "done"
    BY <1>7, <1>a DEF Restart, JobType
  <2>3. CounterOK'
    BY <1>0, <2>1, <2>2 DEF CounterOK, NoJob
  <2>4. WireOK' /\ OnceOK'
    BY <1>0, <2>1, <2>2 DEF WireOK, OnceOK
  <2>5. KnownOK'
    BY <2>1 DEF KnownOK, FreshWindow, FreshReader
  <2> QED
    BY <1>0, <2>3, <2>4, <2>5 DEF CauseInv
<1>8. CASE UNCHANGED vars
  BY <1>0, <1>8 DEF vars, device, engine, CauseInv, CounterOK, WireOK, OnceOK, KnownOK, Done
<1> QED
  BY <1>1, <1>2, <1>3, <1>4, <1>5, <1>6, <1>7, <1>8 DEF Next

\* A frame about to be handled is new to the engine, or the service posted its
\* scan more than once.
LEMMA RetriedOrNew ==
    ASSUME CauseInv, NEW n \in Seqs,
           job[n].pc = "local" \/ \E k \in 1..Attempts : <<n, k>> \in wire
    PROVE  job[n].attempt > 1 \/ n \notin Done
<1>1. job[n].attempt \in 1..Attempts /\ Attempts \in Nat
  BY HwAssumption DEF CauseInv, TypeInv, JobType
<1>2. SUFFICES ASSUME n \in Done, job[n].attempt = 1
               PROVE  FALSE
  BY <1>1
<1>3. <<n, 1>> \notin wire /\ job[n].pc # "local"
  BY <1>2 DEF CauseInv, OnceOK
<1>4. \A k \in 1..Attempts : <<n, k>> \in wire => k <= 1
  BY <1>2 DEF CauseInv, WireOK
<1>5. \A k \in 1..Attempts : k <= 1 => k = 1
  BY <1>1
<1> QED
  BY <1>3, <1>4, <1>5

\* The step that brings the reader into quarantine handles a frame.
LEMMA QuarantineStep ==
    ASSUME CauseInv, [Next]_vars, ~ isQuarantined(det), isQuarantined(det')
    PROVE  \E n \in Seqs, out \in Outcomes :
              /\ Handle(n, out)
              /\ job[n].pc = "local" \/ \E k \in 1..Attempts : <<n, k>> \in wire
<1>0. det \in ReaderState /\ wire \subseteq Seqs \X (1..Attempts)
  BY DEF CauseInv, TypeInv
<1>1. det' # det
  BY DEF isQuarantined
<1>2. CASE Release
  BY <1>2 DEF Release
<1>3. CASE Restart
  BY <1>3 DEF Restart, FreshReader, isQuarantined
<1>4. ASSUME NEW n \in Seqs, NEW out \in Outcomes, DecideLocal(n, out)
      PROVE  Handle(n, out) /\ job[n].pc = "local"
  BY <1>1, <1>4 DEF DecideLocal, Fails, engine
<1>5. ASSUME NEW nk \in wire, NEW out \in Outcomes, DecideRemote(nk[1], nk[2], out)
      PROVE  \E n \in Seqs : Handle(n, out) /\ \E k \in 1..Attempts : <<n, k>> \in wire
  <2>1. PICK n \in Seqs, k \in 1..Attempts : nk = <<n, k>>
    BY <1>0
  <2>2. Handle(n, out) \/ Fails
    BY <1>5, <2>1 DEF DecideRemote
  <2> QED
    BY <1>1, <2>1, <2>2 DEF Fails, engine
<1>6. CASE postUidToServer \/ DeviceGivesUp \/ Reboot
  BY <1>1, <1>6 DEF postUidToServer, DeviceGivesUp, Reboot, engine
<1>7. ASSUME NEW n \in Seqs,
             \/ RefuseRequest(n) \/ UnknownReader(n) \/ buildEncryptedFrameBytes(n)
             \/ LoseRequest(n) \/ Post(n) \/ AttemptFails(n) \/ Answer(n)
      PROVE  FALSE
  BY <1>1, <1>7 DEF RefuseRequest, UnknownReader, buildEncryptedFrameBytes, LoseRequest, Post, AttemptFails, Answer, engine
<1>8. CASE UNCHANGED vars
  BY <1>1, <1>8 DEF vars, engine
<1> QED
  BY <1>2, <1>3, <1>4, <1>5, <1>6, <1>7, <1>8 DEF Next, Work

\* The invariant holds at the start.
LEMMA CauseInit == Init => CauseInv
<1> SUFFICES ASSUME Init
             PROVE  CauseInv
  OBVIOUS
<1>0. Done = {}
  BY DEF Init, Done
<1>1. TypeInv
  BY TypeInit
<1>2. CounterOK /\ WireOK /\ OnceOK
  BY <1>0 DEF Init, CounterOK, WireOK, OnceOK
<1>3. KnownOK
  BY DEF Init, KnownOK, FreshWindow, FreshReader
<1> QED
  BY <1>1, <1>2, <1>3 DEF CauseInv

\* As long as numbers do not wrap, the frame that brings the reader into quarantine
\* is a copy the service posted in a retry of a scan already handled, or was
\* overtaken too far, for any number of scans, attempts, reboots and restarts:
\* storing the counter before a number is used keeps an honest device out of
\* quarantine.
THEOREM QuarantineAlwaysHasCause ==
    ASSUME MaxScans + RollbackThreshold < SeqModulus
    PROVE  Spec => QuarantineHasCause
<1> DEFINE Caused ==
      ~ isQuarantined(det) /\ isQuarantined(det') =>
          \E n \in Seqs :
            /\ handled' = Append(handled, n)
            /\ \E i \in 1..Len(handled) :
                 \/ handled[i] = n /\ job[n].attempt > 1
                 \/ handled[i] > n + RollbackThreshold
                 \/ handled[i] >= n + Window
<1>1. Init => CauseInv
  BY CauseInit
<1>2. CauseInv /\ [Next]_vars => CauseInv'
  BY CauseStep
<1>3. CauseInv /\ [Next]_vars => Caused
  <2> SUFFICES ASSUME CauseInv, [Next]_vars, ~ isQuarantined(det), isQuarantined(det')
               PROVE  \E n \in Seqs :
                        /\ handled' = Append(handled, n)
                        /\ \E i \in 1..Len(handled) :
                             \/ handled[i] = n /\ job[n].attempt > 1
                             \/ handled[i] > n + RollbackThreshold
                             \/ handled[i] >= n + Window
    OBVIOUS
  <2>1. PICK n \in Seqs, out \in Outcomes :
              /\ Handle(n, out)
              /\ job[n].pc = "local" \/ \E k \in 1..Attempts : <<n, k>> \in wire
    BY QuarantineStep
  <2>2. handled' = Append(handled, n)
    BY <2>1 DEF Handle
  <2>3. job[n].attempt > 1 \/ n \notin Done
    BY <2>1, RetriedOrNew
  <2>4. n \in Done \/ \E k \in Done : k > n + RollbackThreshold \/ k >= n + Window
    BY <2>1, HandleCause
  <2>5. \E k \in Done : \/ k = n /\ job[n].attempt > 1
                        \/ k > n + RollbackThreshold
                        \/ k >= n + Window
    BY <2>3, <2>4
  <2>6. \A k \in Done : \E i \in 1..Len(handled) : handled[i] = k
    BY DEF Done
  <2> QED
    BY <2>2, <2>5, <2>6
<1> QED
  BY <1>1, <1>2, <1>3, PTL DEF Spec, QuarantineHasCause
-----------------------------------------------------------------------------
(* A scan is granted once, however often it is posted.                     *)

\* The deque lists each number of the lookup set once, and none above the maximum.
WindowOK(w) ==
    /\ Len(w.order) <= Window
    /\ w.seen = {w.order[p] : p \in 1..Len(w.order)}
    /\ \A p, q \in 1..Len(w.order) : w.order[p] = w.order[q] => p = q
    /\ \A p \in 1..Len(w.order) : w.order[p] <= w.maxSeen

\* A smaller number was handled after the i-th of the history h.
Late(h, i) == \E k \in (i + 1)..Len(h) : h[k] < h[i]

\* What stands behind place p of the deque was handled after it; it is larger, or
\* the number at p had overtaken it.
PlacedAt(w, h, p, i) ==
    /\ h[i] = w.order[p] /\ i + Len(w.order) <= Len(h) + p
    /\ Late(h, i) \/ \A q \in (p + 1)..Len(w.order) : w.order[q] > w.order[p]

Placed(w, h) == \A p \in 1..Len(w.order) : \E i \in 1..Len(h) : PlacedAt(w, h, p, i)

\* The window may have forgotten n: it has been full since, and a smaller number
\* came after n.
Forgotten(h, n) == \E i \in 1..Len(h) : h[i] = n /\ i + Window <= Len(h) /\ Late(h, i)

\* Numbers ahead of n all smaller than n + Window cannot be Window many.
LEMMA TooMany ==
    ASSUME NEW n \in Nat, NEW o, \A p \in 1..Window : o[p] \in (n + 1)..(n + Window - 1),
           \A p, q \in 1..Window : o[p] = o[q] => p = q
    PROVE  FALSE
<1> DEFINE S == 1..Window
           T == (n + 1)..(n + Window - 1)
           f == [p \in S |-> o[p]]
<1>1. Window \in Nat /\ Window >= 1 /\ 1 \in Int /\ Window \in Int
  BY WindowAssumption
<1>2. IsFiniteSet(S) /\ Cardinality(S) = Window
  <2>1. IsFiniteSet(S) /\ Cardinality(S) = IF 1 > Window THEN 0 ELSE Window - 1 + 1
    BY <1>1, FS_Interval, Zenon
  <2> QED
    BY <1>1, <2>1
<1>3. IsFiniteSet(T) /\ Cardinality(T) = Window - 1
  <2>1. n + 1 \in Int /\ n + Window - 1 \in Int
    BY <1>1
  <2>2. /\ IsFiniteSet(T)
        /\ Cardinality(T) = IF n + 1 > n + Window - 1 THEN 0
                            ELSE (n + Window - 1) - (n + 1) + 1
    BY <2>1, FS_Interval
  <2> QED
    BY <1>1, <2>2
<1>4. f \in [S -> T]
  OBVIOUS
<1>5. \E x, y \in S : x # y /\ f[x] = f[y]
  <2> HIDE DEF S, T, f
  <2> QED
    BY <1>1, <1>2, <1>3, <1>4, FS_PigeonHole
<1> QED
  BY <1>5

\* What remember() leaves of a window that does not contain s.
LEMMA RememberUnfolds ==
    ASSUME NEW w, NEW s, ~ contains(w, s)
    PROVE  remember(w, s) =
             [maxSeen |-> IF s > w.maxSeen THEN s ELSE w.maxSeen,
              seen    |-> IF Len(Append(w.order, s)) > Window
                          THEN (w.seen \cup {s}) \ {Head(Append(w.order, s))}
                          ELSE w.seen \cup {s},
              order   |-> IF Len(Append(w.order, s)) > Window
                          THEN Tail(Append(w.order, s))
                          ELSE Append(w.order, s)]
  BY DEF remember, evictOldestIfFull

\* The deque with one number more, before and after the eviction.
LEMMA DequeFacts ==
    ASSUME NEW o \in Seq(Seqs), NEW s \in Seqs
    PROVE  /\ Head(Append(o, s)) = Append(o, s)[1]
           /\ Tail(Append(o, s)) \in Seq(Seqs)
           /\ Len(Tail(Append(o, s))) = Len(o)
           /\ \A i \in 1..Len(o) : Tail(Append(o, s))[i] = Append(o, s)[i + 1]
<1> DEFINE q == Append(o, s)
<1>1. q \in Seq(Seqs) /\ Len(o) \in Nat /\ Len(q) = Len(o) + 1
  BY HistoryGrows
<1> HIDE DEF q
<1>2. Len(q) # 0
  BY <1>1
<1>3. q # << >>
  BY <1>2
<1>4. Head(q) = q[1] /\ Tail(q) \in Seq(Seqs) /\ Len(Tail(q)) = Len(q) - 1
      /\ \A i \in 1..(Len(q) - 1) : Tail(q)[i] = q[i + 1]
  BY <1>1, <1>3
<1>5. Len(q) - 1 = Len(o)
  BY <1>1
<1> QED
  BY <1>4, <1>5 DEF q

\* The past does not change when the history grows.
LEMMA PastStays ==
    ASSUME NEW h \in Seq(Seqs), NEW s \in Seqs
    PROVE  /\ \A i \in 1..Len(h) : Late(h, i) => Late(Append(h, s), i)
           /\ \A n \in Seqs : Forgotten(h, n) => Forgotten(Append(h, s), n)
           /\ \A w : w \in WindowType /\ Placed(w, h) => Placed(w, Append(h, s))
<1> DEFINE g == Append(h, s)
           l == Len(h)
<1>1. /\ l \in Nat /\ Len(g) = l + 1 /\ g[l + 1] = s
      /\ \A i \in 1..l : g[i] = h[i] /\ h[i] \in Seqs
  BY HistoryGrows
<1> HIDE DEF g
<1>2. ASSUME NEW i \in 1..Len(h), Late(h, i)
      PROVE  Late(g, i)
  <2>1. PICK k \in (i + 1)..l : h[k] < h[i]
    BY <1>2 DEF Late
  <2>2. k \in (i + 1)..(l + 1) /\ k \in 1..l /\ i \in 1..l
    BY <1>1
  <2>3. g[k] < g[i]
    BY <1>1, <2>1, <2>2
  <2> QED
    BY <1>1, <2>2, <2>3 DEF Late
<1>3. \A i \in 1..Len(h) : i \in 1..Len(g) /\ i \in Nat
  BY <1>1
<1>4. ASSUME NEW n \in Seqs, Forgotten(h, n)
      PROVE  Forgotten(g, n)
  <2>1. PICK i \in 1..Len(h) : h[i] = n /\ i + Window <= Len(h) /\ Late(h, i)
    BY <1>4 DEF Forgotten
  <2>2. i + Window <= Len(g)
    BY <1>1, <1>3, <2>1, WindowAssumption
  <2> QED
    BY <1>1, <1>2, <1>3, <2>1, <2>2 DEF Forgotten
<1>5. ASSUME NEW w \in WindowType, Placed(w, h)
      PROVE  Placed(w, g)
  <2> SUFFICES ASSUME NEW p \in 1..Len(w.order)
               PROVE  \E i \in 1..Len(g) : PlacedAt(w, g, p, i)
    BY DEF Placed
  <2>1. PICK i \in 1..Len(h) : PlacedAt(w, h, p, i)
    BY <1>5 DEF Placed
  <2>2. Len(w.order) \in Nat
    BY DEF WindowType
  <2>3. i + Len(w.order) <= Len(g) + p
    BY <1>1, <1>3, <2>1, <2>2 DEF PlacedAt
  <2>4. PlacedAt(w, g, p, i)
    BY <1>1, <1>2, <2>1, <2>3 DEF PlacedAt
  <2> QED
    BY <1>3, <2>4
<1> QED
  BY <1>2, <1>4, <1>5 DEF g

\* Remembering a number that is handled keeps the window in step with the history;
\* what it contained it still contains, or it may have forgotten it.
LEMMA RememberPlaces ==
    ASSUME NEW w \in WindowType, NEW h \in Seq(Seqs), NEW s \in Seqs,
           WindowOK(w), Placed(w, h), ~ contains(w, s)
    PROVE  /\ WindowOK(remember(w, s)) /\ Placed(remember(w, s), Append(h, s))
           /\ contains(remember(w, s), s)
           /\ \A n \in Seqs : contains(w, n) =>
                 contains(remember(w, s), n) \/ Forgotten(Append(h, s), n)
<1> DEFINE g == Append(h, s)
           a == Len(h)
           o == w.order
           l == Len(o)
           q == Append(o, s)
           t == Tail(q)
           v == remember(w, s)
<1>0. Window \in Nat /\ Window >= 1 /\ \A x \in Seqs : x \in Nat /\ x >= 1
  BY WindowAssumption DEF Seqs
<1>1. w.maxSeen \in Nat /\ w.seen \in SUBSET Seqs /\ o \in Seq(Seqs)
  BY DEF WindowType
<1>2. /\ l \in Nat /\ Len(q) = l + 1 /\ q[l + 1] = s
      /\ \A i \in 1..l : q[i] = o[i] /\ o[i] \in Seqs
  BY <1>1, HistoryGrows
<1>3. /\ Head(q) = q[1] /\ Len(t) = l
      /\ \A i \in 1..l : t[i] = q[i + 1]
  BY <1>1, DequeFacts
<1>4. /\ a \in Nat /\ Len(g) = a + 1 /\ g[a + 1] = s
      /\ \A i \in 1..a : g[i] = h[i] /\ h[i] \in Seqs
  BY HistoryGrows
<1>5. /\ v.maxSeen = IF s > w.maxSeen THEN s ELSE w.maxSeen
      /\ v.seen = IF l + 1 > Window THEN (w.seen \cup {s}) \ {Head(q)} ELSE w.seen \cup {s}
      /\ v.order = IF l + 1 > Window THEN t ELSE q
  <2>1. v = [maxSeen |-> IF s > w.maxSeen THEN s ELSE w.maxSeen,
             seen    |-> IF Len(q) > Window THEN (w.seen \cup {s}) \ {Head(q)} ELSE w.seen \cup {s},
             order   |-> IF Len(q) > Window THEN t ELSE q]
    BY RememberUnfolds
  <2> HIDE DEF v, q, t
  <2> QED
    BY <1>2, <2>1
<1>6. /\ l <= Window
      /\ w.seen = {o[p] : p \in 1..l}
      /\ \A p, r \in 1..l : o[p] = o[r] => p = r
      /\ \A p \in 1..l : o[p] <= w.maxSeen
  BY DEF WindowOK
<1>7. s \notin w.seen
  BY DEF contains
<1>8. \A p \in 1..l : \E i \in 1..a : PlacedAt(w, h, p, i)
  BY DEF Placed
<1> HIDE DEF g, a, o, l, q, t, v
<1>9. \A p \in 1..(l + 1) : p \in 1..l \/ p = l + 1
  BY <1>2
<1>10. \A p \in 1..l : o[p] # s /\ q[p] # s
  BY <1>2, <1>6, <1>7
<1>11. \A p, r \in 1..(l + 1) : q[p] = q[r] => p = r
  BY <1>2, <1>6, <1>9, <1>10, ZenonT(40)
<1>12. w.maxSeen <= v.maxSeen /\ s <= v.maxSeen /\ v.maxSeen \in Nat
  BY <1>0, <1>1, <1>5
<1>13. \A p \in 1..(l + 1) : q[p] <= v.maxSeen /\ q[p] \in Nat
  <2>1. ASSUME NEW p \in 1..l
        PROVE  q[p] <= v.maxSeen /\ q[p] \in Nat
    <3>1. q[p] \in Nat /\ q[p] <= w.maxSeen
      BY <1>0, <1>2, <1>6
    <3> QED
      BY <1>1, <1>12, <3>1
  <2> QED
    BY <1>0, <1>2, <1>9, <1>12, <2>1
<1>14. w.seen \cup {s} = {q[p] : p \in 1..(l + 1)}
  <2>1. ASSUME NEW x \in w.seen
        PROVE  \E p \in 1..(l + 1) : x = q[p]
    <3>1. PICK p \in 1..l : x = o[p]
      BY <1>6
    <3>2. p \in 1..(l + 1) /\ q[p] = o[p]
      BY <1>2
    <3> QED
      BY <3>1, <3>2
  <2>2. l + 1 \in 1..(l + 1)
    BY <1>2
  <2>3. \A p \in 1..(l + 1) : q[p] \in w.seen \cup {s}
    <3>1. \A p \in 1..l : q[p] \in w.seen
      BY <1>2, <1>6
    <3> QED
      BY <1>2, <1>9, <3>1
  <2> QED
    BY <1>2, <2>1, <2>2, <2>3
\* The places of the longer deque q, against the longer history.
<1>15. ASSUME NEW p \in 1..l
       PROVE  \E i \in 1..a : /\ g[i] = q[p] /\ i + (l + 1) <= (a + 1) + p
                              /\ \/ Late(g, i)
                                 \/ \A r \in (p + 1)..(l + 1) : q[r] > q[p]
  <2>1. PICK i \in 1..a : PlacedAt(w, h, p, i)
    BY <1>8
  <2>2. /\ h[i] = o[p] /\ i + l <= a + p
        /\ Late(h, i) \/ \A r \in (p + 1)..l : o[r] > o[p]
    BY <2>1 DEF PlacedAt, o, l, a
  <2>3. g[i] = q[p] /\ i + (l + 1) <= (a + 1) + p
    BY <1>2, <1>4, <2>2
  <2>4. Late(h, i) => Late(g, i)
    BY PastStays DEF a, g
  <2>5. CASE \A r \in (p + 1)..l : o[r] > o[p]
    <3>1. CASE s < q[p]
      <4>1. a + 1 \in (i + 1)..Len(g) /\ g[a + 1] < g[i]
        BY <1>4, <2>3, <3>1
      <4> QED
        BY <2>3, <4>1 DEF Late
    <3>2. CASE ~ (s < q[p])
      <4>1. q[p] \in Nat /\ s \in Nat /\ s # q[p]
        BY <1>0, <1>2, <1>10
      <4>2. s > q[p]
        BY <3>2, <4>1
      <4>3. \A r \in (p + 1)..(l + 1) : r \in (p + 1)..l \/ r = l + 1
        BY <1>2
      <4>4. \A r \in (p + 1)..l : r \in 1..l
        BY <1>2
      <4>5. \A r \in (p + 1)..(l + 1) : q[r] > q[p]
        BY <1>2, <2>5, <4>2, <4>3, <4>4
      <4> QED
        BY <2>3, <4>5
    <3> QED
      BY <3>1, <3>2
  <2> QED
    BY <2>2, <2>3, <2>4, <2>5
<1>16. 1..a \subseteq 1..Len(g) /\ a + 1 \in 1..Len(g)
  BY <1>4
<1>17. \A n \in Seqs : isTooOld(w, n) => isTooOld(v, n)
  BY <1>0, <1>1, <1>12 DEF isTooOld
<1>18. CASE ~ (l + 1 > Window)
  <2>1. v.order = q /\ v.seen = w.seen \cup {s} /\ Len(q) = l + 1 /\ l + 1 <= Window
    BY <1>0, <1>2, <1>5, <1>18
  <2>2. WindowOK(v)
    <3>1. v.seen = {v.order[p] : p \in 1..Len(v.order)}
      BY <1>14, <2>1
    <3>2. \A p, r \in 1..Len(v.order) : v.order[p] = v.order[r] => p = r
      BY <1>11, <2>1
    <3>3. \A p \in 1..Len(v.order) : v.order[p] <= v.maxSeen
      BY <1>13, <2>1
    <3>4. Len(v.order) <= Window
      BY <2>1
    <3> QED
      BY <3>1, <3>2, <3>3, <3>4 DEF WindowOK
  <2>3. Placed(v, g)
    <3> SUFFICES ASSUME NEW p \in 1..(l + 1)
                 PROVE  \E i \in 1..Len(g) : PlacedAt(v, g, p, i)
      BY <2>1 DEF Placed
    <3>1. CASE p \in 1..l
      <4>1. PICK i \in 1..a : /\ g[i] = q[p] /\ i + (l + 1) <= (a + 1) + p
                              /\ Late(g, i) \/ \A r \in (p + 1)..(l + 1) : q[r] > q[p]
        BY <1>15, <3>1
      <4>2. PlacedAt(v, g, p, i)
        BY <1>4, <2>1, <4>1 DEF PlacedAt
      <4> QED
        BY <1>16, <4>2
    <3>2. CASE p = l + 1
      <4>1. (p + 1)..(l + 1) = {}
        BY <1>2, <3>2
      <4>2. g[a + 1] = q[p] /\ (a + 1) + (l + 1) <= Len(g) + p
        BY <1>2, <1>4, <3>2
      <4>3. PlacedAt(v, g, p, a + 1)
        BY <2>1, <4>1, <4>2 DEF PlacedAt
      <4> QED
        BY <1>16, <4>3
    <3> QED
      BY <1>9, <3>1, <3>2
  <2>4. contains(v, s) /\ \A n \in Seqs : contains(w, n) => contains(v, n)
    BY <1>17, <2>1 DEF contains
  <2> QED
    BY <2>2, <2>3, <2>4 DEF v, g
<1>19. CASE l + 1 > Window
  <2>1. /\ v.order = t /\ v.seen = (w.seen \cup {s}) \ {q[1]} /\ Len(t) = l /\ l = Window
        /\ \A p \in 1..l : t[p] = q[p + 1] /\ p + 1 \in 1..(l + 1)
        /\ 1 \in 1..l
    BY <1>0, <1>2, <1>3, <1>5, <1>6, <1>19
  <2>2. \A p, r \in 1..l : t[p] = t[r] => p = r
    <3> SUFFICES ASSUME NEW p \in 1..l, NEW r \in 1..l, t[p] = t[r]
                 PROVE  p = r
      OBVIOUS
    <3>1. p + 1 = r + 1
      BY <1>11, <2>1
    <3> QED
      BY <1>2, <3>1
  <2>3. v.seen = {t[p] : p \in 1..l}
    <3>1. ASSUME NEW x \in v.seen
          PROVE  \E p \in 1..l : x = t[p]
      <4>1. PICK p \in 1..(l + 1) : x = q[p] /\ x # q[1]
        BY <1>14, <2>1
      <4>2. p - 1 \in 1..l /\ (p - 1) + 1 = p
        BY <1>2, <4>1
      <4> QED
        BY <2>1, <4>1, <4>2
    <3>2. ASSUME NEW p \in 1..l
          PROVE  t[p] \in v.seen
      <4>1. p + 1 \in 1..(l + 1) /\ 1 \in 1..(l + 1) /\ p + 1 # 1
        BY <1>2
      <4>2. q[p + 1] # q[1]
        BY <1>11, <4>1
      <4> QED
        BY <1>14, <2>1, <4>1, <4>2
    <3> QED
      BY <3>1, <3>2
  <2>4. WindowOK(v)
    <3>1. \A p \in 1..l : t[p] <= v.maxSeen
      BY <1>13, <2>1
    <3>2. l <= Window
      BY <1>6
    <3>3. v.seen = {v.order[p] : p \in 1..Len(v.order)}
      BY <2>1, <2>3
    <3>4. \A p, r \in 1..Len(v.order) : v.order[p] = v.order[r] => p = r
      BY <2>1, <2>2
    <3>5. \A p \in 1..Len(v.order) : v.order[p] <= v.maxSeen
      BY <2>1, <3>1
    <3>6. Len(v.order) <= Window
      BY <2>1, <3>2
    <3> QED
      BY <3>3, <3>4, <3>5, <3>6 DEF WindowOK
  <2>5. Placed(v, g)
    <3> SUFFICES ASSUME NEW p \in 1..l
                 PROVE  \E i \in 1..Len(g) : PlacedAt(v, g, p, i)
      BY <2>1 DEF Placed
    <3>1. CASE p + 1 \in 1..l
      <4>1. PICK i \in 1..a : /\ g[i] = q[p + 1] /\ i + (l + 1) <= (a + 1) + (p + 1)
                              /\ Late(g, i) \/ \A r \in (p + 2)..(l + 1) : q[r] > q[p + 1]
        <5>1. (p + 1) + 1 = p + 2
          BY <1>2
        <5> QED
          BY <1>15, <3>1, <5>1
      <4>2. \A r \in (p + 1)..l : r + 1 \in (p + 2)..(l + 1) /\ r \in 1..l
        BY <1>2
      <4>3. i + l <= Len(g) + p
        BY <1>2, <1>4, <4>1
      <4>4. PlacedAt(v, g, p, i)
        BY <2>1, <4>1, <4>2, <4>3 DEF PlacedAt
      <4> QED
        BY <1>16, <4>4
    <3>2. CASE p = l
      <4>1. (p + 1)..l = {}
        BY <1>2, <3>2
      <4>2. g[a + 1] = t[p] /\ (a + 1) + l <= Len(g) + p
        BY <1>2, <1>4, <2>1, <3>2
      <4>3. PlacedAt(v, g, p, a + 1)
        BY <2>1, <4>1, <4>2 DEF PlacedAt
      <4> QED
        BY <1>16, <4>3
    <3>3. p + 1 \in 1..l \/ p = l
      BY <1>2
    <3> QED
      BY <3>1, <3>2, <3>3
  <2>6. contains(v, s)
    <3>1. q[1] # s
      BY <1>10, <2>1
    <3> QED
      BY <2>1, <3>1 DEF contains
  <2>7. ASSUME NEW n \in Seqs, contains(w, n)
        PROVE  contains(v, n) \/ Forgotten(g, n)
    <3>1. CASE isTooOld(w, n)
      BY <1>17, <3>1 DEF contains
    <3>2. CASE n \in w.seen /\ n # q[1]
      BY <2>1, <3>2 DEF contains
    <3>3. CASE n = q[1]
      <4>1. PICK i \in 1..a : /\ g[i] = n /\ i + (l + 1) <= (a + 1) + 1
                              /\ Late(g, i) \/ \A r \in 2..(l + 1) : q[r] > n
        <5>1. 1 + 1 = 2
          OBVIOUS
        <5> QED
          BY <1>15, <2>1, <3>3, <5>1
      <4>2. CASE Late(g, i)
        <5>1. i + Window <= Len(g)
          BY <1>2, <1>4, <2>1, <4>1
        <5> QED
          BY <1>16, <4>1, <4>2, <5>1 DEF Forgotten
      <4>3. CASE \A r \in 2..(l + 1) : q[r] > n
        <5> SUFFICES ASSUME ~ isTooOld(v, n)
                     PROVE  FALSE
          BY DEF contains
        <5>0. n \in Nat /\ n >= 1
          BY <1>0
        <5>1. v.maxSeen <= n + Window - 1
          BY <1>0, <1>12, <5>0 DEF isTooOld
        <5>2. \A p \in 1..Window : t[p] \in (n + 1)..(n + Window - 1)
          <6> SUFFICES ASSUME NEW p \in 1..l
                       PROVE  t[p] \in (n + 1)..(n + Window - 1)
            BY <2>1
          <6>1. p + 1 \in 2..(l + 1) /\ p + 1 \in 1..(l + 1)
            BY <1>2
          <6>2. t[p] > n /\ t[p] <= v.maxSeen /\ t[p] \in Nat
            BY <1>13, <2>1, <4>3, <6>1
          <6> QED
            BY <1>0, <1>12, <5>0, <5>1, <6>2
        <5>3. \A p, r \in 1..Window : t[p] = t[r] => p = r
          BY <2>1, <2>2
        <5> QED
          BY <5>0, <5>2, <5>3, TooMany, ZenonT(40)
      <4> QED
        BY <4>1, <4>2, <4>3
    <3> QED
      BY <2>7, <3>1, <3>2, <3>3 DEF contains
  <2> QED
    BY <2>4, <2>5, <2>6, <2>7 DEF v, g
<1> QED
  BY <1>18, <1>19

\* n was granted again: only after the window forgot it.
Regranted(n) ==
    \E i, k, j \in 1..Len(handled) :
        /\ handled[i] = n /\ handled[j] = n /\ i + Window < j
        /\ i < k /\ k < j /\ handled[k] < n

\* A granted scan is contained in the window, or may have been forgotten; or the
\* server restarted since, and then its job is over and none of its posts is left.
GrantedSeen(n) ==
    /\ granted[n] > 0 =>
        /\ n \in Done /\ job[n].pc # "none"
        /\ \/ contains(win, n) \/ Forgotten(handled, n)
           \/ job[n].pc = "done" /\ \A k \in 1..Attempts : <<n, k>> \notin wire
    /\ granted[n] > 1 => Regranted(n)

OnceInv ==
    /\ CauseInv
    /\ WindowOK(win) /\ Placed(win, handled)
    /\ \A n \in Seqs : GrantedSeen(n)

\* A fresh window is in step with any history.
LEMMA FreshWindowPlaced ==
    ASSUME NEW h
    PROVE  WindowOK(FreshWindow) /\ Placed(FreshWindow, h)
<1>1. FreshWindow.seen = {} /\ Len(FreshWindow.order) = 0 /\ 1..0 = {}
  BY DEF FreshWindow
<1> QED
  BY <1>1, WindowAssumption DEF WindowOK, Placed

\* A second grant stays explained, and the next handling of a forgotten number
\* explains one.
LEMMA RegrantedStays ==
    ASSUME TypeInv, NEW s \in Seqs, handled' = Append(handled, s)
    PROVE  /\ \A n \in Seqs : Regranted(n) => Regranted(n)'
           /\ Forgotten(handled, s) => Regranted(s)'
<1> DEFINE l == Len(handled)
<1>1. /\ l \in Nat /\ Len(handled') = l + 1 /\ handled'[l + 1] = s
      /\ \A i \in 1..l : handled'[i] = handled[i]
  BY HistoryGrows DEF TypeInv
<1> HIDE DEF l
<1>2. 1..l \subseteq 1..(l + 1) /\ l + 1 \in 1..(l + 1)
  BY <1>1
<1>3. ASSUME NEW n \in Seqs, Regranted(n)
      PROVE  Regranted(n)'
  <2>1. PICK i, k, j \in 1..l :
          /\ handled[i] = n /\ handled[j] = n /\ i + Window < j
          /\ i < k /\ k < j /\ handled[k] < n
    BY <1>3 DEF Regranted, l
  <2> QED
    BY <1>1, <1>2, <2>1 DEF Regranted
<1>4. ASSUME Forgotten(handled, s)
      PROVE  Regranted(s)'
  <2>1. PICK i \in 1..l : handled[i] = s /\ i + Window <= l /\ Late(handled, i)
    BY <1>4 DEF Forgotten, l
  <2>2. PICK k \in (i + 1)..l : handled[k] < handled[i]
    BY <2>1 DEF Late, l
  <2>3. k \in 1..l /\ i < k /\ k < l + 1 /\ i + Window < l + 1
    BY <1>1, <2>1, WindowAssumption
  <2>4. /\ handled'[i] = s /\ handled'[l + 1] = s /\ i + Window < l + 1
        /\ i < k /\ k < l + 1 /\ handled'[k] < s
    BY <1>1, <2>1, <2>2, <2>3
  <2> QED
    BY <1>1, <1>2, <2>3, <2>4 DEF Regranted
<1> QED
  BY <1>3, <1>4

\* Steps that decide nothing: jobs go on, finished ones stay finished, and only
\* a job in "post" adds a post.
LEMMA QuietStep ==
    ASSUME OnceInv, CauseInv', UNCHANGED <<win, granted, handled>>,
           \A i \in Seqs : /\ job'[i].pc = "none" <=> job[i].pc = "none"
                           /\ job[i].pc = "done" => job'[i].pc = "done",
           \A i \in Seqs, k \in 1..Attempts :
               <<i, k>> \in wire' => <<i, k>> \in wire \/ job[i].pc = "post"
    PROVE  OnceInv'
<1>1. Done' = Done
  BY DEF Done
<1>2. \A n \in Seqs : GrantedSeen(n)'
  <2> SUFFICES ASSUME NEW n \in Seqs
               PROVE  GrantedSeen(n)'
    OBVIOUS
  <2>1. GrantedSeen(n)
    BY DEF OnceInv
  <2> QED
    BY <1>1, <2>1 DEF GrantedSeen, Regranted
<1> QED
  BY <1>2 DEF OnceInv

\* A decision: the number is refused when the window contains it, and is contained
\* afterwards when it is granted.
LEMMA GrantingStep ==
    ASSUME OnceInv, CauseInv',
           NEW n \in Seqs, NEW out \in Outcomes, Handle(n, out),
           job[n].pc # "none",
           job[n].pc = "local" \/ \E k \in 1..Attempts : <<n, k>> \in wire,
           \A i \in Seqs : /\ job'[i].pc = "none" <=> job[i].pc = "none"
                           /\ job[i].pc = "done" => job'[i].pc = "done",
           wire' \subseteq wire
    PROVE  OnceInv'
<1>0. /\ TypeInv /\ win \in WindowType /\ granted \in [Seqs -> Nat]
      /\ handled \in Seq(Seqs) /\ WindowOK(win) /\ Placed(win, handled)
  BY DEF OnceInv, CauseInv, TypeInv
<1>1. /\ win' = IF Admitted(n, out) THEN remember(win, n) ELSE win
      /\ granted' = [granted EXCEPT ![n] = IF Verdict(n, out) = "allow" THEN @ + 1 ELSE @]
      /\ handled' = Append(handled, n)
  BY DEF Handle, WindowAfter
<1>2. Done' = Done \cup {n}
  BY <1>0, <1>1, DoneGrows
<1>3. Verdict(n, out) = "allow" => Admitted(n, out)
  BY DEF Verdict
<1>4. /\ WindowOK(win') /\ Placed(win', handled')
      /\ \A i \in Seqs : contains(win, i) => contains(win', i) \/ Forgotten(handled', i)
  <2>1. CASE Admitted(n, out)
    BY <1>0, <1>1, <2>1, RememberPlaces DEF Admitted
  <2>2. CASE ~ Admitted(n, out)
    BY <1>0, <1>1, <2>2, PastStays
  <2> QED
    BY <2>1, <2>2
<1>5. \A i \in Seqs : Forgotten(handled, i) => Forgotten(handled', i)
  BY <1>0, <1>1, PastStays
<1>6. ASSUME NEW i \in Seqs
      PROVE  GrantedSeen(i)'
  <2>1. GrantedSeen(i)
    BY DEF OnceInv
  <2>2. CASE i = n /\ Verdict(n, out) = "allow"
    <3>1. ~ contains(win, n) /\ contains(win', n)
      BY <1>0, <1>1, <1>3, <2>2, RememberPlaces DEF Admitted
    <3>2. granted'[n] = granted[n] + 1 /\ granted[n] \in Nat
      BY <1>0, <1>1, <2>2
    <3>3. granted[n] > 0 => Forgotten(handled, n)
      BY <2>1, <2>2, <3>1 DEF GrantedSeen
    <3>4. granted'[n] > 1 => Regranted(n)'
      BY <1>0, <1>1, <3>2, <3>3, RegrantedStays
    <3>5. job'[n].pc # "none" /\ n \in Done'
      BY <1>2
    <3> QED
      BY <2>2, <3>1, <3>4, <3>5 DEF GrantedSeen
  <2>3. CASE i # n \/ Verdict(n, out) # "allow"
    <3>1. granted'[i] = granted[i]
      BY <1>0, <1>1, <2>3
    <3>2. granted'[i] > 1 => Regranted(i)'
      BY <1>0, <1>1, <2>1, <3>1, RegrantedStays DEF GrantedSeen
    <3> QED
      BY <1>2, <1>4, <1>5, <2>1, <3>1, <3>2 DEF GrantedSeen
  <2> QED
    BY <2>2, <2>3
<1> QED
  BY <1>4, <1>6 DEF OnceInv

\* Every step keeps the invariant.
LEMMA OnceStep ==
    ASSUME OnceInv, [Next]_vars
    PROVE  OnceInv'
<1>0. /\ CauseInv /\ CauseInv' /\ WindowOK(win) /\ Placed(win, handled)
      /\ TypeInv /\ CounterOK /\ WireOK
  BY CauseStep DEF OnceInv, CauseInv
<1>a. job \in [Seqs -> JobType] /\ wire \subseteq Seqs \X (1..Attempts)
  BY <1>0 DEF TypeInv
<1>1. CASE postUidToServer
  <2> DEFINE s == hwSeq + 1
  <2>1. s \in Seqs /\ s > hwSeq /\ hwSeq \in Nat
    BY <1>0, <1>1, HwAssumption DEF postUidToServer, Seqs, TypeInv
  <2>2. s \notin Done
    BY <1>0, <2>1 DEF CounterOK
  <2>3. /\ job' = [job EXCEPT ![s] = [NoJob EXCEPT !.pc = "request"]]
        /\ hwSeq' = s /\ nvSeq' = s
        /\ UNCHANGED <<wire, win, granted, handled>> /\ Done' = Done
    BY <1>1 DEF postUidToServer, engine, Done
  <2> HIDE DEF s
  <2>4. job'[s].pc = "request" /\ \A i \in Seqs \ {s} : job'[i] = job[i]
    BY <1>a, <2>1, <2>3 DEF NoJob
  <2>6. \A n \in Seqs : GrantedSeen(n)'
    <3> SUFFICES ASSUME NEW n \in Seqs
                 PROVE  GrantedSeen(n)'
      OBVIOUS
    <3>1. GrantedSeen(n)
      BY DEF OnceInv
    <3>2. CASE n = s
      <4>1. granted[n] = 0
        BY <1>0, <2>2, <3>1, <3>2 DEF GrantedSeen, TypeInv
      <4> QED
        BY <2>3, <4>1 DEF GrantedSeen
    <3>3. CASE n # s
      BY <2>3, <2>4, <3>1, <3>3 DEF GrantedSeen, Regranted
    <3> QED
      BY <3>2, <3>3
  <2>7. WindowOK(win') /\ Placed(win', handled')
    BY <1>0, <2>3
  <2> QED
    BY <1>0, <2>6, <2>7 DEF OnceInv
<1>2. CASE DeviceGivesUp
  BY <1>0, <1>2, QuietStep DEF DeviceGivesUp, engine
<1>3. CASE Reboot
  <2>1. UNCHANGED <<job, wire, win, granted, handled>>
    BY <1>3 DEF Reboot, engine
  <2> QED
    BY <1>0, <2>1, QuietStep
<1>4. ASSUME NEW n \in Seqs, Work(n)
      PROVE  OnceInv'
  <2>1. CASE RefuseRequest(n) \/ UnknownReader(n)
    <3>1. /\ UNCHANGED <<handled, granted, win, wire>>
          /\ job[n].pc = "request"
          /\ Finish(n, "error") \/ Finish(n, "deny")
      BY <2>1 DEF RefuseRequest, UnknownReader, device, engine
    <3>2. /\ \A k \in Seqs \ {n} : job'[k] = job[k]
          /\ job'[n].pc = "answer"
      BY <1>a, <3>1, FinishType DEF VerdictType
    <3> QED
      BY <1>0, <3>1, <3>2, QuietStep
  <2>2. CASE buildEncryptedFrameBytes(n)
    <3>1. /\ UNCHANGED <<handled, granted, win, wire>>
          /\ job[n].pc = "request"
          /\ \A k \in Seqs \ {n} : job'[k] = job[k]
          /\ job'[n].pc \in {"post", "local"}
      BY <1>a, <2>2 DEF buildEncryptedFrameBytes, device, engine, JobType
    <3> QED
      BY <1>0, <3>1, QuietStep
  <2>3. CASE LoseRequest(n)
    <3>1. /\ UNCHANGED <<handled, granted, win, wire>>
          /\ job[n].pc = "request"
          /\ \A k \in Seqs \ {n} : job'[k] = job[k]
          /\ job'[n].pc = "done"
      BY <1>a, <2>3 DEF LoseRequest, device, engine, JobType
    <3> QED
      BY <1>0, <3>1, QuietStep
  <2>4. CASE Post(n)
    <3>1. /\ UNCHANGED <<handled, granted, win>>
          /\ job[n].pc = "post"
          /\ \A k \in Seqs \ {n} : job'[k] = job[k]
          /\ job'[n].pc = "wait"
          /\ wire' = wire \cup {<<n, job[n].attempt>>}
      BY <1>a, <2>4 DEF Post, device, engine, JobType
    <3>2. \A i \in Seqs, k \in 1..Attempts :
              <<i, k>> \in wire' => <<i, k>> \in wire \/ job[i].pc = "post"
      BY <3>1
    <3> QED
      BY <1>0, <3>1, <3>2, QuietStep
  <2>5. CASE AttemptFails(n)
    <3>1. /\ UNCHANGED <<handled, granted, win, wire>>
          /\ job[n].pc \in {"post", "wait"}
          /\ job' = Retry(n)
      BY <2>5 DEF AttemptFails, device, engine
    <3>2. /\ \A k \in Seqs \ {n} : job'[k] = job[k]
          /\ job'[n].pc \in {"post", "answer"}
      BY <1>a, <3>1, RetryType
    <3> QED
      BY <1>0, <3>1, <3>2, QuietStep
  <2>6. CASE Answer(n)
    <3>1. /\ UNCHANGED <<handled, granted, win, wire>>
          /\ job[n].pc = "answer"
          /\ \A k \in Seqs \ {n} : job'[k] = job[k]
          /\ job'[n].pc = "done"
      BY <1>a, <2>6 DEF Answer, engine, JobType
    <3> QED
      BY <1>0, <3>1, QuietStep
  <2>7. ASSUME NEW out \in Outcomes, DecideLocal(n, out)
        PROVE  OnceInv'
    <3>1. UNCHANGED wire /\ job[n].pc = "local"
      BY <2>7 DEF DecideLocal
    <3>2. \E v \in VerdictType : Finish(n, v)
      BY <1>0, <2>7, HandleType DEF DecideLocal, VerdictType
    <3>3. (\A k \in Seqs \ {n} : job'[k] = job[k]) /\ job'[n].pc = "answer"
      BY <1>a, <3>2, FinishType
    <3>4. CASE Fails
      <4>1. UNCHANGED <<granted, win, handled>>
        BY <3>4 DEF Fails, engine
      <4> QED
        BY <1>0, <3>1, <3>3, <4>1, QuietStep
    <3>5. CASE Handle(n, out)
      BY <1>0, <3>1, <3>3, <3>5, GrantingStep
    <3> QED
      BY <2>7, <3>4, <3>5 DEF DecideLocal
  <2> QED
    BY <1>4, <2>1, <2>2, <2>3, <2>4, <2>5, <2>6, <2>7 DEF Work
<1>5. ASSUME NEW nk \in wire, NEW out \in Outcomes, DecideRemote(nk[1], nk[2], out)
      PROVE  OnceInv'
  <2>1. PICK n \in Seqs, k \in 1..Attempts : nk = <<n, k>>
    BY <1>a
  <2>2. /\ <<n, k>> \in wire /\ wire' = wire \ {<<n, k>>}
        /\ Handle(n, out) \/ Fails
    BY <1>5, <2>1 DEF DecideRemote
  <2>3. job[n].pc # "none"
    BY <1>0, <2>2 DEF WireOK
  <2>4. \/ job' = job
        \/ job[n].pc = "wait" /\ job' = Retry(n)
        \/ job[n].pc = "wait" /\ \E v \in VerdictType : Finish(n, v)
    BY <1>0, <1>5, <2>1, HandleType DEF DecideRemote, VerdictType
  <2>5. /\ \A i \in Seqs \ {n} : job'[i] = job[i]
        /\ \/ job'[n] = job[n]
           \/ job[n].pc = "wait" /\ job'[n].pc \in {"answer", "post"}
    BY <1>a, <2>4, RetryType, FinishType
  <2>6. \A i \in Seqs : /\ job'[i].pc = "none" <=> job[i].pc = "none"
                        /\ job[i].pc = "done" => job'[i].pc = "done"
    BY <2>3, <2>5
  <2>7. CASE Fails
    <3>1. UNCHANGED <<granted, win, handled>>
      BY <2>7 DEF Fails, engine
    <3> QED
      BY <1>0, <2>2, <2>6, <3>1, QuietStep
  <2>8. CASE Handle(n, out)
    BY <1>0, <2>2, <2>3, <2>6, <2>8, GrantingStep
  <2> QED
    BY <2>2, <2>7, <2>8
<1>6. CASE Release
  <2>1. UNCHANGED <<job, wire, win, granted, handled>>
    BY <1>6 DEF Release
  <2> QED
    BY <1>0, <2>1, QuietStep
<1>7. CASE Restart
  <2>1. wire' = {} /\ win' = FreshWindow /\ UNCHANGED <<granted, handled>> /\ Done' = Done
    BY <1>7 DEF Restart, Done
  <2>2. \A n \in Seqs : job'[n].pc = IF job[n].pc = "none" THEN "none" ELSE "done"
    BY <1>7, <1>a DEF Restart, JobType
  <2>4. \A n \in Seqs : GrantedSeen(n)'
    <3> SUFFICES ASSUME NEW n \in Seqs
                 PROVE  GrantedSeen(n)'
      OBVIOUS
    <3>1. GrantedSeen(n)
      BY DEF OnceInv
    <3> QED
      BY <2>1, <2>2, <3>1 DEF GrantedSeen, Regranted
  <2>5. WindowOK(win') /\ Placed(win', handled')
    BY <2>1, FreshWindowPlaced
  <2> QED
    BY <1>0, <2>4, <2>5 DEF OnceInv
<1>8. CASE UNCHANGED vars
  <2>1. UNCHANGED <<job, wire, win, granted, handled>>
    BY <1>8 DEF vars, device, engine
  <2> QED
    BY <1>0, <2>1, QuietStep
<1> QED
  BY <1>1, <1>2, <1>3, <1>4, <1>5, <1>6, <1>7, <1>8 DEF Next

\* A scan is granted twice only if the window forgot it: it was full of frames
\* handled since, and one of them the scan had overtaken.  Otherwise not by the
\* retries of the service, not by a post that is handled after its answer was given
\* up, not across reboots of the device and restarts of the server, which empty the
\* window.  For any number of scans and any capacity.
THEOREM GrantedAtMostOnceAlways == Spec => []GrantedAtMostOnce
<1>1. Init => OnceInv
  <2> SUFFICES ASSUME Init
               PROVE  OnceInv
    OBVIOUS
  <2>1. CauseInv
    BY CauseInit
  <2>2. \A n \in Seqs : GrantedSeen(n)
    BY DEF Init, GrantedSeen
  <2>3. WindowOK(win) /\ Placed(win, handled)
    BY FreshWindowPlaced DEF Init
  <2> QED
    BY <2>1, <2>2, <2>3 DEF OnceInv
<1>2. OnceInv /\ [Next]_vars => OnceInv'
  BY OnceStep
<1>3. OnceInv => GrantedAtMostOnce
  BY DEF OnceInv, GrantedSeen, GrantedAtMostOnce, Regranted
<1> QED
  BY <1>1, <1>2, <1>3, PTL DEF Spec
=============================================================================
