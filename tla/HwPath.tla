------------------------------- MODULE HwPath -------------------------------
(***************************************************************************)
(* A scan from the card reader to the door: the ESP32 firmware             *)
(* (hw_layer.ino), the hardware route with HwService::processHwUid, and    *)
(* the decision endpoint it calls, with retries, timeouts on both sides,   *)
(* restarts of the server and reboots of the device.                       *)
(*                                                                         *)
(* One device, hence one reader.  The firmware sends one scan at a time    *)
(* under a number it has just stored in flash; when it gives up waiting,   *)
(* the job of the server goes on.  The service posts the SAME frame up to  *)
(* Attempts times; a post whose answer came too late is still handled.     *)
(*                                                                         *)
(* The decision engine appears by what it does to the window and the       *)
(* detector of the reader (module DecisionEngine has it step by step); the *)
(* policy and the other checks are a free choice among Outcomes.           *)
(***************************************************************************)
EXTENDS ReplayWindow, AnomalyDetector

CONSTANTS Configs,      \* configurations the system may run under (see ConfigType)
          Attempts,     \* posts per scan (3 in the code)
          MaxScans,     \* bound: scans sent
          MaxReboots,   \* bound: reboots of the device
          MaxRestarts,  \* bound: restarts of the server
          MaxReleases   \* bound: quarantines lifted by an administrator

\* signed: the device and the server have the same secret.  remote:
\* admin.decisionMode.  detector: misuseDetectionEnabled.
ConfigType == [signed : BOOLEAN, remote : BOOLEAN, detector : BOOLEAN]

ASSUME HwAssumption ==
    /\ Configs \subseteq ConfigType
    /\ Attempts \in Nat \ {0}
    /\ {MaxScans, MaxReboots, MaxRestarts, MaxReleases} \subseteq Nat

VARIABLES cfg,      \* the configuration
          hwSeq,    \* the device's counter
          nvSeq,    \* its copy in flash
          dev,      \* number of the scan the device waits for, or 0
          job,      \* the server's job for each number
          wire,     \* <<number, attempt>> posted and not handled yet
          win, det, \* window and detector state of the reader
          shown,    \* what the device signalled for each number
          handled,  \* history: the numbers the engine handled, in the order it did
          granted,  \* history: times the engine granted it
          reboots, restarts, releases

Seqs == 1..MaxScans

device  == <<hwSeq, nvSeq, dev, shown>>
engine  == <<win, det, handled, granted>>
counts  == <<reboots, restarts, releases>>
vars == <<cfg, device, job, wire, engine, counts>>

NoJob == [pc |-> "none", attempt |-> 1, verdict |-> "none"]

Init ==
    /\ cfg \in Configs
    /\ hwSeq = 0 /\ nvSeq = 0 /\ dev = 0
    /\ job = [n \in Seqs |-> NoJob]
    /\ wire = {}
    /\ win = FreshWindow /\ det = FreshReader
    /\ shown = [n \in Seqs |-> "none"]
    /\ handled = << >> /\ granted = [n \in Seqs |-> 0]
    /\ reboots = 0 /\ restarts = 0 /\ releases = 0
-----------------------------------------------------------------------------
(* The device                                                              *)

\* Mutant: the counter is not written to flash.
PostUidUnsaved ==
    /\ dev = 0 /\ hwSeq < MaxScans
    /\ hwSeq' = hwSeq + 1
    /\ dev' = hwSeq + 1
    /\ job' = [job EXCEPT ![hwSeq + 1] = [NoJob EXCEPT !.pc = "request"]]
    /\ UNCHANGED <<cfg, nvSeq, wire, shown, engine, counts>>

\* A card is read: the counter is raised and stored before the request goes
\* out.  (The same card again too soon, or no network, uses no number.)
postUidToServer ==
    /\ dev = 0 /\ hwSeq < MaxScans
    /\ hwSeq' = hwSeq + 1 /\ nvSeq' = hwSeq + 1
    /\ dev' = hwSeq + 1
    /\ job' = [job EXCEPT ![hwSeq + 1] = [NoJob EXCEPT !.pc = "request"]]
    /\ UNCHANGED <<cfg, wire, shown, engine, counts>>

\* The body says "allow": true; an error body does not, or has no such field.
parseAllowFromJson(verdict) == verdict = "allow"

\* loop: green light on an allow only; every other end is a denial.
Signal(n, verdict) ==
    /\ shown' = [shown EXCEPT ![n] = IF parseAllowFromJson(verdict) THEN "allow" ELSE "deny"]
    /\ dev' = 0

\* The request fails or is not answered in time: "SEND FAILED".
DeviceGivesUp ==
    /\ dev # 0
    /\ Signal(dev, "error")
    /\ UNCHANGED <<cfg, hwSeq, nvSeq, job, wire, engine, counts>>

\* setup: the counter comes back from flash.
Reboot ==
    /\ reboots < MaxReboots
    /\ reboots' = reboots + 1
    /\ hwSeq' = nvSeq /\ dev' = 0
    /\ UNCHANGED <<cfg, nvSeq, shown, job, wire, engine, restarts, releases>>
-----------------------------------------------------------------------------
(* The hardware route and processHwUid                                     *)

Finish(n, verdict) == job' = [job EXCEPT ![n].pc = "answer", ![n].verdict = verdict]

\* The HMAC of the body under the shared secret; symbolic.
verifyHwSignature == cfg.signed

\* The route refuses the request: 401, or 500 without a secret.
RefuseRequest(n) ==
    /\ job[n].pc = "request" /\ ~ verifyHwSignature
    /\ Finish(n, "error")
    /\ UNCHANGED <<cfg, device, wire, engine, counts>>

\* The reader is not in the store (any more): a plain denial.
UnknownReader(n) ==
    /\ job[n].pc = "request" /\ verifyHwSignature
    /\ Finish(n, "deny")
    /\ UNCHANGED <<cfg, device, wire, engine, counts>>

\* The frame is sealed once, under m; its number, nonce and time are the same in
\* every attempt, so the number stands for it.
buildEncryptedFrameBytes(n) ==
    /\ job[n].pc = "request" /\ verifyHwSignature
    /\ job' = [job EXCEPT ![n].pc = IF cfg.remote THEN "post" ELSE "local"]
    /\ UNCHANGED <<cfg, device, wire, engine, counts>>

\* The request never reaches the server.
LoseRequest(n) ==
    /\ job[n].pc = "request"
    /\ job' = [job EXCEPT ![n].pc = "done"]
    /\ UNCHANGED <<cfg, device, wire, engine, counts>>

Post(n) ==
    /\ job[n].pc = "post"
    /\ wire' = wire \cup {<<n, job[n].attempt>>}
    /\ job' = [job EXCEPT ![n].pc = "wait"]
    /\ UNCHANGED <<cfg, device, engine, counts>>

\* Mutant: the failed attempt is not counted.
RetryForever(n) == [job EXCEPT ![n].pc = "post"]

\* Mutant: without an answer the scan is let through.
RetryThenAllow(n) ==
    IF job[n].attempt < Attempts
    THEN [job EXCEPT ![n].pc = "post", ![n].attempt = @ + 1]
    ELSE [job EXCEPT ![n].pc = "answer", ![n].verdict = "allow"]

\* After a failed attempt: the next one, or remote_unavailable.
Retry(n) ==
    IF job[n].attempt < Attempts
    THEN [job EXCEPT ![n].pc = "post", ![n].attempt = @ + 1]
    ELSE [job EXCEPT ![n].pc = "answer", ![n].verdict = "deny"]

\* No connection, or no answer within the read timeout.
AttemptFails(n) ==
    /\ job[n].pc \in {"post", "wait"}
    /\ job' = Retry(n)
    /\ UNCHANGED <<cfg, device, wire, engine, counts>>

\* The route answers; the device may have stopped waiting.
Answer(n) ==
    /\ job[n].pc = "answer"
    /\ job' = [job EXCEPT ![n].pc = "done"]
    /\ IF dev = n THEN Signal(n, job[n].verdict) ELSE UNCHANGED <<dev, shown>>
    /\ UNCHANGED <<cfg, hwSeq, nvSeq, wire, engine, counts>>
-----------------------------------------------------------------------------
(* The decision                                                            *)

\* grant, deny: the policy's verdict.  early: another check of the frame handler
\* fails (reader, door, key version, time).  lost: an exception before the window is
\* touched.  error: an exception once the decision is made (audit, policy).
Outcomes == {"grant", "deny", "early", "lost", "error"}

Replayed(n, out) == out # "early" /\ contains(win, n)
Admitted(n, out) == out # "early" /\ ~ contains(win, n)
Stopped(n) == cfg.detector /\ (isQuarantined(det) \/ RollsBack(det, n))

WindowAfter(n, out) == IF Admitted(n, out) THEN remember(win, n) ELSE win

DetectorAfter(n, out) ==
    IF ~ cfg.detector \/ isQuarantined(det) THEN det
    ELSE IF RollsBack(det, n) THEN reportSeq(det, n)
    ELSE IF Replayed(n, out) THEN reportReplay(reportSeq(det, n))
    ELSE IF Admitted(n, out) THEN reportSuccess(reportSeq(det, n), n)
    ELSE reportSeq(det, n)

Verdict(n, out) ==
    IF out = "error" THEN "error"
    ELSE IF out = "grant" /\ Admitted(n, out) /\ ~ Stopped(n) THEN "allow" ELSE "deny"

\* handleFrameBytes on the frame of scan n.
Handle(n, out) ==
    /\ handled' = Append(handled, n)
    /\ win' = WindowAfter(n, out)
    /\ det' = DetectorAfter(n, out)
    /\ granted' = [granted EXCEPT ![n] = IF Verdict(n, out) = "allow" THEN @ + 1 ELSE @]

Fails == UNCHANGED engine

\* The endpoint handles a post; its answer counts while the service waits for it.
DecideRemote(n, k, out) ==
    /\ <<n, k>> \in wire
    /\ wire' = wire \ {<<n, k>>}
    /\ IF out = "lost" THEN Fails ELSE Handle(n, out)
    /\ IF job[n].pc = "wait" /\ job[n].attempt = k
       THEN IF out \in {"lost", "error"} THEN job' = Retry(n) ELSE Finish(n, Verdict(n, out))
       ELSE UNCHANGED job
    /\ UNCHANGED <<cfg, device, counts>>

\* Local mode: the engine is called under m, once; an exception answers 400.
DecideLocal(n, out) ==
    /\ job[n].pc = "local"
    /\ IF out = "lost" THEN Fails /\ Finish(n, "error")
                       ELSE Handle(n, out) /\ Finish(n, Verdict(n, out))
    /\ UNCHANGED <<cfg, device, wire, counts>>

\* An administrator lifts the quarantine.
Release ==
    /\ releases < MaxReleases /\ isQuarantined(det)
    /\ releases' = releases + 1
    /\ det' = unquarantine(det)
    /\ UNCHANGED <<cfg, device, job, wire, win, handled, granted, reboots, restarts>>

\* The server restarts: its jobs, posts, windows and detector are gone.
Restart ==
    /\ restarts < MaxRestarts
    /\ restarts' = restarts + 1
    /\ job' = [n \in Seqs |-> IF job[n].pc = "none" THEN job[n] ELSE [job[n] EXCEPT !.pc = "done"]]
    /\ wire' = {}
    /\ win' = FreshWindow /\ det' = FreshReader
    /\ UNCHANGED <<cfg, device, handled, granted, reboots, releases>>

Work(n) ==
    \/ RefuseRequest(n) \/ UnknownReader(n) \/ buildEncryptedFrameBytes(n) \/ LoseRequest(n) \/ Post(n) \/ AttemptFails(n) \/ Answer(n)
    \/ \E out \in Outcomes : DecideLocal(n, out)

Next ==
    \/ postUidToServer \/ DeviceGivesUp \/ Reboot
    \/ \E n \in Seqs : Work(n)
    \/ \E nk \in wire, out \in Outcomes : DecideRemote(nk[1], nk[2], out)
    \/ Release \/ Restart

Spec == Init /\ [][Next]_vars

\* The thread of a job runs; its waits end at the latest with their timeouts.
FairSpec == Spec /\ \A n \in Seqs : WF_vars(Work(n))
-----------------------------------------------------------------------------
\* Every variable has its type.
TypeOK ==
    /\ cfg \in ConfigType
    /\ {hwSeq, nvSeq, dev} \subseteq 0..MaxScans
    /\ job \in [Seqs -> [pc : {"none", "request", "post", "wait", "local", "answer", "done"},
                         attempt : 1..Attempts,
                         verdict : {"none", "allow", "deny", "error"}]]
    /\ wire \subseteq Seqs \X (1..Attempts)
    /\ win \in [maxSeen : Nat, seen : SUBSET Seqs, order : Seq(Seqs)]
    /\ det \in ReaderState
    /\ shown \in [Seqs -> {"none", "allow", "deny"}]
    /\ granted \in [Seqs -> Nat] /\ handled \in Seq(Seqs)

\* The green light is shown only for a scan the engine granted: no timeout, late
\* answer, retry, reboot or restart makes the device open the door by itself.
AllowShownIfGranted == \A n \in Seqs : shown[n] = "allow" => granted[n] > 0

\* However often a scan is posted again, it is granted at most once, across late
\* posts, reboots and restarts and although the window forgets; unless the window
\* was full of later frames by then and a scan it had overtaken was among them.
GrantedAtMostOnce ==
    \A n \in Seqs : granted[n] > 1 =>
        \E i, k, j \in 1..Len(handled) :
            /\ handled[i] = n /\ handled[j] = n /\ i + Window < j
            /\ i < k /\ k < j /\ handled[k] < n

\* The frame that brings the reader into quarantine is one the service posted again
\* after it had been handled, or one overtaken by a number too far ahead for the
\* detector or the window: a reboot of the device or a restart of the server does
\* not lock it out, and neither does another scan's retry or an orderly past.
QuarantineHasCause ==
    [][ ~ isQuarantined(det) /\ isQuarantined(det') =>
          \E n \in Seqs :
            /\ handled' = Append(handled, n)
            /\ \E i \in 1..Len(handled) :
                 \/ handled[i] = n /\ job[n].attempt > 1
                 \/ handled[i] > n + RollbackThreshold
                 \/ handled[i] >= n + Window ]_vars

\* Every job of the server ends.
JobsEnd == \A n \in Seqs : job[n].pc = "request" ~> job[n].pc = "done"
=============================================================================
