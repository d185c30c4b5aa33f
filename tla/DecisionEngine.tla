--------------------------- MODULE DecisionEngine ---------------------------
(***************************************************************************)
(* The decision path of the server: DecisionEngine::handleFrameBytes with  *)
(* the FrameHandler it calls, the per-reader replay windows, the anomaly   *)
(* detector and the policy store, interleaved with the administration      *)
(* services that change the same store.                                    *)
(*                                                                         *)
(* One frame is in flight at a time: the decision endpoint handles frames  *)
(* under engineMutex, the hardware route in local mode under the admin     *)
(* mutex m.  The admin services take m only, so with the endpoint they run *)
(* between any two SQL statements of the handler; every statement is a     *)
(* step of its own here.  Exclusive says that the handler holds m as well, *)
(* as the hardware route does in local mode, and admin operations wait for *)
(* it; the endpoint is open in that mode too, and never holds m.           *)
(*                                                                         *)
(* Cryptography is symbolic: tagOk says that the AEAD tag verifies under   *)
(* the key of the header's reader and key version, nonceOk that the nonce  *)
(* is the HMAC of the header.  The clock is a free choice among the three  *)
(* outcomes of the timestamp check.                                        *)
(***************************************************************************)
EXTENDS ReplayWindow, AnomalyDetector, AccessStore

CONSTANTS Frames,               \* frames that can arrive (see FrameType)
          InitStores,           \* databases the server may be started on
          ZeroReader,           \* reader id of a value-initialised header (0)
          NoCard,               \* payload that does not parse
          NoReply,              \* no answer given yet
          AntiReplay,           \* FrameHandlerConfig::antiReplayEnabled
          SkewChecked,          \* maxSkewMs # 0
          AllowPrev,            \* allowPreviousKeyVersion
          EnforceBinding,       \* enforceReaderDoorBinding
          StaticPepper,         \* pepperMode = "static"
          DeterministicNonce,   \* nonceMode = "deterministic"
          DetectorEnabled,      \* DetectorConfig::enabled
          Exclusive,            \* the handler holds the admin mutex too
          MaxFrames,            \* bound: frames handled
          MaxChanges,           \* bound: changes by administrators
          MaxRestarts           \* bound: restarts of the process

FrameType ==
    [parses : BOOLEAN, reader : Readers, door : Doors, seq : Nat, kv : 0..MaxKv,
     nonceOk : BOOLEAN, tagOk : BOOLEAN, card : Cards \cup {NoCard},
     action : {"open", "other"}]

ASSUME EngineAssumption ==
    /\ Frames \subseteq FrameType /\ Frames # {}
    /\ InitStores \subseteq {s \in StoreType : ForeignKeys(s)}
    /\ ZeroReader \in Readers
    /\ NoCard \notin Cards
    /\ {AntiReplay, SkewChecked, AllowPrev, EnforceBinding, StaticPepper,
        DeterministicNonce, DetectorEnabled, Exclusive} \subseteq BOOLEAN
    /\ {MaxFrames, MaxChanges, MaxRestarts} \subseteq Nat
-----------------------------------------------------------------------------
VARIABLES store,        \* the policy database
          win,          \* replayByReader: a window per reader
          det,          \* _readers of the detector: a state per reader
          audit,        \* rows of audit_log, oldest first
          pc,           \* where the handler of the frame in flight is
          req,          \* that frame
          kv,           \* the key version last read for it
          reason,       \* HandleResult::reason, later the reason of the verdict
          role,         \* roleOpt of checkAccessPolicy
          events,       \* event kinds the frame in flight has pushed to the bus
          reply,        \* the last answer: [frame, allow, reason]
          views,        \* history: states of the store since the frame arrived
          granted,      \* history: <<reader, seq>> of the frames granted
          reordered,    \* history: readers with a frame admitted after a higher number
          opened,       \* history: <<reader, seq>> of the frames this process has opened
          frames,       \* number of frames handled
          changes,      \* number of admin changes
          restarts      \* number of restarts

process == <<win, det>>                     \* lost in a restart
request == <<pc, req, kv, reason, role, events>>
history == <<views, granted, reordered, opened>>
counts  == <<frames, changes, restarts>>
vars    == <<store, process, audit, request, reply, history, counts>>

\* The header of the handler's result: a frame that does not parse leaves a
\* value-initialised one, whose nonce is not the HMAC of anything.
Header(f) ==
    IF f.parses THEN [reader |-> f.reader, seq |-> f.seq, nonceOk |-> f.nonceOk]
                ELSE [reader |-> ZeroReader, seq |-> 0, nonceOk |-> FALSE]

Init ==
    /\ store \in InitStores
    /\ win = [r \in Readers |-> FreshWindow]
    /\ det = [r \in Readers |-> FreshReader]
    /\ audit = << >>
    /\ pc = "idle" /\ req = (CHOOSE f \in Frames : TRUE)
    /\ kv = 0 /\ reason = "ok" /\ role = NoRole /\ events = << >>
    /\ reply = NoReply
    /\ views = {} /\ granted = {} /\ reordered = {} /\ opened = {}
    /\ frames = 0 /\ changes = 0 /\ restarts = 0
-----------------------------------------------------------------------------
(* FrameHandler::handle                                                    *)

\* The frame is taken under the lock and parsed.
Receive(f) ==
    /\ pc = "idle" /\ frames < MaxFrames
    /\ req' = f
    /\ reason' = IF f.parses THEN "ok" ELSE "parse_error"
    /\ pc' = IF f.parses THEN "reader" ELSE "detector"
    /\ events' = << >>
    /\ kv' = 0 /\ role' = NoRole
    /\ views' = {store}
    /\ frames' = frames + 1
    /\ UNCHANGED <<store, process, audit, reply, granted, reordered, opened, changes, restarts>>

\* validateReader, first statement: the reader's current key version.
validateReader ==
    /\ pc = "reader"
    /\ kv' = currentKeyVersionForReader(store, req.reader)
    /\ IF kv' = 0 THEN pc' = "detector" /\ reason' = "unknown_reader"
                  ELSE pc' = "admit" /\ UNCHANGED reason
    /\ UNCHANGED <<store, process, audit, req, role, events, reply, history, counts>>

\* validateKeyVersion: the current version, or the one before it.
KeyVersionOk(v, cur) == v = cur \/ (AllowPrev /\ cur > 1 /\ v + 1 = cur)

\* Mutant: the replay check is skipped.
FrameVerdictNoReplay(f, cur, bound, w, age) ==
    IF EnforceBinding /\ ~ bound THEN "reader_door_forbidden"
    ELSE IF ~ KeyVersionOk(f.kv, cur) THEN "bad_key_version"
    ELSE IF ~ f.tagOk THEN "decrypt_failed"
    ELSE age

\* The checks of handle() in their order, down to the decryption and the
\* timestamp; the first that fails names the result.
FrameVerdict(f, cur, bound, w, age) ==
    IF EnforceBinding /\ ~ bound THEN "reader_door_forbidden"
    ELSE IF ~ KeyVersionOk(f.kv, cur) THEN "bad_key_version"
    ELSE IF AntiReplay /\ contains(w, f.seq) THEN "replay"
    ELSE IF ~ f.tagOk THEN "decrypt_failed"
    ELSE age

\* Outcomes of checkTimestamp.
Ages == IF SkewChecked THEN {"ok", "too_old", "too_future"} ELSE {"ok"}

\* Mutant: the sequence number is remembered before the tag is verified.
AdmitRemembersFirst(age) ==
    /\ pc = "admit"
    /\ reason' = FrameVerdict(req, kv, isReaderAllowedDoor(store, req.reader, req.door),
                              win[req.reader], age)
    /\ win' = IF AntiReplay THEN [win EXCEPT ![req.reader] = remember(@, req.seq)] ELSE win
    /\ reordered' = IF win' # win /\ req.seq < win[req.reader].maxSeen
                    THEN reordered \cup {req.reader} ELSE reordered
    /\ opened' = IF reason' = "ok" THEN opened \cup {<<req.reader, req.seq>>} ELSE opened
    /\ pc' = "detector"
    /\ UNCHANGED <<store, det, audit, req, kv, role, events, reply, views, granted, counts>>

\* The binding lookup and everything after it that touches no shared store:
\* key version, replay window, decryption.  Only a frame that passes them all
\* is remembered.
tryDecrypt(age) ==
    /\ pc = "admit"
    /\ reason' = FrameVerdict(req, kv, isReaderAllowedDoor(store, req.reader, req.door),
                              win[req.reader], age)
    /\ win' = IF AntiReplay /\ reason' = "ok"
              THEN [win EXCEPT ![req.reader] = remember(@, req.seq)] ELSE win
    /\ reordered' = IF win' # win /\ req.seq < win[req.reader].maxSeen
                    THEN reordered \cup {req.reader} ELSE reordered
    /\ opened' = IF reason' = "ok" THEN opened \cup {<<req.reader, req.seq>>} ELSE opened
    /\ pc' = "detector"
    /\ UNCHANGED <<store, det, audit, req, kv, role, events, reply, views, granted, counts>>
-----------------------------------------------------------------------------
(* handleFrameBytes: the detector.  Between isQuarantined and the reports  *)
(* only unquarantine could intervene, and it has no effect on a reader     *)
(* that is not quarantined: each branch is one step.                       *)

hdr == Header(req)

\* Mutant: only one of the causes of a quarantine is honoured.
HeldForReuseOnly == DetectorEnabled /\ det[hdr.reader].quarantine = "seq_reuse"

Held == DetectorEnabled /\ isQuarantined(det[hdr.reader])

Rollback == DetectorEnabled /\ hdr.seq > 0 /\ RollsBack(det[hdr.reader], hdr.seq)

NonceMismatch == DetectorEnabled /\ DeterministicNonce /\ ~ hdr.nonceOk

\* The reader's state once reportSeq has not found a rollback.
SeqReported ==
    IF DetectorEnabled /\ hdr.seq > 0 THEN reportSeq(det[hdr.reader], hdr.seq)
                                      ELSE det[hdr.reader]

\* The verdict is reached; it is audited next.
Conclude(why, pushed) ==
    /\ reason' = why
    /\ events' = events \o pushed
    /\ pc' = "audit"

\* Mutant: a quarantined reader's numbers are still reported.
DenyQuarantinedReporting ==
    /\ pc = "detector" /\ Held
    /\ det' = [det EXCEPT ![hdr.reader] = SeqReported]
    /\ Conclude("quarantined", <<"frame">>)
    /\ UNCHANGED <<store, win, audit, req, kv, role, reply, history, counts>>

DenyQuarantined ==
    /\ pc = "detector" /\ Held
    /\ Conclude("quarantined", <<"frame">>)
    /\ UNCHANGED <<store, process, audit, req, kv, role, reply, history, counts>>

\* Mutant: the rollback is not published.
DenyRollbackSilently ==
    /\ pc = "detector" /\ ~ Held /\ Rollback
    /\ det' = [det EXCEPT ![hdr.reader] = SeqReported]
    /\ Conclude("quarantined", <<"frame">>)
    /\ UNCHANGED <<store, win, audit, req, kv, role, reply, history, counts>>

DenyRollback ==
    /\ pc = "detector" /\ ~ Held /\ Rollback
    /\ det' = [det EXCEPT ![hdr.reader] = SeqReported]
    /\ Conclude("quarantined", <<"frame", "anomaly">>)
    /\ UNCHANGED <<store, win, audit, req, kv, role, reply, history, counts>>

DenyNonce ==
    /\ pc = "detector" /\ ~ Held /\ ~ Rollback /\ NonceMismatch
    /\ det' = [det EXCEPT ![hdr.reader] = reportNonceMismatch(SeqReported)]
    /\ Conclude("quarantined", <<"frame", "anomaly">>)
    /\ UNCHANGED <<store, win, audit, req, kv, role, reply, history, counts>>

\* The reports for a frame the handler refused.
Reported(why) ==
    IF ~ DetectorEnabled THEN det[hdr.reader]
    ELSE IF why = "replay" THEN reportReplay(SeqReported)
    ELSE IF why = "decrypt_failed" THEN reportTagFailure(SeqReported)
    ELSE SeqReported

DenyFrame ==
    /\ pc = "detector" /\ ~ Held /\ ~ Rollback /\ ~ NonceMismatch /\ reason # "ok"
    /\ det' = [det EXCEPT ![hdr.reader] = Reported(reason)]
    /\ Conclude(reason, <<"frame", "decision">> \o
                        IF isQuarantined(det'[hdr.reader]) THEN <<"anomaly">> ELSE << >>)
    /\ UNCHANGED <<store, win, audit, req, kv, role, reply, history, counts>>

\* The frame is good: the streak ends, and its payload is parsed.
PassFrame ==
    /\ pc = "detector" /\ ~ Held /\ ~ Rollback /\ ~ NonceMismatch /\ reason = "ok"
    /\ det' = IF DetectorEnabled
              THEN [det EXCEPT ![hdr.reader] = reportSuccess(SeqReported, hdr.seq)] ELSE det
    /\ events' = events \o <<"frame", "decision">>
    /\ IF req.card = NoCard THEN pc' = "audit" /\ reason' = "bad_payload"
                            ELSE pc' = "policy" /\ UNCHANGED reason
    /\ UNCHANGED <<store, win, audit, req, kv, role, reply, history, counts>>
-----------------------------------------------------------------------------
(* checkAccessPolicy                                                       *)

\* The action is checked, then the reader's key version is read again.
checkAccessPolicy ==
    /\ pc = "policy"
    /\ IF req.action # "open"
       THEN Conclude("bad_action", << >>) /\ UNCHANGED kv
       ELSE /\ kv' = currentKeyVersionForReader(store, req.reader)
            /\ IF kv' = 0 THEN Conclude("unknown_reader", << >>)
                          ELSE pc' = "card" /\ UNCHANGED <<reason, events>>
    /\ UNCHANGED <<store, process, audit, req, role, reply, history, counts>>

RoleFound(h) == role' = roleForCardHmac(store, h)

\* resolveCardHmac: the card's HMAC under the current pepper ...
resolveCardHmac ==
    /\ pc = "card"
    /\ RoleFound(<<req.card, IF StaticPepper THEN 1 ELSE kv>>)
    /\ IF role' # NoRole THEN pc' = "door" /\ UNCHANGED <<reason, events>>
       ELSE IF ~ StaticPepper /\ AllowPrev /\ kv > 1
       THEN pc' = "card_prev" /\ UNCHANGED <<reason, events>>
       ELSE Conclude("unknown_card", << >>)
    /\ UNCHANGED <<store, process, audit, req, kv, reply, history, counts>>

\* Mutant: the search for a known pepper starts over instead of giving up.
ResolveAgain ==
    /\ pc = "card_prev"
    /\ RoleFound(<<req.card, kv - 1>>)
    /\ pc' = IF role' # NoRole THEN "door" ELSE "card"
    /\ UNCHANGED <<reason, events>>
    /\ UNCHANGED <<store, process, audit, req, kv, reply, history, counts>>

\* ... and under the one before it.
resolvePreviousHmac ==
    /\ pc = "card_prev"
    /\ RoleFound(<<req.card, kv - 1>>)
    /\ IF role' # NoRole THEN pc' = "door" /\ UNCHANGED <<reason, events>>
                         ELSE Conclude("unknown_card", << >>)
    /\ UNCHANGED <<store, process, audit, req, kv, reply, history, counts>>

\* Mutant: any enrolled card opens any door.
CheckRoleSkipped ==
    /\ pc = "door"
    /\ Conclude("ok", << >>)
    /\ UNCHANGED <<store, process, audit, req, kv, role, reply, history, counts>>

checkRoleAccess ==
    /\ pc = "door"
    /\ Conclude(IF isAllowed(store, req.door, role) THEN "ok" ELSE "forbidden", << >>)
    /\ UNCHANGED <<store, process, audit, req, kv, role, reply, history, counts>>
-----------------------------------------------------------------------------
(* The audit row, the answer, and what can cut them short                  *)

\* logAuditEvent: one row, then its event; on the quarantine paths the
\* decision event follows the row instead of preceding it.
logAuditEvent ==
    /\ pc = "audit"
    /\ audit' = Append(audit, [reader |-> hdr.reader, seq |-> hdr.seq,
                               allow |-> reason = "ok", reason |-> reason])
    /\ events' = events \o IF reason = "quarantined" THEN <<"audit", "decision">>
                                                     ELSE <<"audit">>
    /\ pc' = "answer"
    /\ UNCHANGED <<store, process, req, kv, reason, role, reply, history, counts>>

\* Mutant: the answer leaves before the row is written.
AnswerUnaudited ==
    /\ pc \in {"audit", "answer"}
    /\ reply' = [frame |-> req, allow |-> reason = "ok", reason |-> reason]
    /\ granted' = IF reason = "ok" THEN granted \cup {<<req.reader, req.seq>>} ELSE granted
    /\ pc' = "idle"
    /\ UNCHANGED <<store, process, audit, req, kv, reason, role, events, views, reordered, opened, counts>>

\* The DecisionResult goes back to the caller and the lock is released.
Answer ==
    /\ pc = "answer"
    /\ reply' = [frame |-> req, allow |-> reason = "ok", reason |-> reason]
    /\ granted' = IF reason = "ok" THEN granted \cup {<<req.reader, req.seq>>} ELSE granted
    /\ pc' = "idle"
    /\ UNCHANGED <<store, process, audit, req, kv, reason, role, events, views, reordered, opened, counts>>

\* A statement throws: the endpoint answers 500, a failed append is rolled
\* back, and what the handler did to the windows and the detector stays.
Throw ==
    /\ pc \in {"reader", "admit", "policy", "card", "card_prev", "door", "audit"}
    /\ reply' = [frame |-> req, allow |-> FALSE, reason |-> "internal_error"]
    /\ pc' = "idle"
    /\ UNCHANGED <<store, process, audit, req, kv, reason, role, events, history, counts>>

\* The process ends and is started again on the same database.
Restart ==
    /\ restarts < MaxRestarts
    /\ win' = [r \in Readers |-> FreshWindow]
    /\ det' = [r \in Readers |-> FreshReader]
    /\ pc' = "idle" /\ events' = << >> /\ reply' = NoReply /\ opened' = {}
    /\ restarts' = restarts + 1
    /\ UNCHANGED <<store, audit, req, kv, reason, role, views, granted, reordered, frames, changes>>
-----------------------------------------------------------------------------
(* The admin services: one statement each, under m.                        *)

\* A service changes the store to s.
Change(s) ==
    /\ Exclusive => pc = "idle"
    /\ changes < MaxChanges
    /\ store' = s
    /\ views' = IF pc = "idle" THEN views ELSE views \cup {s}
    /\ changes' = changes + 1
    /\ UNCHANGED <<process, audit, request, reply, granted, reordered, opened, frames, restarts>>

UpsertReader(r, v) == Change(upsertReader(store, r, v))
DeleteReader(r)    == Change(deleteReader(store, r))
BindDoor(r, d)     == Change(allowDoorForReader(store, r, d))
UnbindDoor(r, d)   == Change(revokeDoorForReader(store, r, d))
AllowRole(d, x)    == Change(allowRole(store, d, x))
RevokeRole(d, x)   == Change(revokeRole(store, d, x))
UpsertCard(h, x)   == Change(upsertCardHmac(store, h, x))
DeleteCard(h)      == Change(deleteCardHmac(store, h))

\* unquarantineReader refuses a reader that is not quarantined.
UnquarantineReader(r) ==
    /\ DetectorEnabled
    /\ Exclusive => pc = "idle"
    /\ changes < MaxChanges
    /\ isQuarantined(det[r])
    /\ det' = [det EXCEPT ![r] = unquarantine(@)]
    /\ changes' = changes + 1
    /\ UNCHANGED <<store, win, audit, request, reply, history, frames, restarts>>
-----------------------------------------------------------------------------
Handle ==
    \/ validateReader
    \/ \E age \in Ages : tryDecrypt(age)
    \/ DenyQuarantined \/ DenyRollback \/ DenyNonce \/ DenyFrame \/ PassFrame
    \/ checkAccessPolicy \/ resolveCardHmac \/ resolvePreviousHmac \/ checkRoleAccess
    \/ logAuditEvent \/ Answer

Admin ==
    \/ \E r \in Readers, v \in 0..MaxKv : UpsertReader(r, v)
    \/ \E r \in Readers : DeleteReader(r) \/ UnquarantineReader(r)
    \/ \E r \in Readers, d \in Doors : BindDoor(r, d) \/ UnbindDoor(r, d)
    \/ \E d \in Doors, x \in Roles : AllowRole(d, x) \/ RevokeRole(d, x)
    \/ \E h \in CardHmacs : DeleteCard(h) \/ \E x \in Roles : UpsertCard(h, x)

\* Between requests the server waits.
Idle == pc = "idle" /\ UNCHANGED vars

Next ==
    \/ Idle
    \/ \E f \in Frames : Receive(f)
    \/ Handle
    \/ Throw
    \/ Restart
    \/ Admin

Spec == Init /\ [][Next]_vars

\* A handler that holds its lock waits for nothing: its thread runs on.
FairSpec == Spec /\ WF_vars(Handle)
-----------------------------------------------------------------------------
(* Properties                                                              *)

Reasons == {"ok", "parse_error", "unknown_reader", "reader_door_forbidden",
            "bad_key_version", "replay", "decrypt_failed", "too_old", "too_future",
            "quarantined", "bad_payload", "bad_action", "unknown_card", "forbidden",
            "internal_error"}

EventKinds == {"frame", "decision", "anomaly", "audit"}

WindowType == [maxSeen : Nat, seen : SUBSET Nat, order : Seq(Nat)]

\* Every variable has its type; the windows and detector states are those of
\* replayByReader and _readers, the store obeys its schema.
TypeOK ==
    /\ store \in StoreType
    /\ win \in [Readers -> WindowType]
    /\ det \in [Readers -> ReaderState]
    /\ audit \in Seq([reader : Readers, seq : Nat, allow : BOOLEAN, reason : Reasons])
    /\ pc \in {"idle", "reader", "admit", "detector", "policy", "card", "card_prev",
               "door", "audit", "answer"}
    /\ req \in Frames
    /\ kv \in 0..MaxKv
    /\ reason \in Reasons
    /\ role \in Roles \cup {NoRole}
    /\ events \in Seq(EventKinds)
    /\ reply \in {NoReply} \cup [frame : Frames, allow : BOOLEAN, reason : Reasons]
    /\ views \subseteq StoreType
    /\ {granted, opened} \subseteq SUBSET (Readers \X Nat) /\ reordered \subseteq Readers
    /\ frames \in Nat /\ changes \in Nat /\ restarts \in Nat

\* The last answer, while no later frame is in flight.
Granted == pc = "idle" /\ reply # NoReply /\ reply.allow

\* The role resolveCardHmac finds in s for f's card at reader version v.
RoleIn(s, f, v) ==
    LET now == s.cards[<<f.card, IF StaticPepper THEN 1 ELSE v>>]
    IN  IF now # NoRole \/ StaticPepper \/ ~ AllowPrev \/ v <= 1 THEN now
        ELSE s.cards[<<f.card, v - 1>>]

\* Store s, taken at one instant, permits frame f.
Permits(s, f) ==
    LET v == s.keyVersion[f.reader]
    IN  /\ v # 0 /\ KeyVersionOk(f.kv, v)
        /\ EnforceBinding => <<f.reader, f.door>> \in s.readerDoors
        /\ <<f.door, RoleIn(s, f, v)>> \in s.doorRoles

\* Every single fact a grant rests on is true in some of the stores S.
FactsHeld(S, f) ==
    /\ \E s \in S : s.keyVersion[f.reader] # 0 /\ KeyVersionOk(f.kv, s.keyVersion[f.reader])
    /\ EnforceBinding => \E s \in S : <<f.reader, f.door>> \in s.readerDoors
    /\ \E x \in Roles :
          /\ \E s, t \in S : LET v == s.keyVersion[f.reader]
                             IN  \E u \in {1, v, v - 1} \cap (1..MaxKv) :
                                     t.cards[<<f.card, u>>] = x
          /\ \E s \in S : <<f.door, x>> \in s.doorRoles

\* A frame during which no administrator changed anything is granted only if the
\* whole policy permits it: the reader known at a version the frame may have, bound
\* to the door, and the role of the card, under the current pepper or else the one
\* before it, allowed there (handle, checkAccessPolicy).  With changes in between,
\* every single fact was true at some instant while the frame was handled, so a
\* change that was completed before the frame arrived is honoured.
GrantJustified ==
    Granted =>
        /\ FactsHeld(views, reply.frame)
        /\ \A s \in views : views = {s} => Permits(s, reply.frame)

\* A granted frame has its ALLOW row in the audit log, across exceptions and
\* restarts: no door opens without a trace (logAuditEvent before the return).
GrantsAudited ==
    \A g \in granted : \E i \in 1..Len(audit) :
        audit[i].allow /\ <<audit[i].reader, audit[i].seq>> = g

\* The anti-replay guarantee end to end: as long as the process runs and the
\* frames of a reader are admitted in order, a frame that is about to be allowed has
\* a number that was not allowed before, whether the copy comes at once or after
\* the number was evicted from the window, and whatever failed in between.
GrantedOnce ==
    /\ AntiReplay /\ restarts = 0
    /\ pc = "answer" /\ reason = "ok" /\ req.reader \notin reordered
    => <<req.reader, req.seq>> \notin granted

\* No frame of a quarantined reader gets past the detector: while one is
\* checked against the policy, or is about to be allowed, its reader is not
\* quarantined.
NoGrantInQuarantine ==
    (\/ pc \in {"policy", "card", "card_prev", "door"}
     \/ pc \in {"audit", "answer"} /\ reason = "ok")
        => ~ (DetectorEnabled /\ isQuarantined(det[hdr.reader]))

\* A quarantine keeps its first cause and its counters: until an admin lifts it
\* (or the process ends) nothing the reader sends changes its detector state.
QuarantineFreezes ==
    [][ \A r \in Readers :
          isQuarantined(det[r]) => \/ det'[r] = det[r]
                                   \/ UnquarantineReader(r)
                                   \/ Restart ]_vars

\* The streak counter reaches the limit only in quarantine; an unquarantined
\* reader always starts over (reportTagFailure, unquarantine).
StreakQuarantines ==
    TagFailStreakLimit > 0 =>
        \A r \in Readers : det[r].consecutiveTagFails >= TagFailStreakLimit
                             => isQuarantined(det[r])

\* Every quarantine is announced on the event bus by the step that imposes it.
QuarantineAnnounced ==
    [][ \A r \in Readers :
          ~ isQuarantined(det[r]) /\ isQuarantined(det'[r])
             => \E i \in 1..Len(events') : events'[i] = "anomaly" ]_vars

\* A frame is refused as a replay only if a frame of that reader and number was
\* opened before in this process, or one at least a whole window ahead.  A copy that
\* arrived earlier and was damaged, too old or refused for its door does not lock
\* the honest frame out (every early return of handle() precedes remember).
ReplayHasCause ==
    pc = "detector" /\ reason = "replay" =>
        \E g \in opened : g[1] = req.reader /\ (g[2] = req.seq \/ g[2] >= req.seq + Window)

\* Bindings never outlive their reader: a reader id that is deleted and
\* provisioned again starts without doors (schema of reader_doors).
BindingsHaveReaders == ForeignKeys(store)

\* Every frame that was taken is answered, or the process ends: no path of the
\* handler loops or stops half-way.
EveryFrameEnds == (pc # "idle") ~> (pc = "idle")
=============================================================================
