------------------------ MODULE DecisionEngineProofs ------------------------
(***************************************************************************)
(* Theorems about DecisionEngine, for every set of readers, doors, cards,  *)
(* roles and frames, every initial database, every configuration of the    *)
(* handler and the detector, and every bound.                              *)
(***************************************************************************)
EXTENDS DecisionEngine, SequenceTheorems, TLAPS

\* What is known of the frame in flight at each stage of the handler: only a
\* frame that parsed gets past the parser, only one with a payload reaches the
\* policy, and a card is looked up under a version that exists.
StageOK ==
    /\ pc \in {"reader", "admit", "policy", "card", "card_prev", "door"} => req.parses
    /\ pc \in {"detector", "audit", "answer"} /\ reason = "ok" => req.parses
    /\ pc \in {"policy", "card", "card_prev"} => req.card # NoCard
    /\ pc = "card" => kv # 0
    /\ pc = "card_prev" => kv > 1
-----------------------------------------------------------------------------
(* What the operators of the components return.                            *)

\* A fresh window is a window.
LEMMA FreshWindowType == FreshWindow \in WindowType
  BY DEF FreshWindow, WindowType

\* remember() returns a window: eviction runs on a deque that is not empty.
LEMMA RememberType ==
    ASSUME NEW w \in WindowType, NEW s \in Nat
    PROVE  remember(w, s) \in WindowType
<1> DEFINE m == IF s > w.maxSeen THEN s ELSE w.maxSeen
           v == [maxSeen |-> m, seen |-> w.seen \cup {s}, order |-> Append(w.order, s)]
<1>1. /\ w.maxSeen \in Nat /\ w.seen \in SUBSET Nat /\ w.order \in Seq(Nat)
  BY DEF WindowType
<1>2. m \in Nat /\ w.seen \cup {s} \in SUBSET Nat /\ Append(w.order, s) \in Seq(Nat)
  BY <1>1
<1>3. v \in WindowType
  BY <1>2 DEF WindowType
<1>4. Tail(Append(w.order, s)) \in Seq(Nat)
  <2> DEFINE q == Append(w.order, s)
  <2>1. q \in Seq(Nat) /\ Len(q) = Len(w.order) + 1 /\ Len(w.order) \in Nat
    BY <1>1, <1>2
  <2> HIDE DEF q
  <2>2. Len(q) # 0
    BY <2>1
  <2>3. q # << >>
    BY <2>2
  <2>4. Tail(q) \in Seq(Nat)
    BY <2>1, <2>3
  <2> QED BY <2>4 DEF q
<1>5. [v EXCEPT !.seen = @ \ {Head(v.order)}, !.order = Tail(@)] \in WindowType
  BY <1>2, <1>4 DEF WindowType
<1>6. evictOldestIfFull(v) \in WindowType
  BY <1>3, <1>5 DEF evictOldestIfFull
<1> QED
  BY <1>6 DEF remember

\* The detector's operations return a reader state.
LEMMA DetectorType ==
    ASSUME NEW d \in ReaderState, NEW s \in Nat
    PROVE  /\ FreshReader \in ReaderState
           /\ reportSeq(d, s) \in ReaderState
           /\ reportReplay(d) \in ReaderState
           /\ reportNonceMismatch(d) \in ReaderState
           /\ reportTagFailure(d) \in ReaderState
           /\ reportSuccess(d, s) \in ReaderState
           /\ unquarantine(d) \in ReaderState
<1> USE DEF ReaderState, AnomalyType, NotQuarantined, doQuarantine
<1>1. FreshReader \in ReaderState
  BY DEF FreshReader
<1>2. /\ reportReplay(d) \in ReaderState /\ reportNonceMismatch(d) \in ReaderState
      /\ doQuarantine(d, "seq_rollback") \in ReaderState
  BY DEF reportReplay, reportNonceMismatch
<1>3. RaiseMaxSeen(d, s) \in ReaderState
  BY DEF RaiseMaxSeen
<1>4. reportSeq(d, s) \in ReaderState
  BY <1>2, <1>3 DEF reportSeq
<1>5. reportTagFailure(d) \in ReaderState
  <2> DEFINE n == [d EXCEPT !.consecutiveTagFails = @ + 1]
  <2>1. n \in ReaderState
    OBVIOUS
  <2> HIDE DEF n
  <2>2. doQuarantine(n, "tag_fail_streak") \in ReaderState
    BY <2>1
  <2> QED
    BY <2>1, <2>2 DEF reportTagFailure, n
<1>6. reportSuccess(d, s) \in ReaderState
  BY DEF reportSuccess, RaiseMaxSeen
<1>7. unquarantine(d) \in ReaderState
  BY DEF unquarantine
<1> QED
  BY <1>1, <1>2, <1>4, <1>5, <1>6, <1>7

\* The header names a reader and a natural number, also when nothing parsed.
LEMMA HeaderType ==
    ASSUME NEW f \in Frames
    PROVE  /\ Header(f).reader \in Readers /\ Header(f).seq \in Nat
           /\ f.parses => Header(f).reader = f.reader /\ Header(f).seq = f.seq
  BY EngineAssumption DEF Header, FrameType

\* The components of a frame.
LEMMA FrameFields ==
    ASSUME NEW f \in Frames
    PROVE  /\ f.reader \in Readers /\ f.door \in Doors /\ f.seq \in Nat
           /\ f.card \in Cards \cup {NoCard}
           /\ f.parses \in BOOLEAN
  BY EngineAssumption DEF FrameType

\* What the handler pushes to the event bus.
LEMMA KindTuples ==
    /\ << >> \in Seq(EventKinds) /\ <<"anomaly">> \in Seq(EventKinds)
    /\ <<"frame">> \in Seq(EventKinds) /\ <<"audit">> \in Seq(EventKinds)
    /\ <<"frame", "decision">> \in Seq(EventKinds)
    /\ <<"frame", "anomaly">> \in Seq(EventKinds)
    /\ <<"audit", "decision">> \in Seq(EventKinds)
  BY DEF EventKinds

\* Every write of an administrator keeps the store in its schema: provisioning
\* a reader ...
LEMMA ReaderWrites ==
    ASSUME NEW s \in StoreType, ForeignKeys(s), NEW r \in Readers, NEW v \in 0..MaxKv
    PROVE  upsertReader(s, r, v) \in StoreType /\ ForeignKeys(upsertReader(s, r, v))
  BY StoreAssumption DEF StoreType, ForeignKeys, upsertReader

\* ... deleting one, with its bindings ...
LEMMA ReaderDeletes ==
    ASSUME NEW s \in StoreType, ForeignKeys(s), NEW r \in Readers
    PROVE  deleteReader(s, r) \in StoreType /\ ForeignKeys(deleteReader(s, r))
<1>1. {b \in s.readerDoors : b[1] # r} \in SUBSET (Readers \X Doors)
  BY DEF StoreType
<1>2. [s.keyVersion EXCEPT ![r] = 0] \in [Readers -> 0..MaxKv]
  BY StoreAssumption DEF StoreType
<1>3. deleteReader(s, r) \in StoreType
  BY <1>1, <1>2 DEF StoreType, deleteReader
<1>4. ForeignKeys(deleteReader(s, r))
  BY DEF StoreType, ForeignKeys, deleteReader
<1> QED
  BY <1>3, <1>4

\* ... binding it to a door and unbinding it ...
LEMMA DoorWrites ==
    ASSUME NEW s \in StoreType, ForeignKeys(s), NEW r \in Readers, NEW d \in Doors
    PROVE  /\ allowDoorForReader(s, r, d) \in StoreType
           /\ ForeignKeys(allowDoorForReader(s, r, d))
           /\ revokeDoorForReader(s, r, d) \in StoreType
           /\ ForeignKeys(revokeDoorForReader(s, r, d))
<1>1. /\ allowDoorForReader(s, r, d) \in StoreType
      /\ ForeignKeys(allowDoorForReader(s, r, d))
  BY DEF StoreType, ForeignKeys, allowDoorForReader
<1>2. /\ revokeDoorForReader(s, r, d) \in StoreType
      /\ ForeignKeys(revokeDoorForReader(s, r, d))
  BY DEF StoreType, ForeignKeys, revokeDoorForReader
<1> QED
  BY <1>1, <1>2

\* ... the roles of a door ...
LEMMA RoleWrites ==
    ASSUME NEW s \in StoreType, ForeignKeys(s), NEW d \in Doors, NEW x \in Roles
    PROVE  /\ allowRole(s, d, x) \in StoreType /\ ForeignKeys(allowRole(s, d, x))
           /\ revokeRole(s, d, x) \in StoreType /\ ForeignKeys(revokeRole(s, d, x))
  BY DEF StoreType, ForeignKeys, allowRole, revokeRole

\* ... and the cards.
LEMMA CardWrites ==
    ASSUME NEW s \in StoreType, ForeignKeys(s), NEW h \in CardHmacs
    PROVE  /\ deleteCardHmac(s, h) \in StoreType /\ ForeignKeys(deleteCardHmac(s, h))
           /\ \A x \in Roles : /\ upsertCardHmac(s, h, x) \in StoreType
                               /\ ForeignKeys(upsertCardHmac(s, h, x))
  BY DEF StoreType, ForeignKeys, upsertCardHmac, deleteCardHmac

\* A card lookup answers with a role or with "no row".
LEMMA RoleType ==
    ASSUME NEW s \in StoreType, NEW h \in CardHmacs
    PROVE  roleForCardHmac(s, h) \in Roles \cup {NoRole}
  BY DEF StoreType, roleForCardHmac
-----------------------------------------------------------------------------
(* Type correctness.                                                       *)

\* The initial states are typed, and no frame is in flight.
LEMMA TypeInit == Init => TypeOK /\ StageOK /\ ForeignKeys(store)
<1> SUFFICES ASSUME Init PROVE TypeOK /\ StageOK /\ ForeignKeys(store)
  OBVIOUS
<1> USE DEF Init
<1>1. store \in StoreType /\ ForeignKeys(store)
  BY EngineAssumption
<1>2. win \in [Readers -> WindowType] /\ det \in [Readers -> ReaderState]
  <2>1. FreshReader \in ReaderState
    BY DEF FreshReader, ReaderState, NotQuarantined
  <2> QED BY <2>1, FreshWindowType
<1>3. req \in Frames
  BY EngineAssumption
<1>4. kv \in 0..MaxKv
  BY StoreAssumption
<1>5. audit \in Seq([reader : Readers, seq : Nat, allow : BOOLEAN, reason : Reasons])
      /\ events \in Seq(EventKinds)
  OBVIOUS
<1>6. TypeOK
  BY <1>1, <1>2, <1>3, <1>4, <1>5 DEF TypeOK, Reasons
<1> QED
  BY <1>1, <1>6 DEF StageOK

\* A step of the handler, a fault or an administrator keeps every type, and the
\* schema of the store with it.
LEMMA TypeStep == TypeOK /\ StageOK /\ ForeignKeys(store) /\ [Next]_vars
                    => TypeOK' /\ StageOK' /\ ForeignKeys(store)'
<1> SUFFICES ASSUME TypeOK, StageOK, ForeignKeys(store), [Next]_vars
             PROVE  TypeOK' /\ StageOK' /\ ForeignKeys(store)'
  OBVIOUS
<1> USE DEF process, request, history, counts
<1>h. hdr.reader \in Readers /\ hdr.seq \in Nat
  BY HeaderType DEF TypeOK, hdr
<1>d. det[hdr.reader] \in ReaderState
  BY <1>h DEF TypeOK
<1>s. SeqReported \in ReaderState
  BY <1>h, <1>d, DetectorType DEF SeqReported
<1>1. CASE UNCHANGED vars
  BY <1>1 DEF TypeOK, StageOK, vars, ForeignKeys
<1>2. ASSUME NEW f \in Frames, Receive(f) PROVE TypeOK' /\ StageOK' /\ ForeignKeys(store)'
  BY <1>2, StoreAssumption DEF Receive, TypeOK, StageOK, ForeignKeys, Reasons
<1>3. CASE validateReader
  <2>1. kv' \in 0..MaxKv
    BY <1>3, FrameFields DEF validateReader, currentKeyVersionForReader, TypeOK, StoreType
  <2> QED BY <1>3, <2>1 DEF validateReader, TypeOK, StageOK, ForeignKeys, Reasons
<1>4. ASSUME NEW age \in Ages, tryDecrypt(age)
      PROVE  TypeOK' /\ StageOK' /\ ForeignKeys(store)'
  <2>1. reason' \in Reasons
    BY <1>4 DEF tryDecrypt, FrameVerdict, Ages, Reasons
  <2>2. win' \in [Readers -> WindowType]
    BY <1>4, FrameFields, RememberType DEF tryDecrypt, TypeOK
  <2>3. reordered' \subseteq Readers /\ opened' \subseteq Readers \X Nat
    BY <1>4, FrameFields DEF tryDecrypt, TypeOK
  <2> QED BY <1>4, <2>1, <2>2, <2>3 DEF tryDecrypt, TypeOK, StageOK, ForeignKeys
<1>5. CASE DenyQuarantined
  BY <1>5, KindTuples DEF DenyQuarantined, Conclude, TypeOK, StageOK, ForeignKeys, Reasons
<1>6. CASE DenyRollback
  <2>1. det' \in [Readers -> ReaderState]
    BY <1>6, <1>s DEF DenyRollback, TypeOK
  <2> QED BY <1>6, <2>1, KindTuples DEF DenyRollback, Conclude, TypeOK, StageOK, ForeignKeys, Reasons
<1>7. CASE DenyNonce
  <2>1. det' \in [Readers -> ReaderState]
    BY <1>7, <1>h, <1>s, DetectorType DEF DenyNonce, TypeOK
  <2> QED BY <1>7, <2>1, KindTuples DEF DenyNonce, Conclude, TypeOK, StageOK, ForeignKeys, Reasons
<1>8. CASE DenyFrame
  <2>1. Reported(reason) \in ReaderState
    BY <1>d, <1>s, DetectorType DEF Reported
  <2>2. det' \in [Readers -> ReaderState]
    BY <1>8, <2>1 DEF DenyFrame, TypeOK
  <2>3. events' \in Seq(EventKinds)
    <3> DEFINE more == IF isQuarantined(det'[hdr.reader]) THEN <<"anomaly">> ELSE << >>
    <3>1. more \in Seq(EventKinds) /\ events \in Seq(EventKinds)
      BY KindTuples DEF TypeOK
    <3>2. events' = events \o (<<"frame", "decision">> \o more)
      BY <1>8 DEF DenyFrame, Conclude
    <3> HIDE DEF more
    <3> QED BY <3>1, <3>2, KindTuples
  <2> QED BY <1>8, <2>2, <2>3 DEF DenyFrame, Conclude, TypeOK, StageOK, ForeignKeys
<1>9. CASE PassFrame
  <2>1. det' \in [Readers -> ReaderState]
    BY <1>9, <1>h, <1>s, DetectorType DEF PassFrame, TypeOK
  <2> QED BY <1>9, <2>1, KindTuples DEF PassFrame, TypeOK, StageOK, ForeignKeys, Reasons
<1>10. CASE checkAccessPolicy
  <2>1. kv' \in 0..MaxKv
    BY <1>10, FrameFields DEF checkAccessPolicy, currentKeyVersionForReader, TypeOK, StoreType
  <2> QED BY <1>10, <2>1 DEF checkAccessPolicy, Conclude, TypeOK, StageOK, ForeignKeys, Reasons
<1>11. CASE resolveCardHmac
  <2>1. role' \in Roles \cup {NoRole}
    <3>1. <<req.card, IF StaticPepper THEN 1 ELSE kv>> \in CardHmacs
      BY <1>11, FrameFields, StoreAssumption DEF resolveCardHmac, TypeOK, StageOK, CardHmacs
    <3> QED BY <1>11, <3>1, RoleType DEF resolveCardHmac, RoleFound, TypeOK
  <2> QED BY <1>11, <2>1 DEF resolveCardHmac, Conclude, TypeOK, StageOK, ForeignKeys, Reasons
<1>12. CASE resolvePreviousHmac
  <2>1. role' \in Roles \cup {NoRole}
    <3>1. <<req.card, kv - 1>> \in CardHmacs
      BY <1>12, FrameFields, StoreAssumption DEF resolvePreviousHmac, TypeOK, StageOK, CardHmacs
    <3> QED BY <1>12, <3>1, RoleType DEF resolvePreviousHmac, RoleFound, TypeOK
  <2> QED BY <1>12, <2>1, SMTT(30) DEF resolvePreviousHmac, Conclude, TypeOK, StageOK, ForeignKeys, Reasons
<1>13. CASE checkRoleAccess
  BY <1>13 DEF checkRoleAccess, Conclude, TypeOK, StageOK, ForeignKeys, Reasons
<1>14. CASE logAuditEvent
  <2>1. audit' \in Seq([reader : Readers, seq : Nat, allow : BOOLEAN, reason : Reasons])
    BY <1>14, <1>h DEF logAuditEvent, TypeOK
  <2>2. events' \in Seq(EventKinds)
    <3> DEFINE more == IF reason = "quarantined" THEN <<"audit", "decision">> ELSE <<"audit">>
    <3>1. more \in Seq(EventKinds) /\ events \in Seq(EventKinds)
      BY KindTuples DEF TypeOK
    <3>2. events' = events \o more
      BY <1>14 DEF logAuditEvent
    <3> HIDE DEF more
    <3> QED BY <3>1, <3>2
  <2> QED BY <1>14, <2>1, <2>2 DEF logAuditEvent, TypeOK, StageOK, ForeignKeys
<1>15. CASE Answer
  BY <1>15, FrameFields DEF Answer, TypeOK, StageOK, ForeignKeys
<1>16. CASE Throw
  BY <1>16 DEF Throw, TypeOK, StageOK, ForeignKeys, Reasons
<1>17. CASE Restart
  <2>1. win' \in [Readers -> WindowType] /\ det' \in [Readers -> ReaderState]
    BY <1>17, FreshWindowType, <1>d, DetectorType DEF Restart
  <2> QED BY <1>17, <2>1 DEF Restart, TypeOK, StageOK, ForeignKeys
<1>18. ASSUME NEW s \in StoreType, ForeignKeys(s), Change(s)
       PROVE  TypeOK' /\ StageOK' /\ ForeignKeys(store)'
  BY <1>18 DEF Change, TypeOK, StageOK, ForeignKeys
<1>19. ASSUME NEW r \in Readers, UnquarantineReader(r)
       PROVE  TypeOK' /\ StageOK' /\ ForeignKeys(store)'
  <2>1. det' \in [Readers -> ReaderState]
    BY <1>19, DetectorType DEF UnquarantineReader, TypeOK
  <2> QED BY <1>19, <2>1 DEF UnquarantineReader, TypeOK, StageOK, ForeignKeys
<1>20. CASE Admin
  <2>1. ASSUME NEW r \in Readers, NEW v \in 0..MaxKv, UpsertReader(r, v)
        PROVE  TypeOK' /\ StageOK' /\ ForeignKeys(store)'
    BY <1>18, <2>1, ReaderWrites DEF UpsertReader, TypeOK
  <2>2. ASSUME NEW r \in Readers, DeleteReader(r)
        PROVE  TypeOK' /\ StageOK' /\ ForeignKeys(store)'
    BY <1>18, <2>2, ReaderDeletes DEF DeleteReader, TypeOK
  <2>3. ASSUME NEW r \in Readers, NEW d \in Doors, BindDoor(r, d) \/ UnbindDoor(r, d)
        PROVE  TypeOK' /\ StageOK' /\ ForeignKeys(store)'
    BY <1>18, <2>3, DoorWrites DEF BindDoor, UnbindDoor, TypeOK
  <2>4. ASSUME NEW d \in Doors, NEW x \in Roles, AllowRole(d, x) \/ RevokeRole(d, x)
        PROVE  TypeOK' /\ StageOK' /\ ForeignKeys(store)'
    BY <1>18, <2>4, RoleWrites DEF AllowRole, RevokeRole, TypeOK
  <2>5. ASSUME NEW h \in CardHmacs, DeleteCard(h) \/ \E x \in Roles : UpsertCard(h, x)
        PROVE  TypeOK' /\ StageOK' /\ ForeignKeys(store)'
    BY <1>18, <2>5, CardWrites DEF DeleteCard, UpsertCard, TypeOK
  <2> QED BY <1>19, <1>20, <2>1, <2>2, <2>3, <2>4, <2>5 DEF Admin
<1> QED
  BY <1>1, <1>2, <1>3, <1>4, <1>5, <1>6, <1>7, <1>8, <1>9, <1>10, <1>11, <1>12, <1>13,
     <1>14, <1>15, <1>16, <1>17, <1>20 DEF Next, Handle, Idle

\* Every variable of the decision path keeps its type: no early return of
\* handle() or handleFrameBytes leaves a stage with data that stage cannot
\* have, and no lookup uses a card or a key version that does not exist.
THEOREM TypeCorrect == Spec => []TypeOK
<1>1. Init => TypeOK /\ StageOK /\ ForeignKeys(store)
  BY TypeInit
<1>2. TypeOK /\ StageOK /\ ForeignKeys(store) /\ [Next]_vars
        => TypeOK' /\ StageOK' /\ ForeignKeys(store)'
  BY TypeStep
<1> QED
  BY <1>1, <1>2, PTL DEF Spec

\* Whatever administrators do, and in whatever order, a row of reader_doors has
\* its reader: deleteReader cascades and allowDoorForReader checks the key.
THEOREM BindingsAlwaysHaveReaders == Spec => []BindingsHaveReaders
<1>1. Init => TypeOK /\ StageOK /\ ForeignKeys(store)
  BY TypeInit
<1>2. TypeOK /\ StageOK /\ ForeignKeys(store) /\ [Next]_vars
        => TypeOK' /\ StageOK' /\ ForeignKeys(store)'
  BY TypeStep
<1> QED
  BY <1>1, <1>2, PTL DEF Spec, BindingsHaveReaders

\* The invariant the theorems below start from.
LEMMA TypeInv == Spec => [](TypeOK /\ StageOK)
<1>1. Init => TypeOK /\ StageOK /\ ForeignKeys(store)
  BY TypeInit
<1>2. TypeOK /\ StageOK /\ ForeignKeys(store) /\ [Next]_vars
        => TypeOK' /\ StageOK' /\ ForeignKeys(store)'
  BY TypeStep
<1> QED
  BY <1>1, <1>2, PTL DEF Spec
-----------------------------------------------------------------------------
(* The detector.                                                           *)

\* A step that changes a reader's detector state is one of seven: it reports
\* something about that reader, lifts its quarantine, or restarts the process.
LEMMA DetectorSteps ==
    ASSUME TypeOK, [Next]_vars, NEW r \in Readers, det'[r] # det[r]
    PROVE  \/ Restart
           \/ UnquarantineReader(r)
           \/ r = hdr.reader /\ (DenyRollback \/ DenyNonce \/ DenyFrame \/ PassFrame)
<1> USE DEF process, request, history, counts
<1>1. det \in [Readers -> ReaderState] /\ det' # det
  BY DEF TypeOK
<1>2. ~ UNCHANGED vars
  BY <1>1 DEF vars
<1>3. ~ \E f \in Frames : Receive(f)
  BY <1>1 DEF Receive
<1>4. ~ (validateReader \/ (\E age \in Ages : tryDecrypt(age)) \/ DenyQuarantined)
  BY <1>1 DEF validateReader, tryDecrypt, DenyQuarantined
<1>5. ~ (checkAccessPolicy \/ resolveCardHmac \/ resolvePreviousHmac \/ checkRoleAccess)
  BY <1>1 DEF checkAccessPolicy, resolveCardHmac, resolvePreviousHmac, checkRoleAccess
<1>6. ~ (logAuditEvent \/ Answer \/ Throw)
  BY <1>1 DEF logAuditEvent, Answer, Throw
<1>7. \A s : ~ Change(s)
  BY <1>1 DEF Change
<1>8. CASE Admin
  <2>1. PICK q \in Readers : UnquarantineReader(q)
    BY <1>7, <1>8 DEF Admin, UpsertReader, DeleteReader, BindDoor, UnbindDoor, AllowRole,
                      RevokeRole, UpsertCard, DeleteCard
  <2>2. det' = [det EXCEPT ![q] = unquarantine(@)]
    BY <2>1 DEF UnquarantineReader
  <2>3. q = r
    BY <1>1, <2>2
  <2> QED BY <2>1, <2>3
<1>9. ASSUME DenyRollback \/ DenyNonce \/ DenyFrame \/ PassFrame PROVE r = hdr.reader
  BY <1>1, <1>9 DEF DenyRollback, DenyNonce, DenyFrame, PassFrame
<1> QED
  BY <1>2, <1>3, <1>4, <1>5, <1>6, <1>8, <1>9 DEF Next, Handle, Idle

\* A quarantined reader's state changes only when an administrator lifts the
\* quarantine or the process ends: handleFrameBytes returns on isQuarantined
\* before it reports anything, so the first cause is the one that is kept.
THEOREM QuarantineIsFrozen == Spec => QuarantineFreezes
<1>1. TypeOK /\ [Next]_vars
        => [ \A r \in Readers : isQuarantined(det[r]) => \/ det'[r] = det[r]
                                                         \/ UnquarantineReader(r)
                                                         \/ Restart ]_vars
  <2> SUFFICES ASSUME TypeOK, [Next]_vars, NEW r \in Readers, isQuarantined(det[r]),
                      det'[r] # det[r]
               PROVE  UnquarantineReader(r) \/ Restart
    OBVIOUS
  <2>1. CASE r = hdr.reader /\ DenyRollback
    BY <2>1 DEF DenyRollback, Held, Rollback
  <2>2. CASE r = hdr.reader /\ DenyNonce
    BY <2>2 DEF DenyNonce, Held, NonceMismatch
  <2>3. CASE r = hdr.reader /\ DenyFrame
    <3>1. ~ DetectorEnabled
      BY <2>3 DEF DenyFrame, Held
    <3>2. det'[r] = det[r]
      BY <2>3, <3>1 DEF DenyFrame, Reported, TypeOK
    <3> QED BY <3>2
  <2>4. CASE r = hdr.reader /\ PassFrame
    BY <2>4 DEF PassFrame, Held
  <2> QED BY DetectorSteps, <2>1, <2>2, <2>3, <2>4
<1> QED
  BY <1>1, TypeInv, PTL DEF Spec, QuarantineFreezes

\* A number that is no rollback raises the maximum and changes nothing else.
LEMMA SeqReportedKeeps ==
    ASSUME TypeOK, ~ Rollback
    PROVE  /\ SeqReported \in ReaderState
           /\ SeqReported.quarantine = det[hdr.reader].quarantine
           /\ SeqReported.consecutiveTagFails = det[hdr.reader].consecutiveTagFails
<1>1. hdr.reader \in Readers /\ hdr.seq \in Nat
  BY HeaderType DEF TypeOK, hdr
<1>2. det[hdr.reader] \in ReaderState
  BY <1>1 DEF TypeOK
<1>3. SeqReported \in {det[hdr.reader], RaiseMaxSeen(det[hdr.reader], hdr.seq)}
  BY DEF SeqReported, Rollback, reportSeq
<1>4. SeqReported \in ReaderState
  BY <1>1, <1>2, DetectorType DEF SeqReported
<1> QED
  BY <1>2, <1>3, <1>4 DEF RaiseMaxSeen, ReaderState

\* The streak counter of one reader is at its limit only in quarantine.
StreakBounded(d) ==
    TagFailStreakLimit > 0 /\ d.consecutiveTagFails >= TagFailStreakLimit => isQuarantined(d)

\* What each report leaves behind, for a state d of a reader.
LEMMA ReportsBound ==
    ASSUME NEW d \in ReaderState, NEW n \in Nat
    PROVE  /\ StreakBounded(FreshReader)
           /\ isQuarantined(reportReplay(d)) /\ isQuarantined(reportNonceMismatch(d))
           /\ isQuarantined(doQuarantine(d, "seq_rollback"))
           /\ StreakBounded(reportTagFailure(d))
           /\ StreakBounded(reportSuccess(d, n))
           /\ reportSuccess(d, n).quarantine = d.quarantine
           /\ isQuarantined(d) => StreakBounded(unquarantine(d))
<1> USE DetectorAssumption DEF ReaderState, isQuarantined, NotQuarantined, StreakBounded, doQuarantine
<1>1. StreakBounded(FreshReader)
  BY DEF FreshReader
<1>2. /\ isQuarantined(reportReplay(d)) /\ isQuarantined(reportNonceMismatch(d))
      /\ isQuarantined(doQuarantine(d, "seq_rollback"))
  BY DEF reportReplay, reportNonceMismatch
<1>3. StreakBounded(reportTagFailure(d))
  <2> DEFINE m == [d EXCEPT !.consecutiveTagFails = @ + 1]
  <2>1. m \in ReaderState
    OBVIOUS
  <2> HIDE DEF m
  <2>2. isQuarantined(doQuarantine(m, "tag_fail_streak"))
    BY <2>1
  <2>3. m.consecutiveTagFails >= TagFailStreakLimit \/ StreakBounded(m)
    BY <2>1
  <2> QED BY <2>2, <2>3 DEF reportTagFailure, m
<1>4. StreakBounded(reportSuccess(d, n)) /\ reportSuccess(d, n).quarantine = d.quarantine
  BY DEF reportSuccess, RaiseMaxSeen
<1>5. isQuarantined(d) => StreakBounded(unquarantine(d))
  BY DEF unquarantine
<1> QED
  BY <1>1, <1>2, <1>3, <1>4, <1>5

\* For every limit above zero, a reader that reaches it is in quarantine: the
\* count is compared after it was incremented, and only unquarantine and a good
\* frame set it back.
THEOREM StreakAlwaysQuarantines == Spec => []StreakQuarantines
<1> DEFINE P == \A r \in Readers : StreakBounded(det[r])
<1>1. Init => P
  <2>1. FreshReader \in ReaderState
    BY DEF FreshReader, ReaderState, NotQuarantined
  <2> QED BY <2>1, ReportsBound DEF Init
<1>2. TypeOK /\ P /\ [Next]_vars => P'
  <2> SUFFICES ASSUME TypeOK, P, [Next]_vars, NEW r \in Readers PROVE StreakBounded(det'[r])
    BY DEF StreakBounded
  <2>d. det \in [Readers -> ReaderState]
    BY DEF TypeOK
  <2>1. CASE det'[r] = det[r]
    BY <2>1 DEF StreakBounded
  <2>2. CASE Restart
    BY <2>2, <2>d, ReportsBound DEF Restart
  <2>3. CASE UnquarantineReader(r)
    <3>1. isQuarantined(det[r]) /\ det'[r] = unquarantine(det[r])
      BY <2>3, <2>d DEF UnquarantineReader
    <3> QED BY <3>1, <2>d, ReportsBound
  <2>4. ASSUME r = hdr.reader, DenyRollback PROVE StreakBounded(det'[r])
    <3>1. det'[r] = doQuarantine(det[r], "seq_rollback")
      BY <2>4, <2>d DEF DenyRollback, Rollback, SeqReported, reportSeq
    <3> QED BY <3>1, <2>d, ReportsBound DEF StreakBounded
  <2>5. ASSUME r = hdr.reader, DenyNonce PROVE StreakBounded(det'[r])
    <3>1. det'[r] = reportNonceMismatch(SeqReported) /\ SeqReported \in ReaderState
      BY <2>5, <2>d, SeqReportedKeeps DEF DenyNonce
    <3> QED BY <3>1, ReportsBound DEF StreakBounded
  <2>6. ASSUME r = hdr.reader, DenyFrame PROVE StreakBounded(det'[r])
    <3>1. det'[r] = Reported(reason) /\ SeqReported \in ReaderState
      BY <2>6, <2>d, SeqReportedKeeps DEF DenyFrame
    <3>2. StreakBounded(SeqReported)
      BY <2>6, SeqReportedKeeps DEF DenyFrame, StreakBounded, isQuarantined
    <3>3. StreakBounded(reportReplay(SeqReported)) /\ StreakBounded(reportTagFailure(SeqReported))
      BY <3>1, ReportsBound DEF StreakBounded
    <3> QED BY <2>6, <3>1, <3>2, <3>3 DEF Reported
  <2>7. ASSUME r = hdr.reader, PassFrame, det'[r] # det[r] PROVE StreakBounded(det'[r])
    <3>1. hdr.seq \in Nat
      BY HeaderType DEF TypeOK, hdr
    <3>2. det'[r] = reportSuccess(SeqReported, hdr.seq) /\ SeqReported \in ReaderState
      BY <2>7, <2>d, SeqReportedKeeps DEF PassFrame
    <3> QED BY <3>1, <3>2, ReportsBound
  <2> QED BY DetectorSteps, <2>1, <2>2, <2>3, <2>4, <2>5, <2>6, <2>7
<1>3. P => StreakQuarantines
  BY DEF StreakBounded, StreakQuarantines
<1> QED
  BY <1>1, <1>2, <1>3, TypeInv, PTL DEF Spec

\* No frame of a quarantined reader is checked against the policy or allowed:
\* isQuarantined comes first in handleFrameBytes, and no later report about a
\* frame that passes imposes a quarantine.
THEOREM NeverGrantedInQuarantine == Spec => []NoGrantInQuarantine
<1> DEFINE Late == \/ pc \in {"policy", "card", "card_prev", "door"}
                   \/ pc \in {"audit", "answer"} /\ reason = "ok"
<1>1. Init => NoGrantInQuarantine
  BY DEF Init, NoGrantInQuarantine
<1>2. TypeOK /\ NoGrantInQuarantine /\ [Next]_vars => NoGrantInQuarantine'
  <2> SUFFICES ASSUME TypeOK, NoGrantInQuarantine, [Next]_vars, Late', DetectorEnabled
               PROVE  ~ isQuarantined(det'[hdr'.reader])
    BY DEF NoGrantInQuarantine
  <2> USE DEF process, request, history, counts
  <2>h. hdr.reader \in Readers /\ hdr.seq \in Nat /\ det \in [Readers -> ReaderState]
    BY HeaderType DEF TypeOK, hdr
  <2>1. CASE PassFrame
    <3>1. hdr' = hdr
      BY <2>1 DEF PassFrame, hdr
    <3>2. det'[hdr.reader] = reportSuccess(SeqReported, hdr.seq)
      BY <2>1, <2>h DEF PassFrame
    <3>3. /\ SeqReported \in ReaderState
          /\ SeqReported.quarantine = det[hdr.reader].quarantine
          /\ ~ isQuarantined(det[hdr.reader])
      BY <2>1, SeqReportedKeeps DEF PassFrame, Held
    <3>4. reportSuccess(SeqReported, hdr.seq).quarantine = SeqReported.quarantine
      BY <2>h, <3>3, ReportsBound
    <3> QED BY <3>1, <3>2, <3>3, <3>4 DEF isQuarantined
  <2>2. CASE DenyQuarantined \/ DenyRollback \/ DenyNonce \/ DenyFrame
    BY <2>2 DEF DenyQuarantined, DenyRollback, DenyNonce, DenyFrame, Conclude
  <2>3. CASE Restart \/ Throw \/ Answer \/ \E f \in Frames : Receive(f)
    BY <2>3 DEF Restart, Throw, Answer, Receive
  <2>4. CASE validateReader \/ \E age \in Ages : tryDecrypt(age)
    BY <2>4 DEF validateReader, tryDecrypt
  <2>5. CASE checkAccessPolicy \/ resolveCardHmac \/ resolvePreviousHmac \/ checkRoleAccess
    <3>1. Late /\ hdr' = hdr /\ det' = det
      BY <2>5 DEF checkAccessPolicy, resolveCardHmac, resolvePreviousHmac, checkRoleAccess, hdr
    <3> QED BY <3>1 DEF NoGrantInQuarantine
  <2>6. CASE logAuditEvent
    <3>1. Late /\ hdr' = hdr /\ det' = det
      BY <2>6 DEF logAuditEvent, hdr
    <3> QED BY <3>1 DEF NoGrantInQuarantine
  <2>7. ASSUME NEW s, Change(s) PROVE ~ isQuarantined(det'[hdr'.reader])
    <3>1. Late /\ hdr' = hdr /\ det' = det
      BY <2>7 DEF Change, hdr
    <3> QED BY <3>1 DEF NoGrantInQuarantine
  <2>8. ASSUME NEW r \in Readers, UnquarantineReader(r) PROVE ~ isQuarantined(det'[hdr'.reader])
    <3>1. Late /\ hdr' = hdr /\ ~ isQuarantined(det[hdr.reader])
      BY <2>8 DEF UnquarantineReader, hdr, NoGrantInQuarantine
    <3>2. det'[hdr.reader] = det[hdr.reader]
      BY <2>8, <2>h, <3>1 DEF UnquarantineReader
    <3> QED BY <3>1, <3>2
  <2>9. CASE UNCHANGED vars
    <3>1. Late /\ hdr' = hdr /\ det' = det
      BY <2>9 DEF vars, hdr
    <3> QED BY <3>1 DEF NoGrantInQuarantine
  <2>10. CASE Admin
    BY <2>7, <2>8, <2>10 DEF Admin, UpsertReader, DeleteReader, BindDoor, UnbindDoor,
                             AllowRole, RevokeRole, UpsertCard, DeleteCard
  <2> QED
    BY <2>1, <2>2, <2>3, <2>4, <2>5, <2>6, <2>9, <2>10 DEF Next, Handle, Idle
<1> QED
  BY <1>1, <1>2, TypeInv, PTL DEF Spec
-----------------------------------------------------------------------------
(* The replay window and the audit log.                                    *)

\* Every number the window w of reader r knows is that of a frame that was opened.
Known(w, r, S) ==
    /\ \A n \in w.seen : <<r, n>> \in S
    /\ w.maxSeen = 0 \/ <<r, w.maxSeen>> \in S

\* A frame of reader r and number s has a cause in S to be called a replay.
Cause(r, s, S) == \E g \in S : g[1] = r /\ (g[2] = s \/ g[2] >= s + Window)

WindowsKnown ==
    /\ \A r \in Readers : Known(win[r], r, opened)
    /\ pc = "detector" /\ reason = "replay" => Cause(req.reader, req.seq, opened)

\* Remembering a number adds that number only.
LEMMA RememberKnown ==
    ASSUME NEW w \in WindowType, NEW r, NEW s \in Nat, NEW S, Known(w, r, S)
    PROVE  Known(remember(w, s), r, S \cup {<<r, s>>})
<1> DEFINE q == [maxSeen |-> IF s > w.maxSeen THEN s ELSE w.maxSeen,
                 seen |-> w.seen \cup {s}, order |-> Append(w.order, s)]
           e == [q EXCEPT !.seen = @ \ {Head(q.order)}, !.order = Tail(@)]
<1>1. remember(w, s) = w \/ remember(w, s) = q \/ remember(w, s) = e
  BY DEF remember, evictOldestIfFull
<1>a. q.seen = w.seen \cup {s} /\ q.maxSeen \in {w.maxSeen, s}
  OBVIOUS
<1>b. e.seen = q.seen \ {Head(q.order)} /\ e.maxSeen = q.maxSeen
  OBVIOUS
<1> HIDE DEF q, e
<1>2. /\ remember(w, s).seen \subseteq w.seen \cup {s}
      /\ remember(w, s).maxSeen \in {w.maxSeen, s}
  BY <1>1, <1>a, <1>b
<1> QED
  BY <1>2 DEF Known

\* What a window that knows only opened numbers refuses has a cause.
LEMMA ContainsCause ==
    ASSUME NEW w \in WindowType, NEW r, NEW s \in Nat, NEW S, Known(w, r, S), contains(w, s)
    PROVE  Cause(r, s, S)
<1>1. CASE s \in w.seen
  BY <1>1 DEF Known, Cause
<1>2. CASE isTooOld(w, s)
  <2>1. w.maxSeen \in Nat /\ w.maxSeen # 0 /\ w.maxSeen >= s + Window
    BY <1>2, WindowAssumption DEF isTooOld, WindowType
  <2>2. <<r, w.maxSeen>> \in S
    BY <2>1 DEF Known
  <2> QED
    BY <2>1, <2>2 DEF Cause
<1> QED
  BY <1>1, <1>2 DEF contains

\* A frame is called a replay only on account of frames that were opened, for every
\* capacity of the window: no damaged, stale or misdirected copy that came before
\* uses up the number (every early return of handle() precedes window->remember).
THEOREM ReplayAlwaysHasCause == Spec => []ReplayHasCause
<1>1. Init => WindowsKnown
  BY DEF Init, WindowsKnown, Known, FreshWindow
<1>2. TypeOK /\ StageOK /\ WindowsKnown /\ [Next]_vars => WindowsKnown'
  <2> SUFFICES ASSUME TypeOK, StageOK, WindowsKnown, [Next]_vars
               PROVE  WindowsKnown'
    OBVIOUS
  <2> USE DEF process, request, history, counts
  <2>0. /\ req \in Frames /\ win \in [Readers -> WindowType]
        /\ req.reader \in Readers /\ req.seq \in Nat
    BY FrameFields DEF TypeOK
  <2>k. ASSUME UNCHANGED <<win, opened>>, pc' # "detector" \/ UNCHANGED <<pc, reason, req>>
        PROVE  WindowsKnown'
    BY <2>k DEF WindowsKnown
  <2>1. ASSUME NEW age \in Ages, tryDecrypt(age) PROVE WindowsKnown'
    <3> DEFINE r == req.reader
               s == req.seq
    <3>1. /\ pc = "admit" /\ pc' = "detector" /\ req' = req
          /\ win' = IF AntiReplay /\ reason' = "ok" THEN [win EXCEPT ![r] = remember(@, s)]
                                                     ELSE win
          /\ opened' = IF reason' = "ok" THEN opened \cup {<<r, s>>} ELSE opened
          /\ reason' = "replay" => contains(win[r], s)
      BY <2>1 DEF tryDecrypt, FrameVerdict, Ages
    <3>2. \A q \in Readers : Known(win[q], q, opened)
      BY DEF WindowsKnown
    <3>3. \A q \in Readers : Known(win'[q], q, opened')
      <4>1. CASE AntiReplay /\ reason' = "ok"
        <5>1. /\ opened' = opened \cup {<<r, s>>} /\ win'[r] = remember(win[r], s)
              /\ \A q \in Readers : q # r => win'[q] = win[q]
          BY <2>0, <3>1, <4>1
        <5>2. Known(win'[r], r, opened')
          BY <2>0, <3>2, <5>1, RememberKnown
        <5>3. \A q \in Readers : q # r => Known(win'[q], q, opened')
          BY <3>2, <5>1 DEF Known
        <5> QED
          BY <5>2, <5>3
      <4>2. CASE ~ (AntiReplay /\ reason' = "ok")
        BY <3>1, <3>2, <4>2 DEF Known
      <4> QED
        BY <4>1, <4>2
    <3>4. reason' = "replay" => Cause(r, s, opened')
      <4> SUFFICES ASSUME reason' = "replay" PROVE Cause(r, s, opened)
        BY <3>1
      <4> QED
        BY <2>0, <3>1, <3>2, ContainsCause
    <3> QED
      BY <3>1, <3>3, <3>4 DEF WindowsKnown
  <2>2. ASSUME NEW f \in Frames, Receive(f) PROVE WindowsKnown'
    <3>1. UNCHANGED <<win, opened>> /\ (reason' = "replay" => FALSE)
      BY <2>2 DEF Receive
    <3> QED
      BY <3>1 DEF WindowsKnown
  <2>3. CASE Throw \/ validateReader \/ logAuditEvent \/ Answer
    <3>1. UNCHANGED <<win, opened>>
      BY <2>3 DEF Throw, validateReader, logAuditEvent, Answer
    <3>2. pc' # "detector" \/ reason' # "replay"
      BY <2>3 DEF Throw, validateReader, logAuditEvent, Answer, StageOK
    <3> QED
      BY <3>1, <3>2 DEF WindowsKnown
  <2>4. CASE DenyQuarantined \/ DenyRollback \/ DenyNonce \/ DenyFrame \/ PassFrame
    <3>1. UNCHANGED <<win, opened>> /\ pc' # "detector"
      BY <2>4 DEF DenyQuarantined, DenyRollback, DenyNonce, DenyFrame, PassFrame, Conclude
    <3> QED
      BY <2>k, <3>1
  <2>5. CASE checkAccessPolicy \/ resolveCardHmac \/ resolvePreviousHmac \/ checkRoleAccess
    <3>1. UNCHANGED <<win, opened>> /\ pc' # "detector"
      BY <2>5 DEF checkAccessPolicy, resolveCardHmac, resolvePreviousHmac, checkRoleAccess, Conclude
    <3> QED
      BY <2>k, <3>1
  <2>6. CASE Restart
    BY <2>6 DEF Restart, WindowsKnown, Known, FreshWindow
  <2>7. CASE Admin
    <3>1. UNCHANGED <<win, opened, pc, reason, req>>
      BY <2>7 DEF Admin, Change, UnquarantineReader, UpsertReader, DeleteReader, BindDoor,
                  UnbindDoor, AllowRole, RevokeRole, UpsertCard, DeleteCard
    <3> QED
      BY <2>k, <3>1
  <2>8. CASE UNCHANGED vars
    BY <2>8, <2>k DEF vars
  <2> QED
    BY <2>1, <2>2, <2>3, <2>4, <2>5, <2>6, <2>7, <2>8 DEF Next, Handle, Idle
<1>3. WindowsKnown => ReplayHasCause
  BY DEF WindowsKnown, Cause, ReplayHasCause
<1> QED
  BY <1>1, <1>2, <1>3, TypeInv, PTL DEF Spec

\* The audit log a holds an ALLOW row for the pair g of a reader and a number.
Recorded(a, g) == \E i \in 1..Len(a) : a[i].allow /\ <<a[i].reader, a[i].seq>> = g

\* The frame about to be allowed has its row already.
RowBeforeAnswer == pc = "answer" /\ reason = "ok" => Recorded(audit, <<req.reader, req.seq>>)

\* Appending a row to the log loses none, and the row is there.
LEMMA AppendRecords ==
    ASSUME NEW S, NEW a \in Seq(S), NEW row \in S
    PROVE  /\ \A g : Recorded(a, g) => Recorded(Append(a, row), g)
           /\ row.allow => Recorded(Append(a, row), <<row.reader, row.seq>>)
<1>1. /\ Len(Append(a, row)) = Len(a) + 1 /\ Len(a) \in Nat
      /\ \A i \in 1..Len(a) : Append(a, row)[i] = a[i]
      /\ Append(a, row)[Len(a) + 1] = row
  BY AppendProperties
<1> DEFINE b == Append(a, row)
<1> HIDE DEF b
<1>2. /\ Len(b) = Len(a) + 1 /\ Len(a) \in Nat /\ b[Len(a) + 1] = row
      /\ \A i \in 1..Len(a) : b[i] = a[i]
  BY <1>1 DEF b
<1>3. \A g : Recorded(a, g) => Recorded(b, g)
  BY <1>2 DEF Recorded
<1>4. row.allow => Recorded(b, <<row.reader, row.seq>>)
  BY <1>2 DEF Recorded
<1> QED
  BY <1>3, <1>4 DEF b

\* Every grant ever given has its ALLOW row, across exceptions and restarts:
\* logAuditEvent comes before the return, and no step removes a row.
THEOREM EveryGrantAudited == Spec => []GrantsAudited
<1> DEFINE Inv == RowBeforeAnswer /\ \A g \in granted : Recorded(audit, g)
<1>1. Init => Inv
  BY DEF Init, RowBeforeAnswer
<1>2. TypeOK /\ StageOK /\ Inv /\ [Next]_vars => Inv'
  <2> SUFFICES ASSUME TypeOK, StageOK, Inv, [Next]_vars PROVE Inv'
    OBVIOUS
  <2> USE DEF process, request, history, counts, Recorded
  <2>1. CASE logAuditEvent
    <3> DEFINE S == [reader : Readers, seq : Nat, allow : BOOLEAN, reason : Reasons]
               row == [reader |-> hdr.reader, seq |-> hdr.seq,
                       allow |-> reason = "ok", reason |-> reason]
    <3>1. hdr.reader \in Readers /\ hdr.seq \in Nat
      BY HeaderType DEF TypeOK, hdr
    <3>2. row \in S /\ audit \in Seq(S) /\ audit' = Append(audit, row)
      BY <2>1, <3>1 DEF TypeOK, logAuditEvent
    <3>3. granted' = granted /\ req' = req /\ reason' = reason
      BY <2>1 DEF logAuditEvent
    <3>4. \A g \in granted' : Recorded(audit', g)
      BY <3>2, <3>3, AppendRecords
    <3>5. reason = "ok" => <<row.reader, row.seq>> = <<req.reader, req.seq>> /\ row.allow
      BY <2>1, HeaderType DEF TypeOK, StageOK, logAuditEvent, hdr
    <3>6. row.allow => Recorded(audit', <<row.reader, row.seq>>)
      BY <3>2, AppendRecords
    <3> HIDE DEF Recorded, row
    <3>7. RowBeforeAnswer'
      BY <3>3, <3>5, <3>6, Zenon DEF RowBeforeAnswer
    <3> QED BY <3>4, <3>7
  <2>2. CASE Answer
    BY <2>2 DEF Answer, RowBeforeAnswer
  <2>3. CASE Restart \/ Throw \/ \E f \in Frames : Receive(f)
    BY <2>3 DEF Restart, Throw, Receive, RowBeforeAnswer
  <2>4. CASE validateReader \/ \E age \in Ages : tryDecrypt(age)
    BY <2>4 DEF validateReader, tryDecrypt, RowBeforeAnswer
  <2>5. CASE DenyQuarantined \/ DenyRollback \/ DenyNonce \/ DenyFrame \/ PassFrame
    BY <2>5, ZenonT(40) DEF DenyQuarantined, DenyRollback, DenyNonce, DenyFrame, PassFrame, Conclude,
                RowBeforeAnswer
  <2>6. CASE checkAccessPolicy \/ resolveCardHmac \/ resolvePreviousHmac \/ checkRoleAccess
    BY <2>6 DEF checkAccessPolicy, resolveCardHmac, resolvePreviousHmac, checkRoleAccess,
                Conclude, RowBeforeAnswer
  <2>7. CASE Admin
    BY <2>7 DEF Admin, Change, UnquarantineReader, UpsertReader, DeleteReader, BindDoor,
                UnbindDoor, AllowRole, RevokeRole, UpsertCard, DeleteCard, RowBeforeAnswer
  <2>8. CASE UNCHANGED vars
    BY <2>8 DEF vars, RowBeforeAnswer
  <2> QED
    BY <2>1, <2>2, <2>3, <2>4, <2>5, <2>6, <2>7, <2>8 DEF Next, Handle, Idle
<1>3. Inv => GrantsAudited
  BY DEF GrantsAudited, Recorded
<1> QED
  BY <1>1, <1>2, <1>3, TypeInv, PTL DEF Spec

\* What is pushed last is among the events.
LEMMA PushedLast ==
    ASSUME NEW q \in Seq(EventKinds), NEW p \in Seq(EventKinds), Len(p) > 0,
           p[Len(p)] = "anomaly"
    PROVE  \E i \in 1..Len(q \o p) : (q \o p)[i] = "anomaly"
<1>1. /\ Len(q) \in Nat /\ Len(p) \in Nat /\ Len(q \o p) = Len(q) + Len(p)
      /\ \A i \in 1..(Len(q) + Len(p)) : i > Len(q) => (q \o p)[i] = p[i - Len(q)]
  BY ConcatProperties
<1> DEFINE i == Len(q) + Len(p)
<1>2. i \in 1..(Len(q) + Len(p)) /\ i > Len(q) /\ i - Len(q) = Len(p)
  BY <1>1
<1> QED
  BY <1>1, <1>2

\* Every quarantine is announced by the step that imposes it, also when the
\* report that imposes it is one of several about the same frame.
THEOREM QuarantineAlwaysAnnounced == Spec => QuarantineAnnounced
<1>1. TypeOK /\ [Next]_vars
        => [ \A r \in Readers : ~ isQuarantined(det[r]) /\ isQuarantined(det'[r])
                => \E i \in 1..Len(events') : events'[i] = "anomaly" ]_vars
  <2> SUFFICES ASSUME TypeOK, [Next]_vars, NEW r \in Readers,
                      ~ isQuarantined(det[r]), isQuarantined(det'[r])
               PROVE  \E i \in 1..Len(events') : events'[i] = "anomaly"
    OBVIOUS
  <2>0. /\ det \in [Readers -> ReaderState] /\ events \in Seq(EventKinds)
        /\ hdr.reader \in Readers /\ hdr.seq \in Nat
    BY HeaderType DEF TypeOK, hdr
  <2>1. det'[r] # det[r]
    OBVIOUS
  <2>2. CASE Restart
    <3>1. det'[r] = FreshReader
      BY <2>2 DEF Restart
    <3> QED
      BY <3>1 DEF FreshReader, isQuarantined
  <2>3. CASE UnquarantineReader(r)
    BY <2>3 DEF UnquarantineReader
  <2>4. CASE DenyRollback \/ DenyNonce
    <3> DEFINE p == <<"frame", "anomaly">>
    <3>1. events' = events \o p
      BY <2>4 DEF DenyRollback, DenyNonce, Conclude
    <3>2. p \in Seq(EventKinds) /\ Len(p) = 2 /\ p[2] = "anomaly"
      BY KindTuples
    <3> HIDE DEF p
    <3>3. Len(p) > 0 /\ p[Len(p)] = "anomaly"
      BY <3>2
    <3>4. events \in Seq(EventKinds)
      BY <2>0
    <3>5. \E i \in 1..Len(events \o p) : (events \o p)[i] = "anomaly"
      BY <3>2, <3>3, <3>4, PushedLast
    <3> QED
      BY <3>1, <3>5, Zenon
  <2>5. CASE r = hdr.reader /\ DenyFrame
    <3> DEFINE p == <<"frame", "decision">> \o <<"anomaly">>
    <3>1. events' = events \o p
      BY <2>5 DEF DenyFrame, Conclude
    <3>2. p \in Seq(EventKinds) /\ Len(p) = 3 /\ p[3] = "anomaly"
      BY KindTuples
    <3> HIDE DEF p
    <3>3. Len(p) > 0 /\ p[Len(p)] = "anomaly"
      BY <3>2
    <3>4. events \in Seq(EventKinds)
      BY <2>0
    <3>5. \E i \in 1..Len(events \o p) : (events \o p)[i] = "anomaly"
      BY <3>2, <3>3, <3>4, PushedLast
    <3> QED
      BY <3>1, <3>5, Zenon
  <2>6. CASE r = hdr.reader /\ PassFrame
    <3>1. det'[r] = reportSuccess(SeqReported, hdr.seq)
      BY <2>0, <2>1, <2>6 DEF PassFrame
    <3>2. SeqReported \in ReaderState /\ SeqReported.quarantine = det[r].quarantine
      BY <2>6, SeqReportedKeeps DEF PassFrame
    <3>3. det'[r].quarantine = det[r].quarantine
      BY <2>0, <3>1, <3>2, ReportsBound
    <3> QED
      BY <3>3 DEF isQuarantined
  <2> QED
    BY <2>1, <2>2, <2>3, <2>4, <2>5, <2>6, DetectorSteps
<1> QED
  BY <1>1, TypeInv, PTL DEF Spec, QuarantineAnnounced
-----------------------------------------------------------------------------
(* Why a frame is granted.                                                 *)

\* The facts a grant rests on, each seen in one of the stores S.  They stay true
\* when S grows, so a fact read at one statement is still one at the answer.
KeyFact(S, f) ==
    \E s \in S : s.keyVersion[f.reader] # 0 /\ KeyVersionOk(f.kv, s.keyVersion[f.reader])

BindFact(S, f) == EnforceBinding => \E s \in S : <<f.reader, f.door>> \in s.readerDoors

KvSeen(S, f, k) == k # 0 /\ \E s \in S : s.keyVersion[f.reader] = k

CardSeen(S, f, k, x) == \E s \in S : s.cards[<<f.card, k>>] = x

Found(S, f, x) ==
    \E k \in 1..MaxKv :
        /\ KvSeen(S, f, k)
        /\ \/ CardSeen(S, f, IF StaticPepper THEN 1 ELSE k, x)
           \/ /\ ~ StaticPepper /\ AllowPrev /\ k > 1
              /\ CardSeen(S, f, k, NoRole) /\ CardSeen(S, f, k - 1, x)

RoleFact(S, f, x) == \E s \in S : <<f.door, x>> \in s.doorRoles

Justified(S, f) ==
    KeyFact(S, f) /\ BindFact(S, f) /\ \E x \in Roles : Found(S, f, x) /\ RoleFact(S, f, x)

LEMMA FactsRemain ==
    ASSUME NEW S, NEW T, S \subseteq T, NEW f
    PROVE  /\ KeyFact(S, f) => KeyFact(T, f)
           /\ BindFact(S, f) => BindFact(T, f)
           /\ \A k : KvSeen(S, f, k) => KvSeen(T, f, k)
           /\ \A k, x : CardSeen(S, f, k, x) => CardSeen(T, f, k, x)
           /\ \A x : Found(S, f, x) => Found(T, f, x)
           /\ Justified(S, f) => Justified(T, f)
<1>1. KeyFact(S, f) => KeyFact(T, f)
  BY DEF KeyFact
<1>2. BindFact(S, f) => BindFact(T, f)
  BY DEF BindFact
<1>3. \A k : KvSeen(S, f, k) => KvSeen(T, f, k)
  BY DEF KvSeen
<1>4. \A k, x : CardSeen(S, f, k, x) => CardSeen(T, f, k, x)
  BY DEF CardSeen
<1>5. \A x : Found(S, f, x) => Found(T, f, x)
  BY <1>3, <1>4, Zenon DEF Found
<1>6. \A x : RoleFact(S, f, x) => RoleFact(T, f, x)
  BY DEF RoleFact
<1> QED
  BY <1>1, <1>2, <1>3, <1>4, <1>5, <1>6, Zenon DEF Justified

\* What justifies a grant is what GrantJustified says of it.
LEMMA JustifiedMeans ==
    ASSUME NEW S \in SUBSET StoreType, NEW f \in Frames, Justified(S, f)
    PROVE  FactsHeld(S, f) /\ \A s \in S : S = {s} => Permits(s, f)
<1>1. KeyFact(S, f) /\ BindFact(S, f)
  BY DEF Justified
<1>2. PICK x \in Roles : Found(S, f, x) /\ RoleFact(S, f, x)
  BY DEF Justified
<1>3. PICK k \in 1..MaxKv :
        /\ KvSeen(S, f, k)
        /\ \/ CardSeen(S, f, IF StaticPepper THEN 1 ELSE k, x)
           \/ /\ ~ StaticPepper /\ AllowPrev /\ k > 1
              /\ CardSeen(S, f, k, NoRole) /\ CardSeen(S, f, k - 1, x)
  BY <1>2 DEF Found
<1>4. MaxKv \in Nat /\ 1 \in 1..MaxKv /\ k \in Nat /\ k # 0 /\ x # NoRole
  BY StoreAssumption
<1>5. FactsHeld(S, f)
  <2>1. PICK s \in S : s.keyVersion[f.reader] = k
    BY <1>3 DEF KvSeen
  <2>2. PICK u \in {1, k, k - 1} \cap (1..MaxKv) : CardSeen(S, f, u, x)
    <3>1. CASE CardSeen(S, f, IF StaticPepper THEN 1 ELSE k, x)
      BY <1>4, <3>1
    <3>2. CASE k > 1 /\ CardSeen(S, f, k - 1, x)
      <4>1. k - 1 \in 1..MaxKv
        BY <1>4, <3>2
      <4> QED
        BY <3>2, <4>1
    <3> QED
      BY <1>3, <3>1, <3>2
  <2>3. PICK t \in S : t.cards[<<f.card, u>>] = x
    BY <2>2 DEF CardSeen
  <2>4. \E a, b \in S : LET v == a.keyVersion[f.reader]
                        IN  \E w \in {1, v, v - 1} \cap (1..MaxKv) : b.cards[<<f.card, w>>] = x
    BY <2>1, <2>2, <2>3
  <2> QED
    BY <1>1, <1>2, <2>4 DEF FactsHeld, KeyFact, BindFact, RoleFact
<1>6. ASSUME NEW s \in S, S = {s}
      PROVE  Permits(s, f)
  <2> DEFINE v == s.keyVersion[f.reader]
  <2>1. v = k
    BY <1>3, <1>6 DEF KvSeen
  <2>2. v # 0 /\ KeyVersionOk(f.kv, v) /\ (EnforceBinding => <<f.reader, f.door>> \in s.readerDoors)
    BY <1>1, <1>6 DEF KeyFact, BindFact
  <2>3. RoleIn(s, f, v) = x
    <3>1. CASE CardSeen(S, f, IF StaticPepper THEN 1 ELSE k, x)
      <4>1. s.cards[<<f.card, IF StaticPepper THEN 1 ELSE k>>] = x
        BY <1>6, <3>1 DEF CardSeen
      <4> QED
        BY <1>4, <2>1, <4>1 DEF RoleIn
    <3>2. CASE /\ ~ StaticPepper /\ AllowPrev /\ k > 1
               /\ CardSeen(S, f, k, NoRole) /\ CardSeen(S, f, k - 1, x)
      <4>1. s.cards[<<f.card, k>>] = NoRole /\ s.cards[<<f.card, k - 1>>] = x
        BY <1>6, <3>2 DEF CardSeen
      <4>2. ~ (k <= 1)
        BY <1>4, <3>2
      <4> QED
        BY <2>1, <3>2, <4>1, <4>2 DEF RoleIn
    <3> QED
      BY <1>3, <3>1, <3>2
  <2>4. <<f.door, x>> \in s.doorRoles
    BY <1>2, <1>6 DEF RoleFact
  <2> QED
    BY <2>2, <2>3, <2>4 DEF Permits
<1> QED
  BY <1>5, <1>6

\* The frame is past the handler's checks and on its way to a grant.
Admitted ==
    \/ pc \in {"policy", "card", "card_prev", "door"}
    \/ pc \in {"detector", "audit", "answer"} /\ reason = "ok"

\* What the handler knows of the stores it has read, stage by stage.
StageFacts ==
    /\ pc # "idle" => store \in views
    /\ pc \in {"admit", "card", "card_prev"} => KvSeen(views, req, kv)
    /\ Admitted => KeyFact(views, req) /\ BindFact(views, req)
    /\ pc = "card_prev" =>
          ~ StaticPepper /\ AllowPrev /\ kv > 1 /\ CardSeen(views, req, kv, NoRole)
    /\ pc = "door" => role \in Roles /\ Found(views, req, role)
    /\ pc \in {"audit", "answer"} /\ reason = "ok" => Justified(views, req)

GrantFacts == Granted => Justified(views, reply.frame)

LEMMA FactsStep ==
    ASSUME TypeOK, StageOK, StageFacts, GrantFacts, [Next]_vars
    PROVE  StageFacts' /\ GrantFacts'
<1> USE DEF process, request, history, counts
<1>0. /\ req \in Frames /\ views \subseteq StoreType /\ store \in StoreType /\ kv \in 0..MaxKv
      /\ role \in Roles \cup {NoRole}
  BY DEF TypeOK
<1>1. CASE UNCHANGED vars
  BY <1>1 DEF vars, StageFacts, Admitted, GrantFacts, Granted
<1>2. ASSUME NEW f \in Frames, Receive(f)
      PROVE  StageFacts' /\ GrantFacts'
  BY <1>2 DEF Receive, StageFacts, Admitted, GrantFacts, Granted
<1>3. CASE validateReader
  <2>1. kv' = store.keyVersion[req.reader] /\ store \in views
    BY <1>3 DEF validateReader, currentKeyVersionForReader, StageFacts
  <2>2. kv' # 0 => KvSeen(views, req, kv')
    BY <2>1 DEF KvSeen
  <2> QED
    BY <1>3, <2>2 DEF validateReader, StageFacts, Admitted, GrantFacts, Granted
<1>4. ASSUME NEW age \in Ages, tryDecrypt(age)
      PROVE  StageFacts' /\ GrantFacts'
  <2>1. store \in views /\ KvSeen(views, req, kv)
    BY <1>4 DEF tryDecrypt, StageFacts
  <2>2. reason' = "ok" => /\ EnforceBinding => isReaderAllowedDoor(store, req.reader, req.door)
                          /\ KeyVersionOk(req.kv, kv)
    BY <1>4 DEF tryDecrypt, FrameVerdict
  <2>3. reason' = "ok" => KeyFact(views, req) /\ BindFact(views, req)
    <3> SUFFICES ASSUME reason' = "ok"
                 PROVE  KeyFact(views, req) /\ BindFact(views, req)
      OBVIOUS
    <3>1. KeyFact(views, req)
      BY <2>1, <2>2 DEF KvSeen, KeyFact
    <3>2. BindFact(views, req)
      BY <2>1, <2>2 DEF BindFact, isReaderAllowedDoor
    <3> QED
      BY <3>1, <3>2
  <2> QED
    BY <1>4, <2>1, <2>3 DEF tryDecrypt, StageFacts, Admitted, GrantFacts, Granted
<1>5. CASE DenyQuarantined \/ DenyRollback \/ DenyNonce \/ DenyFrame
  <2>1. /\ pc = "detector" /\ pc' = "audit" /\ reason' # "ok"
        /\ UNCHANGED <<store, views, req, kv, role, reply>>
    BY <1>5 DEF DenyQuarantined, DenyRollback, DenyNonce, DenyFrame, Conclude
  <2> QED
    BY <2>1 DEF StageFacts, Admitted, GrantFacts, Granted
<1>6. CASE PassFrame
  <2>1. pc = "detector" /\ reason = "ok" /\ UNCHANGED <<store, views, req, kv, role, reply>>
    BY <1>6 DEF PassFrame
  <2>2. pc' = "policy" \/ (pc' = "audit" /\ reason' = "bad_payload")
    BY <1>6, Zenon DEF PassFrame
  <2> QED
    BY <2>1, <2>2 DEF StageFacts, Admitted, GrantFacts, Granted
<1>7. CASE checkAccessPolicy
  <2>1. /\ pc = "policy" /\ UNCHANGED <<store, views, req, role, reply>>
        /\ \/ pc' = "audit" /\ reason' # "ok"
           \/ pc' = "card" /\ kv' # 0 /\ kv' = store.keyVersion[req.reader]
    BY <1>7 DEF checkAccessPolicy, Conclude, currentKeyVersionForReader
  <2>2. pc' = "card" => KvSeen(views, req, kv')
    BY <2>1 DEF KvSeen, StageFacts
  <2> QED
    BY <2>1, <2>2 DEF StageFacts, Admitted, GrantFacts, Granted
<1>8. CASE resolveCardHmac
  <2> DEFINE k == IF StaticPepper THEN 1 ELSE kv
  <2>1. /\ pc = "card" /\ UNCHANGED <<store, views, req, kv, reply>>
        /\ role' = store.cards[<<req.card, k>>]
        /\ \/ pc' = "door" /\ role' # NoRole
           \/ pc' = "card_prev" /\ ~ StaticPepper /\ AllowPrev /\ kv > 1 /\ role' = NoRole
           \/ pc' = "audit" /\ reason' # "ok"
    BY <1>8 DEF resolveCardHmac, RoleFound, roleForCardHmac, Conclude
  <2>2. store \in views /\ KvSeen(views, req, kv) /\ kv # 0
    BY <2>1 DEF StageFacts, KvSeen
  <2>3. CardSeen(views, req, k, role')
    BY <2>1, <2>2 DEF CardSeen
  <2>4. kv \in 1..MaxKv
    BY <1>0, <2>2, StoreAssumption
  <2>5. role' \in Roles \cup {NoRole}
    <3>1. <<req.card, k>> \in CardHmacs
      BY <1>0, <2>1, <2>4, FrameFields, StoreAssumption DEF CardHmacs, StageOK
    <3> QED
      BY <1>0, <2>1, <3>1, RoleType DEF roleForCardHmac
  <2>6. pc' = "door" => role' \in Roles /\ Found(views, req, role')
    BY <2>1, <2>2, <2>3, <2>4, <2>5 DEF Found
  <2>7. pc' = "card_prev" => CardSeen(views, req, kv, NoRole)
    BY <2>1, <2>3
  <2> QED
    BY <2>1, <2>2, <2>6, <2>7 DEF StageFacts, Admitted, GrantFacts, Granted
<1>9. CASE resolvePreviousHmac
  <2>1. /\ pc = "card_prev" /\ UNCHANGED <<store, views, req, kv, reply>>
        /\ role' = store.cards[<<req.card, kv - 1>>]
        /\ \/ pc' = "door" /\ role' # NoRole
           \/ pc' = "audit" /\ reason' # "ok"
    BY <1>9 DEF resolvePreviousHmac, RoleFound, roleForCardHmac, Conclude
  <2>2. /\ store \in views /\ KvSeen(views, req, kv) /\ ~ StaticPepper /\ AllowPrev /\ kv > 1
        /\ CardSeen(views, req, kv, NoRole)
    BY <2>1 DEF StageFacts
  <2>3. CardSeen(views, req, kv - 1, role')
    BY <2>1, <2>2 DEF CardSeen
  <2>4. kv \in 1..MaxKv /\ kv - 1 \in 1..MaxKv
    BY <1>0, <2>2, StoreAssumption
  <2>5. role' \in Roles \cup {NoRole}
    <3>1. <<req.card, kv - 1>> \in CardHmacs
      BY <1>0, <2>1, <2>4, FrameFields DEF CardHmacs, StageOK
    <3> QED
      BY <1>0, <2>1, <3>1, RoleType DEF roleForCardHmac
  <2>6. pc' = "door" => role' \in Roles /\ Found(views, req, role')
    BY <2>1, <2>2, <2>3, <2>4, <2>5 DEF Found
  <2> QED
    BY <2>1, <2>2, <2>6 DEF StageFacts, Admitted, GrantFacts, Granted
<1>10. CASE checkRoleAccess
  <2>1. /\ pc = "door" /\ UNCHANGED <<store, views, req, kv, role, reply>> /\ pc' = "audit"
        /\ reason' = "ok" => <<req.door, role>> \in store.doorRoles
    BY <1>10 DEF checkRoleAccess, Conclude, isAllowed
  <2>2. /\ store \in views /\ KeyFact(views, req) /\ BindFact(views, req)
        /\ role \in Roles /\ Found(views, req, role)
    BY <2>1 DEF StageFacts, Admitted
  <2>3. reason' = "ok" => Justified(views, req)
    BY <2>1, <2>2 DEF Justified, RoleFact
  <2> QED
    BY <2>1, <2>2, <2>3 DEF StageFacts, Admitted, GrantFacts, Granted
<1>11. CASE logAuditEvent
  <2>1. pc = "audit" /\ pc' = "answer" /\ UNCHANGED <<store, views, req, kv, role, reason, reply>>
    BY <1>11 DEF logAuditEvent
  <2> QED
    BY <2>1 DEF StageFacts, Admitted, GrantFacts, Granted
<1>12. CASE Answer
  <2>1. pc = "answer" /\ pc' = "idle" /\ views' = views
    BY <1>12 DEF Answer
  <2>2. reply'.allow => reply'.frame = req /\ reason = "ok"
    BY <1>12 DEF Answer
  <2> QED
    BY <2>1, <2>2 DEF StageFacts, Admitted, GrantFacts, Granted
<1>13. CASE Throw
  <2>1. pc' = "idle" /\ ~ reply'.allow
    BY <1>13 DEF Throw
  <2> QED
    BY <2>1 DEF StageFacts, Admitted, GrantFacts, Granted
<1>14. CASE Restart
  BY <1>14 DEF Restart, StageFacts, Admitted, GrantFacts, Granted
<1>15. ASSUME NEW s, Change(s)
       PROVE  StageFacts' /\ GrantFacts'
  <2>1. /\ UNCHANGED <<pc, req, kv, reason, role, reply>> /\ store' = s
        /\ views' = IF pc = "idle" THEN views ELSE views \cup {s}
    BY <1>15 DEF Change
  <2>2. views \subseteq views' /\ (pc # "idle" => store' \in views')
    BY <2>1
  <2>3. /\ KeyFact(views, req) => KeyFact(views', req)
        /\ BindFact(views, req) => BindFact(views', req)
        /\ \A k : KvSeen(views, req, k) => KvSeen(views', req, k)
        /\ \A k, x : CardSeen(views, req, k, x) => CardSeen(views', req, k, x)
        /\ \A x : Found(views, req, x) => Found(views', req, x)
        /\ Justified(views, req) => Justified(views', req)
    BY <2>2, FactsRemain
  <2>4. StageFacts'
    BY <2>1, <2>2, <2>3 DEF StageFacts, Admitted
  <2>5. GrantFacts'
    BY <2>1 DEF GrantFacts, Granted
  <2> QED
    BY <2>4, <2>5
<1>16. ASSUME NEW r \in Readers, UnquarantineReader(r)
       PROVE  StageFacts' /\ GrantFacts'
  BY <1>16 DEF UnquarantineReader, StageFacts, Admitted, GrantFacts, Granted
<1>17. CASE Admin
  BY <1>15, <1>16, <1>17 DEF Admin, UpsertReader, DeleteReader, BindDoor, UnbindDoor,
                             AllowRole, RevokeRole, UpsertCard, DeleteCard
<1> QED
  BY <1>1, <1>2, <1>3, <1>4, <1>5, <1>6, <1>7, <1>8, <1>9, <1>10, <1>11, <1>12, <1>13, <1>14,
     <1>17 DEF Next, Handle, Idle

\* Whatever administrators change between two statements of the handler, every
\* fact a grant rests on was true at some instant while the frame was handled,
\* and without a change the whole policy permits the frame: no stage of handle()
\* and checkAccessPolicy can be passed by a stale or a missing row.
THEOREM GrantsAlwaysJustified == Spec => []GrantJustified
<1>1. Init => StageFacts /\ GrantFacts
  BY DEF Init, StageFacts, Admitted, GrantFacts, Granted
<1>2. TypeOK /\ StageOK /\ StageFacts /\ GrantFacts /\ [Next]_vars => StageFacts' /\ GrantFacts'
  BY FactsStep
<1>3. TypeOK /\ GrantFacts => GrantJustified
  <2> SUFFICES ASSUME TypeOK, GrantFacts, Granted
               PROVE  /\ FactsHeld(views, reply.frame)
                      /\ \A s \in views : views = {s} => Permits(s, reply.frame)
    BY DEF GrantJustified
  <2>1. reply.frame \in Frames /\ views \in SUBSET StoreType
    BY DEF TypeOK, Granted
  <2> QED
    BY <2>1, JustifiedMeans DEF GrantFacts
<1> QED
  BY <1>1, <1>2, <1>3, TypeInv, PTL DEF Spec
-----------------------------------------------------------------------------
(* A number is granted once.                                               *)

\* The deque of a window filled in order: the numbers are as far apart as their
\* positions, at least, and the last one is the highest.
Spread(q) == \A i, j \in 1..Len(q) : i <= j => q[i] + (j - i) <= q[j]

InOrder(w) ==
    /\ Spread(w.order) /\ Len(w.order) <= Window
    /\ w.seen = {w.order[i] : i \in 1..Len(w.order)}
    /\ w.maxSeen = (IF w.order = << >> THEN 0 ELSE w.order[Len(w.order)])

\* What remember() leaves of a window that does not contain s.
LEMMA RememberUnfolds ==
    ASSUME NEW w, NEW s, ~ contains(w, s)
    PROVE  remember(w, s) =
             [maxSeen |-> IF s > w.maxSeen THEN s ELSE w.maxSeen,
              seen    |-> IF Len(Append(w.order, s)) > Window
                          THEN (w.seen \cup {s}) \ {Head(Append(w.order, s))}
                          ELSE w.seen \cup {s},
              order   |-> IF Len(Append(w.order, s)) > Window
                          THEN Tail(Append(w.order, s))
                          ELSE Append(w.order, s)]
BY DEF remember, evictOldestIfFull

\* The deque with one number more, before and after the eviction.
LEMMA DequeFacts ==
    ASSUME NEW o \in Seq(Nat), NEW s \in Nat
    PROVE  /\ Append(o, s) \in Seq(Nat) /\ Len(o) \in Nat
           /\ Len(Append(o, s)) = Len(o) + 1
           /\ \A i \in 1..Len(o) : Append(o, s)[i] = o[i]
           /\ Append(o, s)[Len(o) + 1] = s
           /\ Head(Append(o, s)) = Append(o, s)[1]
           /\ Tail(Append(o, s)) \in Seq(Nat)
           /\ Len(Tail(Append(o, s))) = Len(o)
           /\ \A i \in 1..Len(o) : Tail(Append(o, s))[i] = Append(o, s)[i + 1]
<1> DEFINE q == Append(o, s)
<1>1. q \in Seq(Nat) /\ Len(o) \in Nat /\ Len(q) = Len(o) + 1 /\ q[Len(o) + 1] = s
      /\ \A i \in 1..Len(o) : q[i] = o[i]
  OBVIOUS
<1> HIDE DEF q
<1>2. Len(q) # 0
  BY <1>1
<1>3. q # << >>
  BY <1>2
<1>4. Head(q) = q[1] /\ Tail(q) \in Seq(Nat) /\ Len(Tail(q)) = Len(q) - 1
      /\ \A i \in 1..(Len(q) - 1) : Tail(q)[i] = q[i + 1]
  BY <1>1, <1>3
<1>5. Len(q) - 1 = Len(o)
  BY <1>1
<1> QED
  BY <1>1, <1>4, <1>5 DEF q

\* A number that comes in order leaves a window in order, which still contains
\* what it contained: an evicted number is too old by then.
LEMMA RememberInOrder ==
    ASSUME NEW w \in WindowType, NEW s \in Nat, InOrder(w),
           remember(w, s) = w \/ ~ (s < w.maxSeen)
    PROVE  /\ InOrder(remember(w, s)) /\ contains(remember(w, s), s)
           /\ \A n \in Nat : contains(w, n) => contains(remember(w, s), n)
<1>0. Window \in Nat /\ Window # 0 /\ Window >= 1
  BY WindowAssumption
<1>1. w.maxSeen \in Nat /\ w.seen \in SUBSET Nat /\ w.order \in Seq(Nat) /\ Len(w.order) \in Nat
  BY DEF WindowType
<1>2. CASE contains(w, s)
  <2>1. remember(w, s) = w
    BY <1>2 DEF remember
  <2> QED
    BY <1>2, <2>1
<1>3. CASE ~ contains(w, s)
  <2> DEFINE q == Append(w.order, s)
             m == IF s > w.maxSeen THEN s ELSE w.maxSeen
             k == IF Len(q) > Window THEN (w.seen \cup {s}) \ {Head(q)} ELSE w.seen \cup {s}
             o == IF Len(q) > Window THEN Tail(q) ELSE q
             v == [maxSeen |-> m, seen |-> k, order |-> o]
  <2>1. remember(w, s) = v
    BY <1>3, RememberUnfolds
  <2>2. /\ q \in Seq(Nat) /\ Len(q) = Len(w.order) + 1
        /\ \A i \in 1..Len(w.order) : q[i] = w.order[i]
        /\ q[Len(w.order) + 1] = s
        /\ Head(q) = q[1] /\ Tail(q) \in Seq(Nat) /\ Len(Tail(q)) = Len(w.order)
        /\ \A i \in 1..Len(w.order) : Tail(q)[i] = q[i + 1]
    BY <1>1, DequeFacts, ZenonT(40)
  <2> HIDE DEF q
  <2>3. s \notin w.seen /\ ~ isTooOld(w, s)
    BY <1>3 DEF contains
  <2>4. /\ \A i, j \in 1..Len(w.order) : i <= j => w.order[i] + (j - i) <= w.order[j]
        /\ Len(w.order) <= Window
        /\ w.seen = {w.order[i] : i \in 1..Len(w.order)}
        /\ w.maxSeen = (IF w.order = << >> THEN 0 ELSE w.order[Len(w.order)])
    BY DEF InOrder, Spread
  <2> DEFINE l == Len(w.order)
  <2>5. l \in Nat /\ (w.order = << >> <=> l = 0)
    BY <1>1
  <2> HIDE DEF l
  <2>6. ~ (s < w.maxSeen)
    <3> SUFFICES ASSUME remember(w, s) = w
                 PROVE  FALSE
      OBVIOUS
    <3>1. o = w.order
      BY <2>1
    <3>2. CASE Len(q) > Window
      <4>1. l \in 1..l /\ Tail(q)[l] = q[l + 1]
        BY <1>0, <2>2, <2>5, <3>2, SMTT(30) DEF l
      <4>2. w.order[l] = s
        BY <2>2, <3>1, <3>2, <4>1 DEF l
      <4> QED
        BY <2>3, <2>4, <4>1, <4>2 DEF l
    <3>3. CASE ~ (Len(q) > Window)
      <4>1. Len(q) = Len(w.order)
        BY <3>1, <3>3
      <4> QED
        BY <1>1, <2>2, <4>1
    <3> QED
      BY <3>2, <3>3
  <2>7. \A i \in 1..l : w.order[i] \in Nat /\ w.order[i] \in w.seen /\ w.order[i] + (l - i) <= w.maxSeen
    <3> SUFFICES ASSUME NEW i \in 1..l
                 PROVE  /\ w.order[i] \in Nat /\ w.order[i] \in w.seen
                        /\ w.order[i] + (l - i) <= w.maxSeen
      OBVIOUS
    <3>1. l \in 1..l /\ w.order # << >> /\ i <= l
      BY <2>5
    <3>2. w.maxSeen = w.order[l]
      BY <2>4, <3>1 DEF l
    <3>3. w.order[i] + (l - i) <= w.order[l]
      BY <2>4, <3>1 DEF l
    <3>4. w.order[i] \in Nat /\ w.order[i] \in w.seen
      BY <1>1, <2>4 DEF l
    <3> QED
      BY <3>2, <3>3, <3>4
  <2>8. \A i \in 1..l : q[i] \in Nat /\ q[i] + (l + 1 - i) <= s
    <3> SUFFICES ASSUME NEW i \in 1..l
                 PROVE  q[i] \in Nat /\ q[i] + (l + 1 - i) <= s
      OBVIOUS
    <3>1. l \in 1..l /\ w.order # << >>
      BY <2>5
    <3>2. w.order[l] = w.maxSeen /\ w.order[l] \in w.seen
      BY <2>4, <2>7, <3>1 DEF l
    <3>3. s # w.maxSeen
      BY <2>3, <3>2
    <3>4. w.maxSeen + 1 <= s
      BY <1>1, <2>6, <3>3
    <3>5. w.order[i] \in Nat /\ w.order[i] + (l - i) <= w.maxSeen
      BY <2>7
    <3>6. w.order[i] + (l + 1 - i) <= s
      BY <1>1, <2>5, <3>4, <3>5, SMTT(30)
    <3> QED
      BY <2>2, <3>5, <3>6 DEF l
  <2>9. q[l + 1] = s /\ Len(q) = l + 1 /\ m = s
    BY <1>1, <2>2, <2>6 DEF l
  <2>10. Spread(q)
    <3> SUFFICES ASSUME NEW i \in 1..(l + 1), NEW j \in 1..(l + 1), i <= j
                 PROVE  q[i] + (j - i) <= q[j]
      BY <2>9 DEF Spread
    <3>1. CASE j \in 1..l
      <4>1. i \in 1..l
        BY <2>5, <3>1
      <4> QED
        BY <2>2, <2>4, <3>1, <4>1 DEF l
    <3>2. CASE j = l + 1 /\ i \in 1..l
      <4>1. q[i] + (l + 1 - i) <= s
        BY <2>8, <3>2
      <4> QED
        <5>1. q[j] = s /\ j - i = l + 1 - i
          BY <2>5, <2>9, <3>2
        <5> QED
          BY <4>1, <5>1
    <3>3. CASE j = l + 1 /\ i = l + 1
      BY <2>5, <2>9, <3>3
    <3> QED
      BY <2>5, <3>1, <3>2, <3>3
  <2>11. w.seen \cup {s} = {q[i] : i \in 1..(l + 1)}
    <3>1. \A n \in w.seen : \E i \in 1..(l + 1) : n = q[i]
      <4> SUFFICES ASSUME NEW n \in w.seen
                   PROVE  \E i \in 1..(l + 1) : n = q[i]
        OBVIOUS
      <4>1. PICK i \in 1..l : n = w.order[i]
        BY <2>4 DEF l
      <4>2. i \in 1..(l + 1) /\ q[i] = w.order[i]
        BY <2>2, <2>5 DEF l
      <4> QED
        BY <4>1, <4>2
    <3>2. \A i \in 1..(l + 1) : q[i] \in w.seen \/ q[i] = s
      <4>1. \A i \in 1..(l + 1) : i \in 1..l \/ i = l + 1
        BY <2>5
      <4>2. \A i \in 1..l : q[i] \in w.seen
        BY <2>2, <2>7 DEF l
      <4> QED
        BY <2>9, <4>1, <4>2
    <3>3. l + 1 \in 1..(l + 1)
      BY <2>5
    <3> QED
      BY <2>9, <3>1, <3>2, <3>3
  <2>12. CASE ~ (Len(q) > Window)
    <3>1. o = q /\ k = w.seen \cup {s}
      BY <2>12
    <3>2. v.order = q /\ v.seen = w.seen \cup {s} /\ v.maxSeen = s
      BY <2>9, <3>1
    <3>3. q # << >> /\ Len(q) <= Window
      BY <1>0, <2>5, <2>9, <2>12
    <3>4. InOrder(v)
      <4> HIDE DEF v
      <4>1. v.seen = {v.order[i] : i \in 1..Len(v.order)}
        BY <2>9, <2>11, <3>2
      <4>2. v.maxSeen = v.order[Len(v.order)] /\ v.order # << >>
        BY <2>9, <3>2, <3>3
      <4>3. Spread(v.order) /\ Len(v.order) <= Window
        BY <2>10, <3>2, <3>3
      <4> QED
        BY <4>1, <4>2, <4>3 DEF InOrder
    <3>5. contains(v, s)
      BY <3>2 DEF contains
    <3>6. ASSUME NEW n \in Nat, contains(w, n)
          PROVE  contains(v, n)
      <4>1. CASE n \in w.seen
        BY <3>2, <4>1 DEF contains
      <4>2. CASE isTooOld(w, n)
        BY <1>0, <1>1, <2>6, <3>2, <4>2 DEF isTooOld, contains
      <4> QED
        BY <3>6, <4>1, <4>2 DEF contains
    <3> HIDE DEF v
    <3> QED
      BY <2>1, <3>4, <3>5, <3>6
  <2>13. CASE Len(q) > Window
    <3>1. o = Tail(q) /\ k = (w.seen \cup {s}) \ {q[1]}
      BY <2>2, <2>13
    <3>2. v.order = Tail(q) /\ v.seen = (w.seen \cup {s}) \ {q[1]} /\ v.maxSeen = s
      BY <2>9, <3>1
    <3> DEFINE t == Tail(q)
    <3>3. l = Window /\ Len(t) = l /\ \A i \in 1..l : t[i] = q[i + 1]
      BY <1>0, <2>2, <2>4, <2>5, <2>9, <2>13 DEF l
    <3> HIDE DEF t
    <3>4. Spread(t)
      <4> SUFFICES ASSUME NEW i \in 1..l, NEW j \in 1..l, i <= j
                   PROVE  t[i] + (j - i) <= t[j]
        BY <3>3 DEF Spread
      <4>1. i + 1 \in 1..(l + 1) /\ j + 1 \in 1..(l + 1) /\ i + 1 <= j + 1
            /\ (j + 1) - (i + 1) = j - i
        BY <2>5
      <4>2. q[i + 1] + ((j + 1) - (i + 1)) <= q[j + 1]
        BY <2>9, <2>10, <4>1 DEF Spread
      <4> QED
        BY <3>3, <4>1, <4>2
    <3>5. \A i \in 1..l : q[i + 1] # q[1]
      <4> SUFFICES ASSUME NEW i \in 1..l
                   PROVE  q[i + 1] # q[1]
        OBVIOUS
      <4>1. 1 \in 1..(l + 1) /\ i + 1 \in 1..(l + 1) /\ 1 <= i + 1
        BY <2>5
      <4>2. q[1] \in Nat /\ q[i + 1] \in Nat
        BY <2>2, <2>9, <4>1, SMTT(30)
      <4>3. q[1] + ((i + 1) - 1) <= q[i + 1]
        BY <2>9, <2>10, <4>1 DEF Spread
      <4> QED
        BY <2>5, <4>2, <4>3
    <3>6. {q[i] : i \in 1..(l + 1)} \ {q[1]} = {t[i] : i \in 1..l}
      <4>1. \A i \in 1..(l + 1) : i = 1 \/ (i - 1 \in 1..l /\ t[i - 1] = q[i])
        BY <2>5, <3>3
      <4>2. \A i \in 1..l : i + 1 \in 1..(l + 1) /\ t[i] = q[i + 1] /\ q[i + 1] # q[1]
        BY <2>5, <3>3, <3>5
      <4> QED
        BY <4>1, <4>2
    <3>7. l \in 1..l /\ t[l] = s /\ t # << >>
      BY <1>0, <2>5, <2>9, <3>3
    <3>8. InOrder(v)
      <4>0. v.order = t
        BY <3>2 DEF t
      <4> HIDE DEF v
      <4>1. v.seen = {v.order[i] : i \in 1..Len(v.order)}
        <5>1. v.seen = {t[i] : i \in 1..l}
          BY <2>11, <3>2, <3>6
        <5> QED
          BY <3>3, <4>0, <5>1
      <4>2. v.maxSeen = v.order[Len(v.order)] /\ v.order # << >>
        BY <3>2, <3>3, <3>7, <4>0
      <4>3. Spread(v.order) /\ Len(v.order) <= Window
        BY <1>0, <3>3, <3>4, <4>0
      <4> QED
        BY <4>1, <4>2, <4>3 DEF InOrder
    <3>9. s # q[1]
      BY <2>9, <3>5, <3>7
    <3>10. contains(v, s)
      BY <3>2, <3>9 DEF contains
    <3>11. isTooOld(v, q[1])
      <4>1. 1 \in 1..l /\ q[1] \in Nat /\ q[1] + (l + 1 - 1) <= s
        BY <1>0, <2>5, <2>8, <3>3
      <4> QED
        BY <1>0, <3>2, <3>3, <4>1, SMTT(30) DEF isTooOld
    <3>12. ASSUME NEW n \in Nat, contains(w, n)
           PROVE  contains(v, n)
      <4>1. CASE n \in w.seen
        BY <3>2, <3>11, <4>1 DEF contains
      <4>2. CASE isTooOld(w, n)
        BY <1>0, <1>1, <2>6, <3>2, <4>2 DEF isTooOld, contains
      <4> QED
        BY <3>12, <4>1, <4>2 DEF contains
    <3> HIDE DEF v
    <3> QED
      BY <2>1, <3>8, <3>10, <3>12
  <2> QED
    BY <2>12, <2>13
<1> QED
  BY <1>2, <1>3


\* While the process runs, the window of a reader whose frames were admitted in
\* order contains every number granted, and that of the frame in hand, which
\* was not granted before.
OnceOK ==
    AntiReplay /\ restarts = 0 =>
        /\ \A r \in Readers \ reordered :
              /\ InOrder(win[r])
              /\ \A n \in Nat : <<r, n>> \in granted => contains(win[r], n)
        /\ Admitted /\ req.reader \notin reordered =>
              /\ contains(win[req.reader], req.seq)
              /\ <<req.reader, req.seq>> \notin granted

LEMMA OnceStep ==
    ASSUME TypeOK, StageOK, OnceOK, [Next]_vars
    PROVE  OnceOK'
<1> USE DEF process, request, history, counts
<1>0. /\ req \in Frames /\ win \in [Readers -> WindowType] /\ restarts \in Nat
      /\ granted \subseteq Readers \X Nat
  BY DEF TypeOK
<1>f. req.reader \in Readers /\ req.seq \in Nat
  BY <1>0, FrameFields
<1>k. ASSUME UNCHANGED <<win, granted, reordered, restarts, req>>, Admitted' => Admitted
      PROVE  OnceOK'
  BY <1>k DEF OnceOK
<1>1. CASE UNCHANGED vars
  BY <1>1, <1>k DEF vars, Admitted
<1>2. ASSUME NEW f \in Frames, Receive(f)
      PROVE  OnceOK'
  <2>1. UNCHANGED <<win, granted, reordered, restarts>> /\ ~ Admitted'
    BY <1>2 DEF Receive, Admitted
  <2> QED
    BY <2>1 DEF OnceOK
<1>3. CASE validateReader
  BY <1>3, <1>k DEF validateReader, Admitted
<1>4. ASSUME NEW age \in Ages, tryDecrypt(age)
      PROVE  OnceOK'
  <2> DEFINE r == req.reader
             w == win[req.reader]
             s == req.seq
  <2> SUFFICES ASSUME AntiReplay, restarts' = 0
               PROVE  /\ \A q \in Readers \ reordered' :
                           /\ InOrder(win'[q])
                           /\ \A n \in Nat : <<q, n>> \in granted' => contains(win'[q], n)
                      /\ Admitted' /\ req'.reader \notin reordered' =>
                           /\ contains(win'[req'.reader], req'.seq)
                           /\ <<req'.reader, req'.seq>> \notin granted'
    BY DEF OnceOK
  <2>1. /\ pc' = "detector" /\ req' = req /\ granted' = granted /\ restarts' = restarts
        /\ win' = IF reason' = "ok" THEN [win EXCEPT ![r] = remember(@, s)] ELSE win
        /\ reordered' = IF win' # win /\ s < w.maxSeen THEN reordered \cup {r} ELSE reordered
    BY <1>4 DEF tryDecrypt
  <2>2. /\ reordered \subseteq reordered'
        /\ \A q \in Readers \ reordered :
              /\ InOrder(win[q])
              /\ \A n \in Nat : <<q, n>> \in granted => contains(win[q], n)
    BY <2>1 DEF OnceOK
  <2>3. CASE reason' # "ok"
    <3>1. win' = win /\ reordered' = reordered /\ ~ Admitted'
      BY <2>1, <2>3 DEF Admitted
    <3> QED
      BY <2>1, <2>2, <3>1
  <2>4. CASE reason' = "ok"
    <3>1. win' = [win EXCEPT ![r] = remember(w, s)]
      BY <2>1, <2>4
    <3>2. ~ contains(w, s)
      BY <1>4, <2>4 DEF tryDecrypt, FrameVerdict
    <3>3. w \in WindowType /\ win'[r] = remember(w, s)
          /\ \A q \in Readers : q # r => win'[q] = win[q]
      BY <1>0, <1>f, <3>1
    <3>4. ASSUME r \notin reordered'
          PROVE  /\ InOrder(win'[r]) /\ contains(win'[r], s) /\ <<r, s>> \notin granted
                 /\ \A n \in Nat : <<r, n>> \in granted => contains(win'[r], n)
      <4>1. r \notin reordered /\ InOrder(w)
            /\ \A n \in Nat : <<r, n>> \in granted => contains(w, n)
        BY <1>f, <2>2, <3>4
      <4>2. win' = win \/ ~ (s < w.maxSeen)
        BY <2>1, <3>4
      <4>3. remember(w, s) = w \/ ~ (s < w.maxSeen)
        BY <3>3, <4>2
      <4>4. /\ InOrder(remember(w, s)) /\ contains(remember(w, s), s)
            /\ \A n \in Nat : contains(w, n) => contains(remember(w, s), n)
        BY <1>f, <3>3, <4>1, <4>3, RememberInOrder
      <4>5. <<r, s>> \notin granted
        BY <1>f, <3>2, <4>1
      <4> QED
        BY <3>3, <4>1, <4>4, <4>5
    <3>5. ASSUME NEW q \in Readers \ reordered'
          PROVE  /\ InOrder(win'[q])
                 /\ \A n \in Nat : <<q, n>> \in granted' => contains(win'[q], n)
      <4>1. CASE q = r
        BY <2>1, <3>4, <4>1
      <4>2. CASE q # r
        BY <2>1, <2>2, <3>3, <4>2
      <4> QED
        BY <4>1, <4>2
    <3> QED
      BY <2>1, <3>4, <3>5
  <2> QED
    BY <2>3, <2>4
<1>5. CASE DenyQuarantined \/ DenyRollback \/ DenyNonce \/ DenyFrame
  <2>1. /\ pc = "detector" /\ pc' = "audit" /\ reason' # "ok"
        /\ UNCHANGED <<win, granted, reordered, restarts, req>>
    BY <1>5 DEF DenyQuarantined, DenyRollback, DenyNonce, DenyFrame, Conclude
  <2> QED
    BY <1>k, <2>1 DEF Admitted
<1>6. CASE PassFrame
  <2>1. pc = "detector" /\ reason = "ok" /\ UNCHANGED <<win, granted, reordered, restarts, req>>
    BY <1>6 DEF PassFrame
  <2> QED
    BY <1>k, <2>1 DEF Admitted
<1>7. CASE checkAccessPolicy \/ resolveCardHmac \/ resolvePreviousHmac \/ checkRoleAccess
  <2>1. /\ pc \in {"policy", "card", "card_prev", "door"}
        /\ UNCHANGED <<win, granted, reordered, restarts, req>>
    BY <1>7 DEF checkAccessPolicy, resolveCardHmac, resolvePreviousHmac, checkRoleAccess
  <2> QED
    BY <1>k, <2>1 DEF Admitted
<1>8. CASE logAuditEvent
  BY <1>8, <1>k DEF logAuditEvent, Admitted
<1>9. CASE Answer
  <2>1. /\ pc = "answer" /\ pc' = "idle" /\ UNCHANGED <<win, reordered, restarts, req>>
        /\ granted' = IF reason = "ok" THEN granted \cup {<<req.reader, req.seq>>} ELSE granted
    BY <1>9 DEF Answer
  <2>2. ~ Admitted'
    BY <2>1 DEF Admitted
  <2>3. reason = "ok" => Admitted
    BY <2>1 DEF Admitted
  <2> SUFFICES ASSUME AntiReplay, restarts = 0, NEW q \in Readers \ reordered
               PROVE  /\ InOrder(win[q])
                      /\ \A n \in Nat : <<q, n>> \in granted' => contains(win[q], n)
    BY <2>1, <2>2 DEF OnceOK
  <2>4. InOrder(win[q]) /\ \A n \in Nat : <<q, n>> \in granted => contains(win[q], n)
    BY DEF OnceOK
  <2>5. reason = "ok" /\ q = req.reader => contains(win[q], req.seq)
    BY <2>3 DEF OnceOK
  <2>6. ASSUME NEW n \in Nat, <<q, n>> \in granted'
        PROVE  <<q, n>> \in granted \/ (reason = "ok" /\ q = req.reader /\ n = req.seq)
    BY <2>1, <2>6
  <2> QED
    BY <2>4, <2>5, <2>6
<1>10. CASE Throw
  BY <1>10, <1>k DEF Throw, Admitted
<1>11. CASE Restart
  <2>1. restarts' # 0
    BY <1>0, <1>11 DEF Restart
  <2> QED
    BY <2>1 DEF OnceOK
<1>12. CASE Admin
  <2>1. UNCHANGED <<win, granted, reordered, restarts, req, pc, reason>>
    BY <1>12 DEF Admin, Change, UnquarantineReader, UpsertReader, DeleteReader, BindDoor,
                 UnbindDoor, AllowRole, RevokeRole, UpsertCard, DeleteCard
  <2> QED
    BY <1>k, <2>1 DEF Admitted
<1> QED
  BY <1>1, <1>2, <1>3, <1>4, <1>5, <1>6, <1>7, <1>8, <1>9, <1>10, <1>11, <1>12
     DEF Next, Handle, Idle

\* The anti-replay guarantee through the whole handler, for every capacity of the
\* window: while the process runs and a reader's frames are admitted in order,
\* no number of it is allowed twice, whatever is evicted from the window and
\* whatever fails between the lookup and the answer.
THEOREM NumbersGrantedOnce == Spec => []GrantedOnce
<1>1. Init => OnceOK
  <2> SUFFICES ASSUME Init
               PROVE  OnceOK
    OBVIOUS
  <2>1. InOrder(FreshWindow)
    <3>1. FreshWindow.order = << >> /\ Len(<< >>) = 0 /\ FreshWindow.seen = {}
          /\ FreshWindow.maxSeen = 0
      BY DEF FreshWindow
    <3> QED
      BY <3>1, WindowAssumption DEF InOrder, Spread
  <2> QED
    BY <2>1 DEF Init, OnceOK, Admitted
<1>2. TypeOK /\ StageOK /\ OnceOK /\ [Next]_vars => OnceOK'
  BY OnceStep
<1>3. OnceOK => GrantedOnce
  BY DEF OnceOK, Admitted, GrantedOnce
<1> QED
  BY <1>1, <1>2, <1>3, TypeInv, PTL DEF Spec

==============================================================================
