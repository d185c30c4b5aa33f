---------------------------- MODULE KeyedFrames ----------------------------
(***************************************************************************)
(* A scan from the hardware service to the decision, as bytes and keys:    *)
(* buildEncryptedFrameBytes seals the card under the reader's key version, *)
(* the frame travels as bytes that may be late, repeated, damaged or mixed *)
(* with others, and FrameHandler and DecisionEngine parse, open and        *)
(* resolve it.  Between two scans an administrator rotates key versions    *)
(* and enrols cards, and the server is restarted with another              *)
(* configuration.                                                          *)
(*                                                                         *)
(* One frame is handled in one step; the interleavings inside it, replay,  *)
(* quarantine and the clock are modelled in DecisionEngine.                *)
(***************************************************************************)
EXTENDS KeyManager, Config, AccessStore

CONSTANTS Scans,        \* <<reader, door, card, number>> of the scans that happen
          Enrolments,   \* <<card, role>> of the enrolments that happen
          Rotated,      \* readers that are given new key versions
          Yamls,        \* configuration files the server may be started with
          InitStores,   \* databases it may be started on
          Times,        \* values of the clock, in ms
          NoResult,     \* no frame handled since the last change
          Unenrolled,   \* no enrolment of the card is in force
          MaxSeals,     \* bound: frames sealed
          MaxDamage,    \* bound: changes to the bytes of one delivery
          MaxChanges,   \* bound: administrator's changes and restarts
          MaxEvents     \* bound: both together

ASSUME KeyedAssumption ==
    /\ Readers = 0..(Base^U32 - 1) /\ Doors = Readers /\ Rotated \subseteq Readers
    /\ \A n \in Readers \cup 0..MaxKv \cup 0..MaxPtLen : Fits(n, U32)
    /\ \A n \in Times \cup {s[4] : s \in Scans} : Fits(n, U64)
    /\ Times \subseteq Nat /\ MaxPtLen \in Nat
    /\ Scans \subseteq Readers \X Doors \X Cards \X Nat /\ Enrolments \subseteq Cards \X Roles
    /\ InitStores \subseteq StoreType
    /\ \A y \in Yamls : /\ loadFromYaml(y).frameHandler.maxCtLen \in Nat
                       /\ loadFromYaml(y).keyManagement.currentKeyVersion \in 0..MaxKv
    /\ PtLen \in [Cards -> 1..MaxPtLen]
    /\ {MaxSeals, MaxDamage, MaxChanges, MaxEvents} \subseteq Nat
-----------------------------------------------------------------------------
VARIABLES cfg,          \* AppState::cfg
          up,           \* the server is running
          store,        \* the policy database
          sealed,       \* history: every frame sealed, in order
          wire,         \* the bytes being delivered
          damage,       \* number of changes to them
          result,       \* the last answer, NoResult after a change
          enrolled,     \* history: the latest enrolment of each card
          changes       \* number of changes and restarts

vars == <<cfg, up, store, sealed, wire, damage, result, enrolled, changes>>

Init ==
    /\ store \in InitStores
    /\ cfg \in {loadFromYaml(y) : y \in Yamls}
    /\ up = Starts(cfg)
    /\ sealed = << >> /\ wire = << >> /\ damage = 0 /\ result = NoResult
    /\ enrolled = [c \in Cards |-> Unenrolled]
    /\ changes = 0
-----------------------------------------------------------------------------
(* The hardware service                                                    *)

aeadKey(r, v) ==
    IF cfg.experiment.keyDerivationMode = "direct" THEN masterAsAeadKey ELSE deriveAeadKey(r, v)

aad(h) == IF cfg.experiment.aadMode = "none" THEN << >> ELSE to_bytes(h)

ZeroNonce == [k \in 1..NonceSize |-> 0]

\* buildNonceContext: the header with its nonce zeroed.
nonceContext(h) == to_bytes([h EXCEPT !.nonce = ZeroNonce])

\* buildEncryptedFrameBytes: the nonce for the header, the card sealed under
\* it, and the bytes of the frame.
buildEncryptedFrameBytes(header, card) ==
    LET c       == cfg.experiment.cipherMode
        nonceOf == <<deriveNonceKey(header.reader_id, header.key_version), nonceContext(header)>>
        random  == cfg.experiment.nonceMode = "random"
        n       == NonceUsed(c, IF random THEN FreshNonce(Len(sealed) + 1)
                                          ELSE HmacNonce(sealed, nonceOf[1], nonceOf[2]))
        h       == [header EXCEPT !.nonce = n]
        box     == sealWithNonce(sealed, aeadKey(h.reader_id, h.key_version), c, n, aad(h), card)
    IN  [key |-> box.key, cipher |-> c, nonce |-> n, aad |-> box.aad, pt |-> card,
         ct |-> box.ct, tag |-> box.tag,
         nonceOf |-> IF random THEN << >> ELSE nonceOf,
         header |-> h, modes |-> cfg.experiment,
         bytes |-> serialize([header |-> h, ct |-> box.ct, tag |-> box.tag])]

\* processHwUid: a card is held to a reader that has a key version.  The
\* number is the one in the device's request; nothing here asks whether it
\* has been used.
processHwUid(r, d, card, seq, ts) ==
    LET kv == currentKeyVersionForReader(store, r)
    IN  /\ up /\ Len(sealed) < MaxSeals
        /\ kv # 0
        /\ sealed' = Append(sealed, buildEncryptedFrameBytes(
                       [reader_id |-> r, door_id |-> d, ts_unix_ms |-> ts, seq |-> seq,
                        key_version |-> kv, nonce |-> ZeroNonce], card))
        /\ wire' = sealed'[Len(sealed')].bytes
        /\ damage' = 0 /\ result' = NoResult
        /\ UNCHANGED <<cfg, up, store, enrolled, changes>>
-----------------------------------------------------------------------------
(* The way to the decision endpoint                                        *)

\* A frame sealed earlier is delivered, perhaps again.
Deliver(i) ==
    /\ wire # sealed[i].bytes
    /\ wire' = sealed[i].bytes /\ damage' = 0 /\ result' = NoResult
    /\ UNCHANGED <<cfg, up, store, sealed, enrolled, changes>>

Damaged(bs) ==
    /\ damage < MaxDamage /\ damage + changes < MaxEvents /\ wire # << >>
    /\ wire' = bs
    /\ damage' = damage + 1 /\ result' = NoResult
    /\ UNCHANGED <<cfg, up, store, sealed, enrolled, changes>>

\* The tail is lost, or something follows it.
Truncate(n) == n < Len(wire) /\ Damaged(SubSeq(wire, 1, n))
Extend(b)   == Damaged(Append(wire, b))

\* One byte of an integer field changes ...
Change(i, b) ==
    /\ i \in (1..NonceAt) \cup ((CtLenAt + 1)..CtAt)
    /\ i <= Len(wire) /\ wire[i] # b
    /\ Damaged([wire EXCEPT ![i] = b])

\* ... or the bytes from a position on are those of another frame.
Splice(i, n) ==
    /\ n < Len(wire) /\ n < Len(sealed[i].bytes)
    /\ Damaged(SubSeq(wire, 1, n) \o SubSeq(sealed[i].bytes, n + 1, Len(sealed[i].bytes)))
-----------------------------------------------------------------------------
(* FrameHandler and DecisionEngine                                         *)

\* FrameDecryptor::decryptFrame
opened(f) ==
    openWithNonce(sealed, aeadKey(f.header.reader_id, f.header.key_version),
        cfg.experiment.cipherMode, f.header.nonce, aad(f.header), f.ct, f.tag)

\* Mutant: the first rotation is not allowed for.
KeyVersionOkLate(v, cur) ==
    v = cur \/ (cfg.frameHandler.allowPreviousKeyVersion /\ cur > 2 /\ v + 1 = cur)

keyVersionOk(v, cur) ==
    v = cur \/ (cfg.frameHandler.allowPreviousKeyVersion /\ cur > 1 /\ v + 1 = cur)

\* The nonce check of handleFrameBytes.
NonceMismatch(h) ==
    /\ cfg.experiment.misuseDetectionEnabled /\ cfg.experiment.nonceMode = "deterministic"
    /\ ~ nonceEqual(cfg.experiment.cipherMode, h.nonce,
                    HmacNonce(sealed, deriveNonceKey(h.reader_id, h.key_version), nonceContext(h)))

\* A frame that does not parse has the header of a value-initialised result.
ZeroHeader ==
    [reader_id |-> 0, door_id |-> 0, ts_unix_ms |-> 0, seq |-> 0, key_version |-> 0,
     nonce |-> ZeroNonce]

\* FrameHandler::handle on bytes that parse; its checks in their order.
handleVerdict(f) ==
    LET h   == f.header
        cur == currentKeyVersionForReader(store, h.reader_id)
    IN  IF cur = 0 THEN "unknown_reader"
        ELSE IF /\ cfg.frameHandler.enforceReaderDoorBinding
                /\ ~ isReaderAllowedDoor(store, h.reader_id, h.door_id)
        THEN "reader_door_forbidden"
        ELSE IF ~ keyVersionOk(h.key_version, cur) THEN "bad_key_version"
        ELSE IF opened(f) = {} THEN "decrypt_failed"
        ELSE "ok"

\* The verdict on the bytes as a frame: the nonce is checked whatever the
\* handler has said.
frameVerdict(bs) ==
    LET parsed == parseError(bs, cfg.frameHandler.maxCtLen)
    IN  IF NonceMismatch(IF parsed = "ok" THEN parse(bs).header ELSE ZeroHeader)
        THEN "quarantined"
        ELSE IF parsed # "ok" THEN parsed
        ELSE handleVerdict(parse(bs))

\* Mutant: the previous pepper is tried first.
PeppersReversed(cur) ==
    IF cfg.experiment.pepperMode = "static" THEN <<1>>
    ELSE IF cfg.frameHandler.allowPreviousKeyVersion /\ cur > 1 THEN <<cur - 1, cur>>
    ELSE <<cur>>

\* The versions whose peppers resolveCardHmac tries, in order.
Peppers(cur) ==
    IF cfg.experiment.pepperMode = "static" THEN <<1>>
    ELSE IF cfg.frameHandler.allowPreviousKeyVersion /\ cur > 1 THEN <<cur, cur - 1>>
    ELSE <<cur>>

resolveCardHmac(card, cur) ==
    LET role(i) == roleForCardHmac(store, hmacHex(deriveCardPepper(Peppers(cur)[i]), card))
        Found   == {i \in DOMAIN Peppers(cur) : role(i) # NoRole}
    IN  IF Found = {} THEN NoRole
        ELSE role(CHOOSE i \in Found : \A j \in Found : i <= j)

\* The decision endpoint on the bytes that have arrived.
handleFrameBytes ==
    LET verdict == frameVerdict(wire)
        h       == parse(wire).header
        card    == CHOOSE c \in opened(parse(wire)) : TRUE
        role    == resolveCardHmac(card, currentKeyVersionForReader(store, h.reader_id))
    IN  /\ up /\ wire # << >> /\ result = NoResult
        /\ result' = IF verdict # "ok" THEN [reason |-> verdict]
                     ELSE [card |-> card, role |-> role, header |-> h,
                           reason |-> IF role = NoRole THEN "unknown_card"
                                      ELSE IF isAllowed(store, h.door_id, role) THEN "ok"
                                      ELSE "forbidden"]
        /\ UNCHANGED <<cfg, up, store, sealed, wire, damage, enrolled, changes>>
-----------------------------------------------------------------------------
(* The administrator                                                       *)

Changed ==
    /\ changes < MaxChanges /\ damage + changes < MaxEvents
    /\ changes' = changes + 1
    /\ result' = NoResult
    /\ UNCHANGED <<sealed, wire, damage>>

\* A key version is given to a reader; this is how keys rotate.
UpsertReader(r, v) ==
    /\ up /\ Changed
    /\ store' = upsertReader(store, r, v)
    /\ UNCHANGED <<cfg, up, enrolled>>

\* upsertCard: under the version that is asked for or, without one (asked = 0),
\* under the configured one.  A request that names version 0 makes
\* deriveCardPepper throw and changes nothing.
UpsertCard(card, role, asked) ==
    LET v == IF asked = 0 THEN cfg.keyManagement.currentKeyVersion ELSE asked
    IN  /\ up /\ Changed
        /\ store' = upsertCardHmac(store, hmacHex(deriveCardPepper(v), card), role)
        /\ enrolled' = [enrolled EXCEPT ![card] = [version |-> v, role |-> role]]
        /\ UNCHANGED <<cfg, up>>

\* deleteCard removes one row; the card may have others.
DeleteCard(h) ==
    /\ up /\ Changed
    /\ roleForCardHmac(store, h) # NoRole
    /\ store' = deleteCardHmac(store, h)
    /\ enrolled' = [enrolled EXCEPT ![h[1]] =
                      IF @ # Unenrolled /\ @.version = h[2] THEN Unenrolled ELSE @]
    /\ UNCHANGED <<cfg, up>>

\* The server is started again, with a configuration that may be refused.
Restart(y) ==
    /\ Changed
    /\ cfg' = loadFromYaml(y)
    /\ up' = Starts(cfg')
    /\ UNCHANGED <<store, enrolled>>
-----------------------------------------------------------------------------
\* Nothing to deliver, or nobody to answer.
Idle == (wire = << >> \/ ~ up \/ result # NoResult) /\ UNCHANGED vars

Next ==
    \/ \E s \in Scans, ts \in Times : processHwUid(s[1], s[2], s[3], s[4], ts)
    \/ \E i \in DOMAIN sealed : Deliver(i)
    \/ \E n \in DOMAIN wire : Truncate(n)
    \/ \E b \in 0..(Base - 1) : Extend(b) \/ \E i \in DOMAIN wire : Change(i, b)
    \/ \E i \in DOMAIN sealed, n \in DOMAIN wire : Splice(i, n)
    \/ handleFrameBytes
    \/ \E r \in Rotated, v \in 0..MaxKv : UpsertReader(r, v)
    \/ \E e \in Enrolments, v \in 0..MaxKv : UpsertCard(e[1], e[2], v)
    \/ \E h \in CardHmacs : DeleteCard(h)
    \/ \E y \in Yamls : Restart(y)
    \/ Idle

Spec == Init /\ [][Next]_vars
-----------------------------------------------------------------------------
(* Properties                                                              *)

Opened == result # NoResult /\ "card" \in DOMAIN result

\* A frame that opens was sealed by the hardware service for that card.  With
\* aad_mode "full" it is one of those frames byte for byte: nothing of it was
\* changed, cut, added or exchanged, the unused half of a ChaCha20 nonce
\* included.  Without the associated data the reader and the key version
\* still hold if keys are derived per reader, and every field but the unused
\* half of the nonce if deterministic nonces are checked.
AcceptedAsSealed ==
    Opened => \E i \in DOMAIN sealed :
        LET s == sealed[i].header
            h == result.header
        IN  /\ sealed[i].pt = result.card
            /\ cfg.experiment.aadMode # "none" => sealed[i].bytes = wire
            /\ cfg.experiment.keyDerivationMode # "direct" =>
                 s.reader_id = h.reader_id /\ s.key_version = h.key_version
            /\ cfg.experiment.nonceMode = "deterministic"
               /\ cfg.experiment.misuseDetectionEnabled =>
                 [s EXCEPT !.nonce = ZeroNonce] = [h EXCEPT !.nonce = ZeroNonce]

\* Two frames are sealed under the same key, cipher and nonce in one case
\* only, across rotations, restarts and changes of mode: both nonces are
\* deterministic and the headers agree in every field.  That is the request
\* of a device sealed twice in one millisecond, or a number used again in
\* it, which processHwUid does not refuse; the cards may then differ.
NonceRepeatsOnlyWithHeader ==
    \A i, j \in DOMAIN sealed :
        /\ i # j
        /\ sealed[i].key = sealed[j].key /\ sealed[i].cipher = sealed[j].cipher
        /\ nonceEqual(sealed[i].cipher, sealed[i].nonce, sealed[j].nonce)
        => /\ sealed[i].modes.nonceMode # "random"
           /\ sealed[j].modes.nonceMode # "random"
           /\ sealed[i].header = sealed[j].header

\* An honest frame whose card has a row that counts.
Legitimate(e) ==
    LET h   == e.header
        cur == currentKeyVersionForReader(store, h.reader_id)
    IN  /\ e.bytes = wire /\ e.modes = cfg.experiment
        /\ PtLen[e.pt] <= cfg.frameHandler.maxCtLen
        /\ isReaderAllowedDoor(store, h.reader_id, h.door_id)
        /\ cur \in {h.key_version, h.key_version + 1}
        /\ cur # h.key_version => cfg.frameHandler.allowPreviousKeyVersion
        /\ IF cfg.experiment.pepperMode = "static"
           THEN roleForCardHmac(store, <<e.pt, 1>>) # NoRole
           ELSE \/ roleForCardHmac(store, <<e.pt, cur>>) # NoRole
                \/ /\ cfg.frameHandler.allowPreviousKeyVersion
                   /\ \E v \in 1..MaxKv : v + 1 = cur /\ roleForCardHmac(store, <<e.pt, v>>) # NoRole

\* One rotation of a reader's key version is not noticed: the frame that was
\* under way still opens, and a card enrolled under the version before is
\* still known.  A frame is refused only for its role.
RotationKeepsCards ==
    result # NoResult /\ (\E i \in DOMAIN sealed : Legitimate(sealed[i]))
        => result.reason \in {"ok", "forbidden"}

\* A card enrolled anew under the reader's current version gets its new role
\* at once, whatever rows it still has from earlier versions.
RoleIsLatest ==
    Opened /\ cfg.experiment.pepperMode # "static" /\ enrolled[result.card] # Unenrolled =>
        LET e == enrolled[result.card]
        IN  e.version = currentKeyVersionForReader(store, result.header.reader_id)
              => result.role = e.role
=============================================================================
