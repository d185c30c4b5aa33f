----------------------------- MODULE FrameCodec -----------------------------
(***************************************************************************)
(* The wire format of protocol_lib: frames to bytes and back.              *)
(*                                                                         *)
(* A byte string is a sequence of naturals.  The integer fields are bytes  *)
(* below Base; nonce, ciphertext and tag are never computed with, so their *)
(* bytes may be any naturals.  The sizes are parameters: the code has      *)
(* Base = 256, U32 = 4, U64 = 8, NonceSize = 24, TagSize = 16 and the      *)
(* magic "AS01".                                                           *)
(***************************************************************************)
EXTENDS Naturals, Sequences

CONSTANTS Base,         \* values of a byte
          U32, U64,     \* bytes of a uint32_t, of a uint64_t
          NonceSize,    \* bytes of Header::nonce
          TagSize,      \* bytes of Tag16
          Magic,        \* kMagic
          Version       \* kVersion

ASSUME CodecAssumption ==
    /\ Base \in Nat \ {0, 1}
    /\ {U32, U64, TagSize} \subseteq Nat \ {0} /\ NonceSize \in Nat \ {0, 1}
    /\ Magic \in Seq(Nat) /\ Version \in 0..(Base - 1)
-----------------------------------------------------------------------------
(* protocol_utils: little-endian integers                                  *)

\* v >> 8 * i, for i up to w.
Shifted(v, w) ==
    LET s[i \in 0..w] == IF i = 0 THEN v ELSE s[i - 1] \div Base
    IN  s

\* put_le32, put_le64: the low w bytes of v, the lowest first.
put_le(v, w) == [i \in 1..w |-> Shifted(v, w)[i - 1] % Base]

\* get_le32, get_le64: the integer in the w bytes that follow the first at; h[j]
\* is the value of its j highest bytes.
get_le(bs, at, w) ==
    LET h[j \in 0..w] == IF j = 0 THEN 0 ELSE bs[at + w - j + 1] + Base * h[j - 1]
    IN  h[w]

\* v is a value of an unsigned integer of w bytes.
Fits(v, w) == Shifted(v, w)[w] = 0
-----------------------------------------------------------------------------
(* Writing                                                                 *)

\* Mutant: the sequence number is left out.
ToBytesNoSeq(h) ==
    put_le(h.reader_id, U32) \o put_le(h.door_id, U32) \o put_le(h.ts_unix_ms, U64)
    \o put_le(h.key_version, U32) \o h.nonce

\* Header::to_bytes, the associated data and the context of a nonce.
to_bytes(h) ==
    put_le(h.reader_id, U32) \o put_le(h.door_id, U32) \o put_le(h.ts_unix_ms, U64)
    \o put_le(h.seq, U64) \o put_le(h.key_version, U32) \o h.nonce

serialize(f) ==
    Magic \o <<Version>>
    \o put_le(f.header.reader_id, U32) \o put_le(f.header.door_id, U32)
    \o put_le(f.header.ts_unix_ms, U64) \o put_le(f.header.seq, U64)
    \o put_le(f.header.key_version, U32) \o f.header.nonce
    \o put_le(Len(f.ct), U32) \o f.ct \o f.tag
-----------------------------------------------------------------------------
(* FrameParser                                                             *)

\* Where the fields of a frame start: the number of bytes before them.
ReaderAt == Len(Magic) + 1
DoorAt   == ReaderAt + U32
TsAt     == DoorAt + U32
SeqAt    == TsAt + U64
KvAt     == SeqAt + U64
NonceAt  == KvAt + U32
CtLenAt  == NonceAt + NonceSize
CtAt     == CtLenAt + U32

kMinFrameSize == CtAt + TagSize

ctLen(bs) == get_le(bs, CtLenAt, U32)

\* Mutant: bytes after the tag are ignored.
ParseErrorNoTrailing(bs, maxCtLen) ==
    IF Len(bs) < kMinFrameSize THEN "frame_too_small"
    ELSE IF SubSeq(bs, 1, Len(Magic)) # Magic THEN "bad_magic"
    ELSE IF bs[ReaderAt] # Version THEN "bad_protocol_version"
    ELSE IF ctLen(bs) > maxCtLen THEN "ciphertext_too_large"
    ELSE IF Len(bs) < CtAt + ctLen(bs) + TagSize THEN "frame_truncated"
    ELSE "ok"

\* The checks of FrameParser::parse in their order, under the names that
\* parseErrorToCode gives to their messages.  Once the minimum size is there
\* the checks of the single header fields cannot fail.
parseError(bs, maxCtLen) ==
    IF Len(bs) < kMinFrameSize THEN "frame_too_small"
    ELSE IF SubSeq(bs, 1, Len(Magic)) # Magic THEN "bad_magic"
    ELSE IF bs[ReaderAt] # Version THEN "bad_protocol_version"
    ELSE IF ctLen(bs) > maxCtLen THEN "ciphertext_too_large"
    ELSE IF Len(bs) < CtAt + ctLen(bs) + TagSize THEN "frame_truncated"
    ELSE IF Len(bs) > CtAt + ctLen(bs) + TagSize THEN "frame_trailing_bytes"
    ELSE "ok"

\* The frame in bytes that pass them.
parse(bs) ==
    [header |-> [reader_id   |-> get_le(bs, ReaderAt, U32),
                 door_id     |-> get_le(bs, DoorAt, U32),
                 ts_unix_ms  |-> get_le(bs, TsAt, U64),
                 seq         |-> get_le(bs, SeqAt, U64),
                 key_version |-> get_le(bs, KvAt, U32),
                 nonce       |-> SubSeq(bs, NonceAt + 1, NonceAt + NonceSize)],
     ct  |-> SubSeq(bs, CtAt + 1, CtAt + ctLen(bs)),
     tag |-> SubSeq(bs, CtAt + ctLen(bs) + 1, CtAt + ctLen(bs) + TagSize)]
=============================================================================
