---------------------------- MODULE AccessStore ----------------------------
(***************************************************************************)
(* SqliteAccessStore of access_storage, as operators on a record of its    *)
(* four tables:                                                            *)
(*   readers      ids that have a row in readers                           *)
(*   keyVersion   current_key_version of each row (0 where there is none)  *)
(*   readerDoors  rows of reader_doors                                     *)
(*   doorRoles    rows of door_roles                                       *)
(*   cards        the role of each row of cards, NoRole where there is     *)
(*                none; the key of a row is the card's HMAC under the      *)
(*                pepper of a key version, written <<card, version>>       *)
(* Each operator is one SQL statement.  Statements fail only as a whole,   *)
(* and a lookup that fails counts as "no row".                             *)
(***************************************************************************)
EXTENDS Naturals

CONSTANTS Readers,      \* reader ids
          Doors,        \* door ids
          Cards,        \* card ids
          Roles,        \* role names
          MaxKv,        \* bound: highest key version in use
          NoRole        \* "no row" answer of roleForCardHmac

ASSUME StoreAssumption == MaxKv \in Nat \ {0} /\ NoRole \notin Roles

\* HMACs of the cards: injective in the card and in the pepper's version.
CardHmacs == Cards \X (1..MaxKv)

StoreType ==
    [readers     : SUBSET Readers,
     keyVersion  : [Readers -> 0..MaxKv],
     readerDoors : SUBSET (Readers \X Doors),
     doorRoles   : SUBSET (Doors \X Roles),
     cards       : [CardHmacs -> Roles \cup {NoRole}]]

\* A database as initSchema leaves it.
EmptyStore ==
    [readers     |-> {},
     keyVersion  |-> [r \in Readers |-> 0],
     readerDoors |-> {},
     doorRoles   |-> {},
     cards       |-> [h \in CardHmacs |-> NoRole]]

\* reader_doors references readers.
ForeignKeys(s) == \A b \in s.readerDoors : b[1] \in s.readers

currentKeyVersionForReader(s, r) == s.keyVersion[r]

isReaderAllowedDoor(s, r, d) == <<r, d>> \in s.readerDoors

roleForCardHmac(s, h) == s.cards[h]

isAllowed(s, d, role) == <<d, role>> \in s.doorRoles

upsertReader(s, r, kv) ==
    [s EXCEPT !.readers = @ \cup {r}, !.keyVersion[r] = kv]

\* Mutant: the schema without ON DELETE CASCADE.
DeleteReaderRow(s, r) ==
    [s EXCEPT !.readers = @ \ {r}, !.keyVersion[r] = 0]

\* ON DELETE CASCADE removes the bindings with the reader.
deleteReader(s, r) ==
    [s EXCEPT !.readers = @ \ {r},
              !.keyVersion[r] = 0,
              !.readerDoors = {b \in @ : b[1] # r}]

\* A binding to a reader without a row violates the foreign key: the
\* statement fails and nothing changes.
allowDoorForReader(s, r, d) ==
    IF r \in s.readers THEN [s EXCEPT !.readerDoors = @ \cup {<<r, d>>}] ELSE s

revokeDoorForReader(s, r, d) == [s EXCEPT !.readerDoors = @ \ {<<r, d>>}]

allowRole(s, d, role) == [s EXCEPT !.doorRoles = @ \cup {<<d, role>>}]

revokeRole(s, d, role) == [s EXCEPT !.doorRoles = @ \ {<<d, role>>}]

upsertCardHmac(s, h, role) == [s EXCEPT !.cards[h] = role]

deleteCardHmac(s, h) == [s EXCEPT !.cards[h] = NoRole]
=============================================================================
