--------------------------- MODULE MCKeyedFrames ---------------------------
(* KeyedFrames for model checking.  A byte has 4 values, a uint32_t one    *)
(* byte and a uint64_t two; the nonce has two bytes, of which ChaCha20     *)
(* uses one, and the tag has one.                                          *)
EXTENDS KeyedFrames

\* The profiles of config/ that differ, and the settings none of them uses:
\* no associated data, the master key for every reader, the static pepper,
\* no previous versions, a later version, and a file that is refused.
Yaml(handler, keys, experiment) ==
    [frame_handler |-> handler, key_management |-> keys, experiment |-> experiment]

ProfileA1R0 == Yaml([max_ct_len |-> 2], [current_key_version |-> 1],
    [cipher_mode |-> "chacha20", nonce_mode |-> "random"])
ProfileA2R1 == Yaml([max_ct_len |-> 2], [current_key_version |-> 1],
    [nonce_mode |-> "deterministic"])
ProfileA1R2 == Yaml([max_ct_len |-> 2], [current_key_version |-> 2],
    [cipher_mode |-> "chacha20", misuse_detection_enabled |-> TRUE])
Unbound == Yaml([max_ct_len |-> 1], << >>,
    [aad_mode |-> "none", misuse_detection_enabled |-> TRUE])
Direct == Yaml([allow_previous_key_version |-> FALSE], << >>,
    [aad_mode |-> "none", key_derivation_mode |-> "direct", pepper_mode |-> "static"])
NoVersion == Yaml(<< >>, [current_key_version |-> 0], << >>)

MCYamls == {ProfileA1R0, ProfileA2R1, ProfileA1R2, Unbound, Direct, NoVersion}

\* Short and long card ids: plaintexts of different lengths.
MCPtLen == [c1 |-> 1, c2 |-> 2]
MCCards == DOMAIN MCPtLen

MCMagic == <<3>>
MCIds == 0..3

\* Readers 1 and 2 at two doors, card c1 enrolled under version 1.
MCStore ==
    [EmptyStore EXCEPT
        !.readers = {1, 2}, !.keyVersion = [r \in Readers |-> IF r \in {1, 2} THEN r ELSE 0],
        !.readerDoors = {1, 2} \X {1, 2},
        !.doorRoles = {<<1, "staff">>, <<1, "guest">>, <<2, "staff">>},
        !.cards[<<"c1", 1>>] = "guest"]

MCInitStores == {MCStore}
\* Two readers, two doors and two cards; reader 1 uses number 1 for both of
\* its cards, at one door and at two, and then number 2.
MCScans == {<<1, 1, "c1", 1>>, <<1, 1, "c2", 1>>, <<1, 2, "c2", 1>>, <<2, 1, "c1", 1>>, <<1, 1, "c1", 2>>}
MCEnrolments == {<<"c1", "staff">>}
=============================================================================
