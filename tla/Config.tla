------------------------------- MODULE Config -------------------------------
(***************************************************************************)
(* config_loader: the sections of the configuration file that the decision *)
(* path reads.  A YAML node is a function from the keys it has to their    *)
(* values; a section or key that is missing takes the default of the       *)
(* structure it is loaded into.  The storage and admin sections hold paths,*)
(* addresses and secrets, and are left out.                                *)
(***************************************************************************)
EXTENDS Naturals

readValue(node, key, default) == IF key \in DOMAIN node THEN node[key] ELSE default

loadFrameHandler(node) ==
    [antiReplayEnabled        |-> readValue(node, "anti_replay_enabled", TRUE),
     replayWindowSize         |-> readValue(node, "replay_window_size", 256),
     maxCtLen                 |-> readValue(node, "max_ct_len", 4096),
     maxSkewMs                |-> readValue(node, "max_skew_ms", 0),
     allowPreviousKeyVersion  |-> readValue(node, "allow_previous_key_version", TRUE),
     enforceReaderDoorBinding |-> readValue(node, "enforce_reader_door_binding", TRUE)]

loadKeyManagement(node) ==
    [currentKeyVersion       |-> readValue(node, "current_key_version", 1),
     allowPreviousKeyVersion |-> readValue(node, "allow_previous_key_version", TRUE)]

loadExperiment(node) ==
    [cipherMode             |-> readValue(node, "cipher_mode", "xchacha20"),
     nonceMode              |-> readValue(node, "nonce_mode", "deterministic"),
     keyDerivationMode      |-> readValue(node, "key_derivation_mode", "hkdf"),
     aadMode                |-> readValue(node, "aad_mode", "full"),
     pepperMode             |-> readValue(node, "pepper_mode", "versioned"),
     auditChainEnabled      |-> readValue(node, "audit_chain_enabled", TRUE),
     misuseDetectionEnabled |-> readValue(node, "misuse_detection_enabled", FALSE),
     rollbackThreshold      |-> readValue(node, "rollback_threshold", 100),
     tagFailStreakLimit     |-> readValue(node, "tag_fail_streak_limit", 5)]

loadFromYaml(root) ==
    LET section(name) == readValue(root, name, << >>)
    IN  [frameHandler  |-> loadFrameHandler(section("frame_handler")),
         keyManagement |-> loadKeyManagement(section("key_management")),
         experiment    |-> loadExperiment(section("experiment"))]

\* loadFrameHandler refuses a window of 0, the KeyManager a version of 0;
\* either way main ends before the server listens.
Starts(cfg) ==
    /\ cfg.frameHandler.antiReplayEnabled => cfg.frameHandler.replayWindowSize # 0
    /\ cfg.keyManagement.currentKeyVersion # 0
=============================================================================
