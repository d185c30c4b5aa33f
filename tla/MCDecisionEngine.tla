-------------------------- MODULE MCDecisionEngine --------------------------
(***************************************************************************)
(* DecisionEngine for model checking: one provisioned reader r1 (and r0,   *)
(* the id 0 of an unparsed header), one door, one card, two roles, two key *)
(* versions.                                                               *)
(***************************************************************************)
EXTENDS DecisionEngine

CONSTANTS r0, r1, d1, c1, staff, guest

\* A frame of r1 as the hardware service builds it.
Good(seq, v) ==
    [parses |-> TRUE, reader |-> r1, door |-> d1, seq |-> seq, kv |-> v,
     nonceOk |-> TRUE, tagOk |-> TRUE, card |-> c1, action |-> "open"]

Malformed == [Good(1, 1) EXCEPT !.parses = FALSE]

\* r1 at version v, bound to d1, c1 enrolled as staff under version 1.
Provisioned(v) ==
    [readers     |-> {r1},
     keyVersion  |-> [r \in Readers |-> IF r = r1 THEN v ELSE 0],
     readerDoors |-> {<<r1, d1>>},
     doorRoles   |-> {<<d1, staff>>},
     cards       |-> [h \in CardHmacs |-> IF h = <<c1, 1>> THEN staff ELSE NoRole]]

\* Policy runs: two frames, of either key version, and one with another action.
PolicyFrames == {Good(1, 1), Good(2, 2), [Good(2, 2) EXCEPT !.action = "other"]}
PolicyStores == {Provisioned(2)}

\* Protocol runs: good frames, frames damaged on the way (tag, nonce), one
\* without a payload, and one that does not parse; enough to enter quarantine in
\* each way.
ProtocolFrames ==
    {Good(s, 1) : s \in 1..3}
        \cup {[Good(1, 1) EXCEPT !.tagOk = FALSE],
              [Good(2, 1) EXCEPT !.nonceOk = FALSE, !.tagOk = FALSE],
              [Good(2, 1) EXCEPT !.card = NoCard], Malformed}
ProtocolStores == {Provisioned(1)}
=============================================================================
