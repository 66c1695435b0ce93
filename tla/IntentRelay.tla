---------------------------- MODULE IntentRelay ----------------------------
(***************************************************************************)
(* What the relayer and the strategy bot promise together of one intent,   *)
(* without the requests and commands that overlap, repeat and die: every   *)
(* verifier is heard once, the intent is made ready, offered and taken to  *)
(* the chain only with a quorum of them, the chain hears only what the     *)
(* relayer has heard, and each side follows the other: the relayer calls   *)
(* approved what the chain approved, the chain executes what was offered.  *)
(***************************************************************************)
CONSTANTS
    Verifiers,
    Quorums      \* the sets of verifiers that are enough

VARIABLES
    voices,      \* verifiers whose attestation the relayer stores
    stage,       \* the intent's status at the relayer
    offered,     \* the intent has an execution job
    heard,       \* verifiers whose attestation is on chain
    onChain      \* "absent", "proposed", "approved" or "executed"

relayVars == <<voices, stage, offered, heard, onChain>>

Init ==
    /\ voices = {} /\ stage = "NONE" /\ offered = FALSE
    /\ heard = {} /\ onChain = "absent"

Open ==
    /\ stage = "NONE"
    /\ stage' = "PENDING"
    /\ UNCHANGED <<voices, offered, heard, onChain>>

Hear(v) ==
    /\ stage # "NONE"
    /\ v \notin voices
    /\ voices' = voices \cup {v}
    /\ UNCHANGED <<stage, offered, heard, onChain>>

MakeReady ==
    /\ stage = "PENDING"
    /\ voices \in Quorums
    /\ stage' = "READY_FOR_ONCHAIN"
    /\ UNCHANGED <<voices, offered, heard, onChain>>

Offer ==
    /\ voices \in Quorums
    /\ offered' = TRUE
    /\ UNCHANGED <<voices, stage, heard, onChain>>

(* The approval offers the intent as well, if that has not been done. *)
Approve ==
    /\ stage = "READY_FOR_ONCHAIN"
    /\ onChain \in {"approved", "executed"}
    /\ stage' = "APPROVED"
    /\ offered' = TRUE
    /\ UNCHANGED <<voices, heard, onChain>>

Propose ==
    /\ onChain = "absent"
    /\ onChain' = "proposed"
    /\ UNCHANGED <<voices, stage, offered, heard>>

(* The chain weighs verifiers in its own way: a quorum here may not do there. *)
Attest ==
    /\ onChain = "proposed"
    /\ voices \in Quorums
    /\ \E batch \in (SUBSET (voices \ heard)) \ {{}} : heard' = heard \cup batch
    /\ onChain' \in {"proposed", "approved"}
    /\ UNCHANGED <<voices, stage, offered>>

Execute ==
    /\ offered
    /\ onChain = "approved"
    /\ onChain' = "executed"
    /\ UNCHANGED <<voices, stage, offered, heard>>

Next ==
    \/ Open \/ MakeReady \/ Offer \/ Approve
    \/ Propose \/ Attest \/ Execute
    \/ \E v \in Verifiers : Hear(v)

Spec == Init /\ [][Next]_relayVars
=============================================================================
