------------------------- MODULE MCAllocationClaims -------------------------
(* Values for model-checking allocation claims. *)
EXTENDS AllocationClaims, TLC

CONSTANTS p1, p2

MCParticipants == {p1, p2}

(* All claims on a scale of two over one or two tokens, and one off it. *)
MCDrafts == {<<2>>, <<1, 1>>, <<0, 2>>, <<1, 2>>}
MCScores == {<<0, 0>>, <<1, 2>>}

(* Bots only meet in the relayer, so one claim file is at work at a time.  A *)
(* bot that failed to mine is as an idle one, a claim made out to another    *)
(* is refused whatever else it says, and one participant has a stake other   *)
(* than the default.                                                         *)
OneAtWork ==
    /\ Cardinality({p \in Participants : HasFile(p)}) <= 1
    /\ Cardinality({p \in Participants : stake[p] # 1}) <= 1
    /\ \A p \in Participants :
         /\ bot[p].pc # "unmined"
         /\ HasFile(p) /\ bot[p].file.as # p => bot[p].file.epoch = 0 /\ bot[p].file.intact

Symmetry == Permutations(MCParticipants)
=============================================================================
