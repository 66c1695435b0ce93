--------------------------- MODULE MCExecutionJobs ---------------------------
EXTENDS ExecutionJobs, TLC

CONSTANTS a, b, c, r1, r2, s1, x1

mcSigners == {s1}
mcExecutors == {x1}

(* Any two of three verifiers make a quorum, none does alone, and the third *)
(* may come late.  Two attestation requests are served at once.             *)
mcVerifiers == {a, b, c}
mcWeight == [v \in mcVerifiers |-> 1]
mcRequests == {r1, r2}
Symmetry == Permutations(mcVerifiers) \cup Permutations(mcRequests)

(* The states that are explored further.  Two requests overlap with each     *)
(* other while the bot rests, and one of them with everything else; expiries *)
(* come with two attestations at most.                                       *)
BotRests ==
    /\ \A s \in Signers : SignerAt(s, "idle")
    /\ \A x \in Executors : ExecutorAt(x, "idle")
    /\ expired = {}
Overlap ==
    /\ (\A r \in Requests : ~At(r, "idle")) => BotRests
    /\ expired # {} => Cardinality(Attesters) <= 2

(* For the runs about the bot: one request, of two verifiers, of whom a makes *)
(* a quorum alone.                                                            *)
mcTwoVerifiers == {a, b}
mcTwoWeights == [v \in mcTwoVerifiers |-> IF v = a THEN 2 ELSE 1]
mcOneRequest == {r1}
=============================================================================
