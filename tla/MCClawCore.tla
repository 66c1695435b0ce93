----------------------------- MODULE MCClawCore -----------------------------
(* Values for model-checking the settlement core. *)
EXTENDS ClawCore, TLC, FiniteSetsExt

CONSTANTS v1, v2, i1, i2

MCVerifiers == {v1, v2}
MCIntents == {i1, i2}

goodRoute == [quote |-> 100, min |-> 97]
slackRoute == [quote |-> 100, min |-> 90]
MCRoutes == {goodRoute, slackRoute}

(* A bounded intent, one whose own route breaks its slippage limit, and one *)
(* that carries no route commitment and no notional limit.                  *)
MCTerms ==
    { [route |-> goodRoute, maxSlippageBps |-> 300, maxNotional |-> 1, deadline |-> 2],
      [route |-> slackRoute, maxSlippageBps |-> 300, maxNotional |-> 1, deadline |-> 1],
      [route |-> NoRoute, maxSlippageBps |-> 300, maxNotional |-> 0, deadline |-> 2] }

Symmetry == Permutations(MCVerifiers) \cup Permutations(MCIntents)

(* Total really is the sum of the weights. *)
ASSUME TotalIsSum ==
    \A S \in SUBSET Verifiers : \A w \in [Verifiers -> 0..MaxUint] :
        Total(w, S) = MapThenSumSet(LAMBDA v : w[v], S)
=============================================================================
