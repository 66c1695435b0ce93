------------------------- MODULE MCStrategyDecision -------------------------
(* Values for model-checking what the strategy bot decides. *)
EXTENDS StrategyDecision, TLC

CONSTANTS a, b

MCTokens == {a, b}
MCTargets == {<<>>, (a :> 3) @@ (b :> 1), a :> 1}
MCStale == {(a :> 4) @@ (b :> 1)}
MCReports ==
    [cost : {[t \in MCTokens |-> 0], (a :> 3) @@ (b :> 8)}, old : {{}, {b}}]
MCPools == {[asset |-> 40, token |-> 20, router |-> "bonding"],
            [asset |-> 20, token |-> 20, router |-> "dex"]}

(* A sale that asks for half of what it was quoted, to the wrong address. *)
MCHandMade ==
    {[action |-> "SELL", token |-> a, amountIn |-> 2, quote |-> 4, min |-> 2,
      router |-> "bonding", recipient |-> "vault", left |-> 1, trigger |-> "hand",
      snapshot |-> <<>>]}

(* A bot at work neither meets an open intent nor looks at a switch. *)
OneThing == bot = Idle \/ (open = {} /\ off = "none")
=============================================================================
